----------------------------- MODULE OneTimeProofs -----------------------------
(***************************************************************************)
(* What the provider accepts once: signed proofs whose jti it remembers    *)
(* (the client assertions of private_key_jwt, the identity assertions of   *)
(* agents, DPoP proofs), and the socket tickets it stored and takes back.  *)
(*                                                                         *)
(* A request looks at the clock, awaits keys and signatures, and then asks *)
(* the store; the store forgets what has expired whenever it is asked.     *)
(* Every proof expires at Expiry; audiences, keys and claims are left out. *)
(***************************************************************************)
EXTENDS Naturals

CONSTANTS
    Request,        \* slots for requests in flight together
    None,
    Kinds,          \* subset of Remembered \cup Stored
    Expiry,         \* the tick at which a proof expires
    Skew,           \* clockSkewMs, in ticks
    MaxNow          \* bound of the clock

VARIABLES
    kind,           \* the kind of the proof that is presented
    now,
    consumes,       \* configuration: consumeJti is given besides isUsedJti
    seen,           \* the store remembers the jti
    stored,         \* the store holds the secret
    work,           \* requests between two steps
    accepted,       \* history: how often what was presented passed at each tick, up to twice
    issued, spent   \* history: tickets issued and accepted

tickets == <<issued, spent>>
vars == <<kind, now, consumes, seen, stored, work, accepted, tickets>>

Remembered == {"client assertion", "identity assertion", "dpop"}
Stored == {"ticket"}
Time == 0 .. MaxNow

TypeOK ==
    /\ kind \in Kinds /\ now \in Time /\ consumes \in BOOLEAN
    /\ seen \in BOOLEAN /\ stored \in BOOLEAN
    /\ work \in [Request -> {"ask", "record", "shared"} \cup {None}]
    /\ accepted \in [Time -> 0 .. 2] /\ issued \in 0 .. 2 /\ spent \in Nat

Init ==
    /\ kind \in Kinds /\ consumes \in BOOLEAN /\ now = 0
    /\ seen = FALSE /\ stored = FALSE
    /\ work = [r \in Request |-> None] /\ accepted = [t \in Time |-> 0]
    /\ issued = 0 /\ spent = 0

Tick == /\ now < MaxNow /\ now' = now + 1
        /\ UNCHANGED <<kind, consumes, seen, stored, work, accepted, tickets>>

-----------------------------------------------------------------------------
(* Proofs the store remembers.                                             *)

\* When a proof counts as current: a client assertion before its exp, an identity assertion for
\* the clock skew longer, a DPoP proof up to and with maxAge after its iat.
AssertionCurrent == now < Expiry
IdentityCurrent == now < Expiry + Skew
ProofCurrent == now <= Expiry

\* The history of what has just passed.
Passed == [accepted EXCEPT ![now] = IF @ = 0 THEN 1 ELSE 2]

\* The look at the clock and the claims, before keys and signatures are awaited.
Present(r, pc) ==
    /\ work[r] = None /\ work' = [work EXCEPT ![r] = pc]
    /\ UNCHANGED <<kind, now, consumes, seen, stored, accepted, tickets>>

VerifyClientAssertion(r) == kind = "client assertion" /\ AssertionCurrent /\ Present(r, "record")
VerifyIdentityAssertion(r) == kind = "identity assertion" /\ IdentityCurrent /\ Present(r, "record")
VerifyDpopProof(r) == kind = "dpop" /\ ProofCurrent /\ Present(r, "ask")

\* isUsedJti only asks; consumeJti, when it is given, decides.  A request that asks while another
\* has asked and not yet been remembered is told the same.
AskUsed(r) ==
    LET asked == \E o \in Request : work[o] \in {"record", "shared"} IN
    /\ work[r] = "ask"
    /\ work' = [work EXCEPT ![r] = IF seen THEN None ELSE IF asked THEN "shared" ELSE "record"]
    /\ UNCHANGED <<kind, now, consumes, seen, stored, accepted, tickets>>

\* What the store still knows once it has dropped what expired.
ForgottenAtOnce == FALSE                              \* defect: a jti is not remembered
Remembers ==
    /\ seen
    /\ CASE kind = "client assertion"   -> ~(Expiry < now)
         [] kind = "dpop"               -> ~(Expiry < now)
         [] kind = "identity assertion" -> ~(Expiry <= now)

\* recordIfFresh and consumeJti: the first to come passes, one statement or one update.
\* Without consumeJti the caller remembers the proof after the request, which passes; a request
\* that shared its answer is then not counted.
RecordIfFresh(r) ==
    LET decides == kind # "dpop" \/ consumes
        counts == IF decides THEN ~Remembers ELSE work[r] = "record" IN
    /\ work[r] \in {"record", "shared"} /\ work' = [work EXCEPT ![r] = None]
    /\ seen' = TRUE
    /\ accepted' = IF counts THEN Passed ELSE accepted
    /\ UNCHANGED <<kind, now, consumes, stored, tickets>>

-----------------------------------------------------------------------------
(* Tickets the store holds.                                                *)

\* generateSecureToken gives a fresh ticket, of which the store keeps the hash and the expiry.
IssueSocketTicket ==
    /\ kind = "ticket" /\ ~stored /\ now < Expiry /\ issued < 2
    /\ stored' = TRUE /\ issued' = issued + 1
    /\ UNCHANGED <<kind, now, consumes, seen, work, accepted, spent>>

\* What the store hands out is gone before its expiry is looked at, so that an expired ticket
\* is spent by showing it.
TakenStill == stored                                  \* defect: the ticket is left in the store
Taken == FALSE
ConsumeTicket ==
    /\ kind = "ticket" /\ stored /\ stored' = Taken
    /\ IF Expiry <= now THEN UNCHANGED <<accepted, spent>>
       ELSE accepted' = Passed /\ spent' = spent + 1
    /\ UNCHANGED <<kind, now, consumes, seen, work, issued>>

Next ==
    \/ Tick \/ IssueSocketTicket \/ ConsumeTicket
    \/ \E r \in Request :
          \/ VerifyClientAssertion(r) \/ VerifyIdentityAssertion(r) \/ VerifyDpopProof(r)
          \/ AskUsed(r) \/ RecordIfFresh(r)

Spec == Init /\ [][Next]_vars

-----------------------------------------------------------------------------
(* Properties.                                                             *)

\* Once among the ticks from 0 to last.
AtMostOnce(last) ==
    \A t, u \in Time : /\ t <= last => accepted[t] <= 1
                       /\ t <= last /\ u <= last /\ accepted[t] = 1 /\ accepted[u] = 1 => t = u

\* Requests that present one proof together, at any point of its life, get it accepted once
\* while it is current for the store that remembers it; past its expiry the stores forget it,
\* although an identity assertion is honoured for the skew longer and a slow request may still
\* be on its way.  A DPoP proof without consumeJti passes once more for each request that asked
\* while another had asked and was not remembered, and for no other; those are not counted
\* (verifyClientAssertion, createAgentIdentityAssertionVerifier, verifyDpopProof).
ProofsPassOnce ==
    /\ kind \in {"client assertion", "dpop"} => AtMostOnce(Expiry)
    /\ kind = "identity assertion" => AtMostOnce(Expiry - 1)

\* A ticket is accepted once for each time one was issued, and never from its expiry on
\* (consumeSocketTicket).
TicketsPassOnce ==
    kind \in Stored => /\ spent <= issued
                       /\ \A t \in Expiry .. MaxNow : accepted[t] = 0

=============================================================================

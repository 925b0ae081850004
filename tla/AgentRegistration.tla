--------------------------- MODULE AgentRegistration ---------------------------
(***************************************************************************)
(* Registration of one agent: it registers anonymously, with the hint of a *)
(* user or with an identity assertion of its provider; a user claims it by *)
(* a code; the agent exchanges assertions and its claim token for access   *)
(* tokens; the registration is revoked.                                    *)
(*                                                                         *)
(* The store replaces a registration only under the version that was read, *)
(* so an update that reads and replaces is one step.  Claiming and         *)
(* revoking retire the agent's tokens between the two, issuing a token     *)
(* writes after the read, and activation writes the stores that resolve    *)
(* principals: these have steps of their own.  The bound on versions keeps *)
(* the conflicts below the five retries of the code.                       *)
(***************************************************************************)
EXTENDS Naturals

CONSTANTS
    Request,            \* slots for requests in flight together
    User,               \* users who may claim
    None,
    Kinds,              \* subset of {"anonymous", "service_auth", "identity_assertion"}
    MaxCodeAttempts,    \* maxCodeAttempts
    MaxVersion, MaxAttempt \* bounds on replacements and claim ceremonies

VARIABLES
    flow,           \* the identity registration, None before it exists
    nextAttempt,
    assertions,     \* versions for which the service signed an assertion
    tokens,         \* access tokens of the agent
    registered,     \* scopes of the agent's registration row, None without one
    delegations,    \* users with an active delegation
    work            \* requests between two steps

vars == <<flow, nextAttempt, assertions, tokens, registered, delegations, work>>
principals == <<registered, delegations>>

Owner == User \cup {None}
Attempt == [id : 1 .. MaxAttempt, attempts : 0 .. MaxCodeAttempts - 1, live : BOOLEAN]
Flow == [kind : Kinds, status : {"pending", "claimed", "revoked"}, version : 1 .. MaxVersion,
         attempt : Attempt \cup {None}, owner : Owner, polled : BOOLEAN, expired : BOOLEAN]
\* late: the request that saved the token was under way when the agent's tokens were retired.
Token == [scopes : {"pre", "post"}, owner : Owner, late : BOOLEAN]
Work == [pc : {"retire", "replace", "readback", "activate", "delegate", "issue"},
         version : 1 .. MaxVersion, attempt : 1 .. MaxAttempt \cup {None}, token : Token]

TypeOK ==
    /\ flow \in Flow \cup {None} /\ nextAttempt \in 1 .. MaxAttempt + 1
    /\ assertions \subseteq 1 .. MaxVersion /\ tokens \subseteq Token
    /\ registered \in {"pre", "post", None} /\ delegations \subseteq Owner
    /\ work \in [Request -> Work \cup {None}]

Init ==
    /\ flow = None /\ nextAttempt = 1 /\ assertions = {} /\ tokens = {}
    /\ registered = None /\ delegations = {} /\ work = [r \in Request |-> None]

At(r, pc) == work[r] # None /\ work[r].pc = pc
Ends(r) == work' = [work EXCEPT ![r] = None]
On(r, pc) == work' = [work EXCEPT ![r].pc = pc]
ScopesOf(f) == IF f.status = "claimed" THEN "post" ELSE "pre"
Reads(f, pc) ==
    [pc |-> pc, version |-> f.version, attempt |-> IF f.attempt = None THEN None ELSE f.attempt.id,
     token |-> [scopes |-> ScopesOf(f), owner |-> f.owner,
                late |-> \E q \in Request : At(q, "replace")]]

\* makeAttempt: a fresh attempt token and user code.
Ceremony(f) ==
    /\ nextAttempt <= MaxAttempt /\ nextAttempt' = nextAttempt + 1
    /\ flow' = [f EXCEPT !.attempt = [id |-> nextAttempt, attempts |-> 0, live |-> TRUE]]
Replaced(f) == [f EXCEPT !.version = @ + 1]
CanReplace == flow.version < MaxVersion

------------------------------------------------------------------------------
(* Registration *)

\* createFlow: a registration of its first version.
Created(kind, user) ==
    [kind |-> kind, status |-> IF user = None THEN "pending" ELSE "claimed", version |-> 1,
     attempt |-> None, owner |-> user, polled |-> FALSE, expired |-> FALSE]
StartsActive(r, created) ==
    /\ flow' = created /\ work' = [work EXCEPT ![r] = Reads(created, "activate")]
    /\ UNCHANGED nextAttempt

\* startAgentRegistration without a provider: an anonymous agent is activated at once, the
\* hint of a user opens a ceremony for that user.
Start(r, kind) ==
    /\ flow = None /\ work[r] = None
    /\ IF kind = "anonymous" THEN StartsActive(r, Created(kind, None))
       ELSE Ceremony(Created(kind, None)) /\ UNCHANGED work
    /\ UNCHANGED <<assertions, tokens, principals>>

\* startAgentRegistration with an assertion of the agent's provider, for a user it knows or
\* for one who has to confirm.
StartVerified(r, user) ==
    /\ flow = None /\ work[r] = None
    /\ IF user # None THEN StartsActive(r, Created("identity_assertion", user))
       ELSE Ceremony(Created("identity_assertion", None)) /\ UNCHANGED work
    /\ UNCHANGED <<assertions, tokens, principals>>

\* activateAgent saves the registration row and then, for a user, a delegation; a new
\* registration's assertion is signed last.
Signed(r) == assertions' = IF work[r].version = 1 THEN assertions \cup {1} ELSE assertions
Activate(r) ==
    LET t == work[r].token IN
    /\ At(r, "activate") /\ registered' = t.scopes
    /\ IF t.owner = None THEN Ends(r) /\ Signed(r) ELSE On(r, "delegate") /\ UNCHANGED assertions
    /\ UNCHANGED <<flow, nextAttempt, tokens, delegations>>

SaveDelegation(r) ==
    /\ At(r, "delegate") /\ Ends(r) /\ Signed(r)
    /\ delegations' = delegations \cup {work[r].token.owner}
    /\ UNCHANGED <<flow, nextAttempt, tokens, registered>>

\* A provider's assertion for a registration that is claimed already is answered with a
\* fresh assertion of the service; for any other one the insert conflicts.
Reassert ==
    /\ flow # None /\ flow.kind = "identity_assertion" /\ flow.status = "claimed"
    /\ assertions' = assertions \cup {flow.version}
    /\ UNCHANGED <<flow, nextAttempt, tokens, principals, work>>

------------------------------------------------------------------------------
(* The claim *)

\* beginAgentClaim replaces the ceremony, of a claimed registration, too.
BeginClaim ==
    /\ flow # None /\ ~flow.expired /\ flow.status # "revoked" /\ CanReplace
    /\ Ceremony(Replaced(flow))
    /\ UNCHANGED <<assertions, tokens, principals, work>>

OpenAttempt == flow # None /\ flow.attempt # None /\ ~flow.expired /\ flow.attempt.live

\* completeAgentClaim with a wrong code counts, and drops the ceremony at the limit.
WrongCode ==
    /\ OpenAttempt /\ CanReplace
    /\ flow' = IF flow.attempt.attempts + 1 >= MaxCodeAttempts
               THEN [Replaced(flow) EXCEPT !.attempt = None]
               ELSE [Replaced(flow) EXCEPT !.attempt.attempts = @ + 1]
    /\ UNCHANGED <<nextAttempt, assertions, tokens, principals, work>>

\* completeAgentClaim with the code of the ceremony.
CompleteClaim(r, user) ==
    /\ OpenAttempt /\ work[r] = None
    /\ work' = [work EXCEPT ![r] = [Reads(flow, "retire") EXCEPT !.token.owner = user,
                                                                 !.token.scopes = "post"]]
    /\ UNCHANGED <<flow, nextAttempt, assertions, tokens, principals>>

\* revokeAgentIdentityRegistration.
Revoke(r) ==
    /\ flow # None /\ flow.status # "revoked" /\ work[r] = None
    /\ work' = [work EXCEPT ![r] = [Reads(flow, "retire") EXCEPT !.attempt = None,
                                                                 !.token.owner = None]]
    /\ UNCHANGED <<flow, nextAttempt, assertions, tokens, principals>>
Revoking(r) == work[r].token.owner = None

\* revokeAccessTokens of the application, before the replacement; a claim calls it for an
\* anonymous agent.
RetiredNone(set) == set                                  \* defect: the tokens stay
Retired(set) == {}
Retire(r) ==
    /\ At(r, "retire")
    /\ tokens' = IF Revoking(r) \/ flow.kind = "anonymous" THEN Retired(tokens) ELSE tokens
    /\ work' = [q \in Request |->
                    IF q = r THEN [work[q] EXCEPT !.pc = "replace"]
                    ELSE IF At(q, "issue") THEN [work[q] EXCEPT !.token.late = TRUE]
                    ELSE work[q]]
    /\ UNCHANGED <<flow, nextAttempt, assertions, principals>>

SameVersion(r) == flow.version = work[r].version
\* The replacement succeeds under the version that was read; otherwise the request starts
\* over, a claim only while its ceremony is the current one.
Replace(r) ==
    LET w == work[r]
        retry == IF Revoking(r) THEN flow.status # "revoked"
                 ELSE OpenAttempt /\ flow.attempt.id = w.attempt
    IN
    /\ At(r, "replace")
    /\ IF SameVersion(r)
       THEN /\ CanReplace
            /\ flow' = [Replaced(flow) EXCEPT !.attempt = None, !.status =
                            IF Revoking(r) THEN "revoked" ELSE "claimed",
                            !.owner = IF Revoking(r) THEN @ ELSE w.token.owner]
            /\ IF Revoking(r) THEN Ends(r) ELSE On(r, "readback")
       ELSE /\ IF retry THEN work' = [work EXCEPT ![r].version = flow.version, ![r].pc = "retire"]
               ELSE Ends(r)
            /\ UNCHANGED flow
    /\ UNCHANGED <<nextAttempt, assertions, tokens, principals>>

\* The claim reads the registration back and activates what it finds, whatever its status.
ReadBack(r) ==
    /\ At(r, "readback")
    /\ work' = [work EXCEPT ![r].pc = "activate", ![r].version = flow.version,
                    ![r].token.owner = flow.owner]
    /\ UNCHANGED <<flow, nextAttempt, assertions, tokens, principals>>

------------------------------------------------------------------------------
(* Tokens *)

\* The claim grant while no user has claimed: the poll is recorded, under a new version.
PollPending ==
    /\ flow # None /\ ~flow.expired /\ flow.status # "claimed" /\ ~flow.polled
    /\ (flow.attempt # None => flow.attempt.live) /\ CanReplace
    /\ flow' = [Replaced(flow) EXCEPT !.polled = TRUE]
    /\ UNCHANGED <<nextAttempt, assertions, tokens, principals, work>>

\* The claim grant of a claimed registration: an assertion and an access token.
PollClaimed(r) ==
    /\ flow # None /\ ~flow.expired /\ flow.status = "claimed" /\ work[r] = None
    /\ assertions' = assertions \cup {flow.version}
    /\ work' = [work EXCEPT ![r] = Reads(flow, "issue")]
    /\ UNCHANGED <<flow, nextAttempt, tokens, principals>>

\* The assertion grant honours an assertion of the current version.
Exchange(r, v) ==
    /\ v \in assertions /\ flow.status # "revoked" /\ v = flow.version /\ work[r] = None
    /\ work' = [work EXCEPT ![r] = Reads(flow, "issue")]
    /\ UNCHANGED <<flow, nextAttempt, assertions, tokens, principals>>

\* issueAgentAccessToken saves a token with the scopes and the owner that were read.
Issue(r) ==
    /\ At(r, "issue") /\ Ends(r) /\ tokens' = tokens \cup {work[r].token}
    /\ UNCHANGED <<flow, nextAttempt, assertions, principals>>

\* A store or a callback throws between two steps.
Throws(r) ==
    /\ work[r] # None /\ Ends(r)
    /\ UNCHANGED <<flow, nextAttempt, assertions, tokens, principals>>

TimePasses ==
    /\ flow # None
    /\ \/ ~flow.expired /\ flow' = [flow EXCEPT !.expired = TRUE] /\ UNCHANGED <<assertions, tokens>>
       \/ OpenAttempt /\ flow' = [flow EXCEPT !.attempt.live = FALSE]
          /\ UNCHANGED <<assertions, tokens>>
       \/ flow.polled /\ flow' = [flow EXCEPT !.polled = FALSE] /\ UNCHANGED <<assertions, tokens>>
       \/ \E t \in tokens : tokens' = tokens \ {t} /\ UNCHANGED <<flow, assertions>>
       \/ \E v \in assertions : assertions' = assertions \ {v} /\ UNCHANGED <<flow, tokens>>
    /\ UNCHANGED <<nextAttempt, principals, work>>

\* createAgentRegistrationCredentialVerifier with an identity store.
Verified(t) == t \in tokens /\ flow.status # "revoked"
\* resolveAgentPrincipal: an active registration, and a delegation of the token's user.
Delegated(t) == t.owner # None => t.owner \in delegations
Honoured(t) == Verified(t) /\ registered # None /\ Delegated(t)

Next ==
    \/ Reassert \/ BeginClaim \/ WrongCode \/ PollPending \/ TimePasses
    \/ \E r \in Request :
        \/ Activate(r) \/ SaveDelegation(r) \/ Retire(r) \/ Replace(r) \/ ReadBack(r)
        \/ Issue(r) \/ Throws(r)
        \/ Revoke(r) \/ PollClaimed(r)
        \/ \E kind \in Kinds \ {"identity_assertion"} : Start(r, kind)
        \/ \E user \in Owner : "identity_assertion" \in Kinds /\ StartVerified(r, user)
        \/ \E user \in User : CompleteClaim(r, user)
        \/ \E v \in 1 .. MaxVersion : Exchange(r, v)

Spec == Init /\ [][Next]_vars

------------------------------------------------------------------------------
\* Once a user has claimed an anonymous agent, no token from before the claim is honoured,
\* except one whose request was under way when the claim retired the agent's tokens.
ClaimRetiresTokens ==
    \A t \in tokens :
        flow.kind = "anonymous" /\ flow.status = "claimed" /\ t.scopes = "pre" /\ Honoured(t)
            => t.late
===============================================================================

------------------------------ MODULE CodeGrant ------------------------------
(***************************************************************************)
(* The authorization code grant of the OIDC provider, from the pushed      *)
(* authorization request through /authorize with its login and consent     *)
(* detours to the exchange of the code for a refresh-token family, and the *)
(* operator's revocation of everything a client holds.                     *)
(*                                                                         *)
(* A flow is one user agent carrying one authorization request of one      *)
(* client; its request_uri, its code and its family are named after it.    *)
(* /authorize consumes a pushed request, then reads the session, asks      *)
(* needsConsent, and saves the code, with an await between each of these;  *)
(* the exchange awaits between consuming the code and saving the family;   *)
(* revocation awaits between the stores it sweeps.  Redirect URI, PKCE and *)
(* DPoP checks are one nondeterministic verdict on the proof.              *)
(***************************************************************************)
EXTENDS Naturals

CONSTANTS
    Flow, Client, User,
    FlowClient,     \* flow -> the client whose request it carries
    FlowUser,       \* flow -> the user at that user agent
    Pushes,         \* clients that push their requests (PAR)
    AsksConsent,    \* clients for which needsConsent is configured
    Exchange,       \* slots for token requests in flight together
    None,
    ParTtl,         \* pushedAuthorizationRequestTtlMs, in clock ticks
    CodeTtl,        \* CODE_TTL_MS, in clock ticks
    MaxTime,        \* bound of the clock
    MaxSignOuts,    \* bound on how often users sign out
    MaxCrashes      \* bound on how often the server dies

ASSUME CodeAssumption ==
    /\ FlowClient \in [Flow -> Client] /\ FlowUser \in [Flow -> User]
    /\ Pushes \subseteq Client /\ AsksConsent \subseteq Client
    /\ ParTtl \in Nat /\ CodeTtl \in Nat /\ MaxTime \in Nat
    /\ MaxSignOuts \in Nat /\ MaxCrashes \in Nat
    /\ None \notin Flow \cup Client

VARIABLES
    now,            \* Date.now()
    signedIn,       \* users with a live session
    signOuts,       \* how often users have signed out, bounded by MaxSignOuts
    crashes,        \* how often the server has died, bounded by MaxCrashes
    consented,      \* <<user, client>> recorded by the consent page
    pushed,         \* flow -> its record in the pushed request store
    browser,        \* flow -> where its user agent is
    codes,          \* flow -> its record in the authorization code store
    exchanges,      \* token requests between consumeCode and saveToken
    families,       \* flows that have a refresh-token family
    issued,         \* history: flow -> number of token sets issued for its code
    sweep,          \* the client revokeOAuthClientCredentials is halfway through
    swept           \* history: flows that were idle with a code when their client's
                    \* last revocation began

vars == <<now, signedIn, signOuts, crashes, consented, pushed, browser, codes, exchanges,
          families, issued, sweep, swept>>

Stored(expiry) == [status |-> "stored", expiresAt |-> expiry]
Gone == [status |-> "gone", expiresAt |-> 0]
Unused == [status |-> "unused", expiresAt |-> 0]
Record(ttl) == [status : {"unused", "stored", "gone"}, expiresAt : 0 .. MaxTime + ttl]

\* A user agent that waits for /authorize, and the pages it may be at.
Waiting == {"loading", "asking", "approved"}
Pages == Waiting \cup {"start", "login", "consent", "done", "error"}

TypeOK ==
    /\ now \in 0 .. MaxTime
    /\ signedIn \subseteq User /\ signOuts \in 0 .. MaxSignOuts /\ crashes \in 0 .. MaxCrashes
    /\ consented \subseteq User \X Client
    /\ pushed \in [Flow -> Record(ParTtl)] /\ codes \in [Flow -> Record(CodeTtl)]
    /\ browser \in [Flow -> Pages]
    /\ exchanges \in [Exchange -> Flow \cup {None}]
    /\ families \subseteq Flow /\ swept \subseteq Flow
    /\ issued \in [Flow -> Nat]
    /\ sweep \in Client \cup {None}

Init ==
    /\ now = 0
    /\ signedIn \in SUBSET User
    /\ signOuts = 0 /\ crashes = 0
    /\ consented = {}
    /\ pushed = [f \in Flow |-> Unused]
    /\ browser = [f \in Flow |-> "start"]
    /\ codes = [f \in Flow |-> Unused]
    /\ exchanges = [x \in Exchange |-> None]
    /\ families = {}
    /\ issued = [f \in Flow |-> 0]
    /\ sweep = None
    /\ swept = {}

InFlight(f) == \E x \in Exchange : exchanges[x] = f

------------------------------------------------------------------------------
(* The user and the application's own pages.                               *)

userVars == <<signedIn, signOuts, crashes, consented>>
grantVars == <<codes, exchanges, families, issued, sweep, swept>>

SignIn(u) ==
    /\ u \notin signedIn
    /\ signedIn' = signedIn \cup {u}
    /\ UNCHANGED <<now, signOuts, crashes, consented, pushed, browser, grantVars>>

SignOut(u) ==
    /\ u \in signedIn /\ signOuts < MaxSignOuts
    /\ signedIn' = signedIn \ {u}
    /\ signOuts' = signOuts + 1
    /\ UNCHANGED <<now, crashes, consented, pushed, browser, grantVars>>

\* "your page records the grant (so needsConsent flips false)"
GiveConsent(f) ==
    /\ browser[f] = "consent"
    /\ consented' = consented \cup {<<FlowUser[f], FlowClient[f]>>}
    /\ UNCHANGED <<now, signedIn, signOuts, crashes, pushed, browser, grantVars>>

------------------------------------------------------------------------------
(* The authorization endpoint.                                             *)

\* pushAuthorizationRequest
Push(f) ==
    /\ FlowClient[f] \in Pushes /\ pushed[f] = Unused /\ browser[f] = "start"
    /\ pushed' = [pushed EXCEPT ![f] = Stored(now + ParTtl)]
    /\ UNCHANGED <<now, browser, userVars, grantVars>>

AlwaysNeedsConsent(f) == FlowClient[f] \in AsksConsent  \* defect: grant not seen
NeedsConsent(f) ==
    FlowClient[f] \in AsksConsent /\ <<FlowUser[f], FlowClient[f]>> \notin consented

\* GET /authorize of the flow's client; a request_uri is consumed first, whatever becomes
\* of the request afterwards.  return_to brings the user agent back to this same URL, and
\* so does the back button; a second code of a flow without request_uri would be another
\* flow's.
Ready(f) ==
    \/ browser[f] = "start" /\ (FlowClient[f] \in Pushes => pushed[f] # Unused)
    \/ browser[f] = "login" /\ FlowUser[f] \in signedIn
    \/ browser[f] = "consent" /\ ~NeedsConsent(f)
    \/ browser[f] = "done" /\ FlowClient[f] \in Pushes

ReadableReplayed(f) ==                                  \* defect: consumed too late
    pushed[f].status # "stored" \/ ~(pushed[f].expiresAt < now)
Readable(f) == pushed[f].status = "stored" /\ ~(pushed[f].expiresAt < now)

Authorize(f) ==
    /\ Ready(f)
    /\ IF FlowClient[f] \in Pushes
       THEN /\ browser' = [browser EXCEPT ![f] = IF Readable(f) THEN "loading" ELSE "error"]
            /\ pushed' = [pushed EXCEPT ![f] = Gone]
       ELSE browser' = [browser EXCEPT ![f] = "loading"] /\ UNCHANGED pushed
    /\ UNCHANGED <<now, userVars, grantVars>>

\* The session is read next, and its user is the one needsConsent is asked about and the code
\* is for, whatever becomes of the session meanwhile.
LoadSession(f) ==
    /\ browser[f] = "loading"
    /\ browser' = [browser EXCEPT ![f] = IF FlowUser[f] \in signedIn THEN "asking" ELSE "login"]
    /\ UNCHANGED <<now, userVars, pushed, grantVars>>

ConsentUnasked(f) == "approved"                         \* defect: consent not asked
AfterConsent(f) == IF NeedsConsent(f) THEN "consent" ELSE "approved"
AskConsent(f) ==
    /\ browser[f] = "asking"
    /\ browser' = [browser EXCEPT ![f] = AfterConsent(f)]
    /\ UNCHANGED <<now, userVars, pushed, grantVars>>

CodeExpiryInSeconds == (now + CodeTtl) * 1000           \* defect: units mixed
CodeExpiry == now + CodeTtl

\* saveCode, after onAuthorizationCodeApproved; the redirect hands the code over.
SaveCode(f) ==
    /\ browser[f] = "approved"
    /\ browser' = [browser EXCEPT ![f] = "done"]
    /\ codes' = [codes EXCEPT ![f] = Stored(CodeExpiry)]
    /\ UNCHANGED <<now, userVars, pushed, exchanges, families, issued, sweep, swept>>

------------------------------------------------------------------------------
(* The token endpoint.                                                     *)

exchangeVars == <<exchanges, families, issued>>

Accepts(f, c, proven) ==
    ~(codes[f].expiresAt < now) /\ c = FlowClient[f] /\ proven

\* consumeCode deletes and returns the code in one statement.
KeptCode(f) == codes                                    \* defect: read, not consumed
ConsumedCode(f) == [codes EXCEPT ![f] = Gone]

\* grantAuthorizationCode: whoever presents the code consumes it; only then is it
\* checked against the client, the redirect URI and the proofs.
ConsumeCode(x, f, c, proven) ==
    /\ exchanges[x] = None
    /\ codes[f].status = "stored"
    /\ codes' = ConsumedCode(f)
    /\ exchanges' = [exchanges EXCEPT ![x] = IF Accepts(f, c, proven) THEN f ELSE None]
    /\ UNCHANGED <<now, userVars, pushed, browser, families, issued, sweep, swept>>

\* issueTokenSet and saveToken
SaveFamily(x) ==
    LET f == exchanges[x] IN
    /\ f # None
    /\ families' = families \cup {f}
    /\ issued' = [issued EXCEPT ![f] = @ + 1]
    /\ exchanges' = [exchanges EXCEPT ![x] = None]
    /\ UNCHANGED <<now, userVars, pushed, browser, codes, sweep, swept>>

------------------------------------------------------------------------------
(* Revocation.                                                             *)

Of(c) == {f \in Flow : FlowClient[f] = c}

DeleteCodes(fs) ==
    codes' = [f \in Flow |-> IF f \in fs /\ codes[f].status = "stored"
                             THEN Gone ELSE codes[f]]

\* revokeOAuthClientCredentials deletes codes first and refresh tokens later.
FamiliesThenCodes(n) == IF n = 1 THEN "families" ELSE "codes"   \* defect: swapped
StoreSwept(n) == IF n = 1 THEN "codes" ELSE "families"

DeleteStore(store, c) ==
    IF store = "codes" THEN DeleteCodes(Of(c)) /\ UNCHANGED families
                       ELSE families' = families \ Of(c) /\ UNCHANGED codes

BeginSweep(c) ==
    /\ sweep = None
    /\ DeleteStore(StoreSwept(1), c)
    /\ sweep' = c
    /\ swept' = (swept \ Of(c)) \cup
           {f \in Of(c) : codes[f] # Unused /\ ~InFlight(f)}
    /\ UNCHANGED <<now, userVars, pushed, browser, exchanges, issued>>

EndSweep ==
    /\ sweep # None
    /\ DeleteStore(StoreSwept(2), sweep)
    /\ sweep' = None
    /\ UNCHANGED <<now, userVars, pushed, browser, exchanges, issued, swept>>

\* The codes of one user for one client (deleteForUserClient).
DeleteForUserClient(u, c) ==
    /\ DeleteCodes({f \in Of(c) : FlowUser[f] = u})
    /\ UNCHANGED <<now, userVars, pushed, browser, exchangeVars, sweep, swept>>

\* The process dies between two store calls: token requests and a revocation end
\* halfway, and a user agent that waits for /authorize never gets its redirect.
Crash ==
    /\ crashes < MaxCrashes
    /\ crashes' = crashes + 1
    /\ browser' = [f \in Flow |-> IF browser[f] \in Waiting THEN "error" ELSE browser[f]]
    /\ exchanges' = [x \in Exchange |-> None]
    /\ sweep' = None
    /\ swept' = {f \in swept : FlowClient[f] # sweep}
    /\ UNCHANGED <<now, signedIn, signOuts, consented, pushed, codes, families, issued>>

Tick ==
    /\ now < MaxTime
    /\ now' = now + 1
    /\ UNCHANGED <<userVars, pushed, browser, grantVars>>

------------------------------------------------------------------------------
Visit ==
    \/ \E u \in User : SignIn(u) \/ SignOut(u)
    \/ \E f \in Flow : \/ GiveConsent(f) \/ Push(f)
                        \/ Authorize(f) \/ LoadSession(f) \/ AskConsent(f) \/ SaveCode(f)

Redeem ==
    \/ \E x \in Exchange, f \in Flow, c \in Client, proven \in BOOLEAN :
            ConsumeCode(x, f, c, proven)
    \/ \E x \in Exchange : SaveFamily(x)

Revoke ==
    \/ \E c \in Client : BeginSweep(c)
    \/ EndSweep
    \/ \E u \in User, c \in Client : DeleteForUserClient(u, c)

Next == Visit \/ Redeem \/ Revoke \/ Crash \/ Tick

Spec == Init /\ [][Next]_vars

\* The server answers, and the user agrees to everything she is asked.
Cooperation ==
    /\ \A u \in User : WF_vars(SignIn(u))
    /\ \A f \in Flow : /\ WF_vars(GiveConsent(f)) /\ WF_vars(Push(f))
                       /\ WF_vars(Authorize(f)) /\ WF_vars(LoadSession(f))
                       /\ WF_vars(AskConsent(f)) /\ WF_vars(SaveCode(f))

FairSpec == Spec /\ Cooperation

------------------------------------------------------------------------------
\* A code, however many requests present it, is exchanged at most once ("codes are
\* single-use"), and a family exists only for a code that was.
CodeSingleUse == \A f \in Flow : issued[f] <= 1 /\ (f \in families => issued[f] = 1)

\* No code is issued to a client the user was to be asked about and has not agreed to.
NoCodeWithoutConsent ==
    \A f \in Flow : browser[f] \in {"approved", "done"} /\ FlowClient[f] \in AsksConsent =>
        <<FlowUser[f], FlowClient[f]>> \in consented

\* A pushed request is answered with at most one code: once it has been read, no
\* later visit of the same URL gets past the endpoint.
RequestUriSingleUse ==
    [][\A f \in Flow :
          FlowClient[f] \in Pushes /\ pushed[f] = Gone /\ browser[f] \notin Waiting =>
              browser'[f] \in {browser[f], "error"}]_vars

\* Whatever a client redeems passes once: an authorization code, however many exchanges
\* present it, and a request_uri, however often its URL is visited; and the records
\* keep their types.
CodesAndUrisPassOnce == [](TypeOK /\ CodeSingleUse) /\ RequestUriSingleUse

\* After the operator's revocation, what a client had obtained before it began is
\* gone for good; only an exchange that was already in flight then can escape.
OnlyInFlightEscapes ==
    sweep = None => \A f \in swept :
        codes[f].status = "gone" /\ f \notin families /\ ~InFlight(f)

\* /authorize "redirects to consentUrl ... and sends the browser back to return_to":
\* a request whose user agrees to everything ends with a code.
AgreeingUserGetsCode == \A f \in Flow : (browser[f] = "consent") ~> (browser[f] = "done")

\* The same where it can hold: of clients that do not push their requests, unless the
\* server dies over the request.
UnpushedConsentGetsCode ==
    \A f \in {g \in Flow : FlowClient[g] \notin Pushes} :
        (browser[f] = "consent") ~> (browser[f] = "done" \/ crashes > 0)
==============================================================================

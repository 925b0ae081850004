-------------------------------- MODULE ApiKeys --------------------------------
(***************************************************************************)
(* Machine credentials (apikeys/config.ts, apikeys/routes.ts and their     *)
(* stores): a static API key, and a client that exchanges its secret for   *)
(* short-lived access tokens.  A deleted client's tokens are not deleted:  *)
(* they end by their expiry alone.  The clock of a request is read once,   *)
(* where the request begins.                                               *)
(***************************************************************************)
EXTENDS Naturals, FiniteSets

CONSTANTS
    Request,        \* slots for requests in flight together
    Ttl,            \* lifetime of an access token
    KeyLife,        \* expiry of a key that has one
    MaxToken,       \* bound on tokens in the store
    MaxNow,         \* bound on the clock
    None

VARIABLES
    store,          \* where the credentials are kept
    now,
    client,         \* the client is in its store
    key,            \* the key's row, or None
    tokens,         \* access tokens in the store
    work,           \* requests between two steps
    clientDeleted,  \* history: when the client was deleted
    keyDeleted,     \* history: the key was deleted
    accepted,       \* history: the latest request whose token was accepted
    revived         \* history: a key presented after its deletion was accepted

vars == <<store, now, client, key, tokens, work, clientDeleted, keyDeleted, accepted, revived>>

Token == [expires : Nat]
Key == [expires : {0, KeyLife}, used : Nat]        \* 0: never

TypeOK ==
    /\ store \in {"memory", "postgres"} /\ now \in 0..MaxNow
    /\ client \in BOOLEAN /\ key \in Key \cup {None}
    /\ tokens \in SUBSET Token
    /\ \A r \in Request :
           work[r] # None => work[r].pc \in {"exchange", "mint", "token", "key", "touch"}
    /\ clientDeleted \in 0..MaxNow \cup {None} /\ keyDeleted \in BOOLEAN
    /\ accepted \in 0..MaxNow \cup {None} /\ revived \in BOOLEAN

Init ==
    /\ store \in {"memory", "postgres"} /\ now = 0
    /\ client = FALSE /\ key = None /\ tokens = {}
    /\ work = [r \in Request |-> None]
    /\ clientDeleted = None /\ keyDeleted = FALSE /\ accepted = None /\ revived = FALSE

-----------------------------------------------------------------------------
(* Registering, deleting, sweeping.                                        *)

\* createApiClient: the id is fresh, so a deleted client never returns.
CreateClient ==
    /\ ~client /\ clientDeleted = None
    /\ client' = TRUE
    /\ UNCHANGED <<store, now, key, tokens, work, clientDeleted, keyDeleted, accepted, revived>>

\* createApiKey.
CreateKey ==
    /\ key = None /\ ~keyDeleted
    /\ \E e \in {0, KeyLife} : key' = [expires |-> e, used |-> 0]
    /\ UNCHANGED <<store, now, client, tokens, work, clientDeleted, keyDeleted, accepted, revived>>

DeleteClient ==
    /\ client /\ client' = FALSE /\ clientDeleted' = now
    /\ UNCHANGED <<store, now, key, tokens, work, keyDeleted, accepted, revived>>

DeleteKey ==
    /\ key # None /\ key' = None /\ keyDeleted' = TRUE
    /\ UNCHANGED <<store, now, client, tokens, work, clientDeleted, accepted, revived>>

DeleteToken ==
    /\ \E t \in tokens : tokens' = tokens \ {t}
    /\ UNCHANGED <<store, now, client, key, work, clientDeleted, keyDeleted, accepted, revived>>

\* deleteExpired: in memory a token is swept at its expiry, in Postgres after it.
Swept(t) == IF store = "memory" THEN t.expires <= now ELSE t.expires < now

DeleteExpired ==
    /\ \E t \in tokens : Swept(t)
    /\ tokens' = {t \in tokens : ~Swept(t)}
    /\ UNCHANGED <<store, now, client, key, work, clientDeleted, keyDeleted, accepted, revived>>

Tick ==
    /\ now < MaxNow /\ now' = now + 1
    /\ UNCHANGED <<store, client, key, tokens, work, clientDeleted, keyDeleted, accepted, revived>>

-----------------------------------------------------------------------------
(* The token endpoint.                                                     *)

\* The handler has a client id and a secret; a request without them, or for another grant, is
\* refused before anything is read.
Exchange(r) ==
    /\ work[r] = None /\ (client \/ clientDeleted # None)
    /\ work' = [work EXCEPT ![r] = [pc |-> "exchange", at |-> now]]
    /\ UNCHANGED <<store, now, client, key, tokens, clientDeleted, keyDeleted, accepted, revived>>

\* exchangeClientCredentials: the client is read and its secret compared, and it has every scope
\* asked for.
FindClient(r) ==
    /\ work[r] # None /\ work[r].pc = "exchange"
    /\ \/ client /\ work' = [work EXCEPT ![r].pc = "mint"]
       \/ work' = [work EXCEPT ![r] = None]
    /\ UNCHANGED <<store, now, client, key, tokens, clientDeleted, keyDeleted, accepted, revived>>

\* The token's lifetime counts from the beginning of the exchange.
ExpiryLate(at) == now + Ttl                                     \* defect: from where it is saved
Expiry(at) == at + Ttl

MintToken(r) ==
    /\ work[r] # None /\ work[r].pc = "mint"
    /\ LET token == [expires |-> Expiry(work[r].at)]
       IN  /\ Cardinality(tokens \cup {token}) <= MaxToken
           /\ tokens' = tokens \cup {token}
    /\ work' = [work EXCEPT ![r] = None]
    /\ UNCHANGED <<store, now, client, key, clientDeleted, keyDeleted, accepted, revived>>

-----------------------------------------------------------------------------
(* Presenting a credential.                                                *)

\* resolveApiPrincipal: by its prefix, a token or the key (`after`: deleted before).
PresentToken(r) ==
    /\ work[r] = None /\ tokens # {}
    /\ \E t \in tokens : work' = [work EXCEPT ![r] = [pc |-> "token", at |-> now, token |-> t]]
    /\ UNCHANGED <<store, now, client, key, tokens, clientDeleted, keyDeleted, accepted, revived>>

PresentKey(r) ==
    /\ work[r] = None /\ (key # None \/ keyDeleted)
    /\ work' = [work EXCEPT ![r] = [pc |-> "key", at |-> now, after |-> keyDeleted]]
    /\ UNCHANGED <<store, now, client, key, tokens, clientDeleted, keyDeleted, accepted, revived>>

\* verifyAccessToken.
VerifyAccessToken(r) ==
    /\ work[r] # None /\ work[r].pc = "token"
    /\ LET t == work[r].token
       IN  accepted' = IF t \in tokens /\ t.expires > work[r].at
                          /\ (accepted # None => accepted < work[r].at)
                       THEN work[r].at ELSE accepted
    /\ work' = [work EXCEPT ![r] = None]
    /\ UNCHANGED <<store, now, client, key, tokens, clientDeleted, keyDeleted, revived>>

\* verifyApiKey: the row is read, then touched, and the row read is the answer.
FindKey(r) ==
    /\ work[r] # None /\ work[r].pc = "key"
    /\ IF key # None /\ (key.expires # 0 => key.expires > work[r].at)
       THEN work' = [work EXCEPT ![r] = [pc |-> "touch", at |-> work[r].at,
                                         after |-> work[r].after, row |-> key]]
       ELSE work' = [work EXCEPT ![r] = None]
    /\ UNCHANGED <<store, now, client, key, tokens, clientDeleted, keyDeleted, accepted, revived>>

\* touchKey changes the row that is stored.
TouchedRead(row, at) == [row EXCEPT !.used = at]                \* defect: saves the row read
Touched(row, at) == IF key = None THEN None ELSE [key EXCEPT !.used = at]

TouchKey(r) ==
    /\ work[r] # None /\ work[r].pc = "touch"
    /\ key' = Touched(work[r].row, work[r].at)
    /\ revived' = (revived \/ work[r].after)
    /\ work' = [work EXCEPT ![r] = None]
    /\ UNCHANGED <<store, now, client, tokens, clientDeleted, keyDeleted, accepted>>

Next ==
    \/ CreateClient \/ CreateKey \/ DeleteClient \/ DeleteKey \/ DeleteToken
    \/ DeleteExpired \/ Tick
    \/ \E r \in Request :
           \/ Exchange(r) \/ FindClient(r) \/ MintToken(r)
           \/ PresentToken(r) \/ PresentKey(r)
           \/ VerifyAccessToken(r) \/ FindKey(r) \/ TouchKey(r)

Spec == Init /\ [][Next]_vars

-----------------------------------------------------------------------------
(* Deleting a client does not delete its tokens, and an exchange under way *)
(* still mints one; yet no token is accepted of a request that begins a    *)
(* token's lifetime after the deletion.  A key presented after its         *)
(* deletion is refused: a verification that read it before does not bring  *)
(* it back.                                                                *)
DeletedStaysOut ==
    /\ ~revived
    /\ (clientDeleted # None /\ accepted # None) => accepted < clientDeleted + Ttl
=============================================================================

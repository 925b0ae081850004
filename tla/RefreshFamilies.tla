--------------------------- MODULE RefreshFamilies ---------------------------
(***************************************************************************)
(* The OIDC provider's refresh-token families: the refresh-token store     *)
(* (inMemoryStores.ts, postgresStores.ts), the refresh_token grant of the  *)
(* token endpoint (routes.ts, grantRefreshToken) and every call that ends  *)
(* a family.                                                               *)
(*                                                                         *)
(* One store call is one atomic action: a single SQL statement in          *)
(* Postgres, a synchronous Map update in memory.  Between two store calls  *)
(* of one request the server awaits, and every other action may happen.    *)
(* Scopes, claims, acr and audience travel with the family unchanged and   *)
(* are left out; a token stands for its hash.                              *)
(***************************************************************************)
EXTENDS Naturals

CONSTANTS
    Token,      \* opaque refresh tokens; each is generated at most once
    Family,     \* family identifiers (crypto.randomUUID)
    Client,     \* registered OAuth clients
    User,       \* subjects
    Key,        \* DPoP key thumbprints, and Unbound for a plain bearer token
    Unbound,
    Request,    \* slots for token requests that are in flight together
    None,       \* "undefined"
    Ttl,        \* refreshTokenTtlMs, in clock ticks
    MaxTime,    \* bound of the clock
    Postgres    \* TRUE: the Postgres store; FALSE: the in-memory store

ASSUME ConstantsAssumption ==
    /\ Unbound \in Key
    /\ None \notin Token \cup Family \cup Client \cup User \cup Key
    /\ Ttl \in Nat /\ MaxTime \in Nat
    /\ Postgres \in BOOLEAN

VARIABLES
    now,        \* Date.now()
    families,   \* the store: family id -> row
    requests,   \* token requests between two store calls
    mintedFor,  \* history: the family each generated token was stored for
    rotations,  \* history: the granted replacements <<consumed, replacement>>
    reused      \* history: families in which the server was shown a consumed token

vars == <<now, families, requests, mintedFor, rotations, reused>>

Time == 0 .. (MaxTime + Ttl)

Row == [state : {"absent", "active", "revoked"}, token : Token \cup {None},
        consumed : SUBSET Token, client : Client \cup {None},
        user : User \cup {None}, key : Key \cup {None}, expiresAt : Time]

NoRow == [state |-> "absent", token |-> None, consumed |-> {},
          client |-> None, user |-> None, key |-> None, expiresAt |-> 0]

Idle == [pc |-> "idle", token |-> None, client |-> None, key |-> None,
         family |-> None, at |-> 0]

Pending == {Idle} \cup
    [pc : {"lookup", "reuse", "rotate"}, token : Token, client : Client,
     key : Key, family : Family \cup {None}, at : 0 .. MaxTime]

TypeOK ==
    /\ now \in 0 .. MaxTime
    /\ families \in [Family -> Row]
    /\ requests \in [Request -> Pending]
    /\ mintedFor \in [Token -> Family \cup {None}]
    /\ rotations \subseteq Token \X Token
    /\ reused \subseteq Family

------------------------------------------------------------------------------
(* What the store answers.                                                 *)

Active(f) == families[f].state = "active"

\* activeForHash, getToken
HoldsActiveOrRevoked(f, t) == families[f].token = t     \* defect: revoked ignored
HoldsActive(f, t) == Active(f) /\ families[f].token = t

\* familyForConsumedHash; a revoked family is found too
HoldsConsumed(f, t) == t \in families[f].consumed

Fresh(t) == mintedFor[t] = None
Unused(f) == \A t \in Token : mintedFor[t] # f

Init ==
    /\ now = 0
    /\ families = [f \in Family |-> NoRow]
    /\ requests = [r \in Request |-> Idle]
    /\ mintedFor = [t \in Token |-> None]
    /\ rotations = {}
    /\ reused = {}

------------------------------------------------------------------------------
(* Issuing and rotating.                                                   *)

\* issueTokenSet without persistRefreshToken: a first grant stores a new family.
OpenFamily(f, t, c, u, k) ==
    /\ Unused(f)
    /\ Fresh(t)
    /\ families' = [families EXCEPT ![f] =
            [state |-> "active", token |-> t, consumed |-> {}, client |-> c,
             user |-> u, key |-> k, expiresAt |-> now + Ttl]]
    /\ mintedFor' = [mintedFor EXCEPT ![t] = f]
    /\ UNCHANGED <<now, requests, rotations, reused>>

\* POST /token, grant_type=refresh_token, from an authenticated client c whose
\* DPoP proof, if any, has thumbprint k.
PresentToken(r, t, c, k) ==
    /\ requests[r].pc = "idle"
    /\ ~Fresh(t)
    /\ requests' = [requests EXCEPT ![r] =
            [pc |-> "lookup", token |-> t, client |-> c, key |-> k,
             family |-> None, at |-> 0]]
    /\ UNCHANGED <<now, families, mintedFor, rotations, reused>>

\* The checks between getToken and issueTokenSet; verifying the DPoP proof is local
\* computation and takes no time here.
AcceptableFromAnyClient(row, request) ==                \* defect: client unchecked
    /\ ~(row.expiresAt < now)
    /\ row.key # Unbound => row.key = request.key
Acceptable(row, request) ==
    /\ ~(row.expiresAt < now)
    /\ row.client = request.client
    /\ row.key # Unbound => row.key = request.key

LookupToken(r) ==
    /\ requests[r].pc = "lookup"
    /\ \/ \E f \in Family :
            /\ HoldsActive(f, requests[r].token)
            /\ requests' = [requests EXCEPT ![r] =
                    IF Acceptable(families[f], @)
                    THEN [@ EXCEPT !.pc = "rotate", !.family = f, !.at = now]
                    ELSE Idle]
       \/ /\ \A f \in Family : ~HoldsActive(f, requests[r].token)
          /\ requests' = [requests EXCEPT ![r].pc = "reuse"]
    /\ UNCHANGED <<now, families, mintedFor, rotations, reused>>

\* Every family that remembers t as consumed is revoked.
ReuseIgnored(t) == families                             \* defect: reuse only refused
RevokedByReuse(t) ==
    [f \in Family |-> IF HoldsConsumed(f, t)
                      THEN [families[f] EXCEPT !.state = "revoked"]
                      ELSE families[f]]

SeenReuse(t) == reused \cup {f \in Family : HoldsConsumed(f, t)}

\* revokeByConsumedToken, then invalid_grant.
RevokeByConsumedToken(r) ==
    /\ requests[r].pc = "reuse"
    /\ families' = RevokedByReuse(requests[r].token)
    /\ reused' = SeenReuse(requests[r].token)
    /\ requests' = [requests EXCEPT ![r] = Idle]
    /\ UNCHANGED <<now, mintedFor, rotations>>

\* Whether the store may still exchange the token request r presented.
ExchangeableAsRead(r, f) ==                             \* defect: trusts the row read
    Active(f) /\ requests[r].family = f
Exchangeable(r, f) == HoldsActive(f, requests[r].token)

\* The row after the exchange; expiresAt was computed before the store call.
ExchangedForgetful(row, request, t) ==                  \* defect: consumed not kept
    [row EXCEPT !.token = t, !.expiresAt = request.at + Ttl]
ExchangedExtending(row, request, t) ==                  \* defect: extends the old expiry
    [row EXCEPT !.consumed = @ \cup {request.token}, !.token = t, !.expiresAt = @ + Ttl]
Exchanged(row, request, t) ==
    [row EXCEPT !.consumed = @ \cup {request.token}, !.token = t,
                !.expiresAt = request.at + Ttl]

\* rotateToken, called back from issueTokenSet through persistRefreshToken: the
\* active token is exchanged for t, or the token has been consumed meanwhile and
\* its family is revoked, or the family is gone.
RotateToken(r, t) ==
    LET presented == requests[r].token IN
    /\ requests[r].pc = "rotate"
    /\ Fresh(t)
    /\ \/ \E f \in Family :
            /\ Exchangeable(r, f)
            /\ families' = [families EXCEPT ![f] = Exchanged(@, requests[r], t)]
            /\ mintedFor' = [mintedFor EXCEPT ![t] = requests[r].family]
            /\ rotations' = rotations \cup {<<presented, t>>}
            /\ UNCHANGED reused
       \/ /\ \A f \in Family : ~Exchangeable(r, f)
          /\ families' = RevokedByReuse(presented)
          /\ reused' = SeenReuse(presented)
          /\ UNCHANGED <<mintedFor, rotations>>
    /\ requests' = [requests EXCEPT ![r] = Idle]
    /\ UNCHANGED now

------------------------------------------------------------------------------
(* Ending families.                                                        *)

\* Deletes the rows of the families in fs.
Delete(fs) ==
    /\ families' = [f \in Family |-> IF f \in fs THEN NoRow ELSE families[f]]
    /\ UNCHANGED <<now, requests, mintedFor, rotations, reused>>

\* POST /revoke (revokeRefreshToken, consumeToken): any member of the family ends
\* it.  The in-memory store skips the last token of a family already revoked.
RevokeToken(t) ==
    /\ ~Fresh(t)
    /\ Delete({f \in Family :
                 \/ HoldsActive(f, t)
                 \/ HoldsConsumed(f, t)
                 \/ Postgres /\ families[f].token = t})

\* revokeFamily: one device or app grant of the user.
RevokeFamily(u, f) == Delete({g \in {f} : families[g].user = u})

\* deleteForUser, deleteForUserClient, deleteForClient
DeleteForUser(u) == Delete({f \in Family : families[f].user = u})
DeleteForUserClient(u, c) ==
    Delete({f \in Family : families[f].user = u /\ families[f].client = c})
DeleteForClient(c) == Delete({f \in Family : families[f].client = c})

\* The server process dies: its requests end unanswered, and the in-memory store
\* ends with it.
Crash ==
    /\ requests' = [r \in Request |-> Idle]
    /\ families' = IF Postgres THEN families ELSE [f \in Family |-> NoRow]
    /\ UNCHANGED <<now, mintedFor, rotations, reused>>

Tick ==
    /\ now < MaxTime
    /\ now' = now + 1
    /\ UNCHANGED <<families, requests, mintedFor, rotations, reused>>

------------------------------------------------------------------------------
Grant ==
    \/ \E f \in Family, t \in Token, c \in Client, u \in User, k \in Key :
            OpenFamily(f, t, c, u, k)
    \/ \E r \in Request, t \in Token, c \in Client, k \in Key :
            PresentToken(r, t, c, k)
    \/ \E r \in Request : LookupToken(r) \/ RevokeByConsumedToken(r)
    \/ \E r \in Request, t \in Token : RotateToken(r, t)

Revocation ==
    \/ \E t \in Token : RevokeToken(t)
    \/ \E u \in User, f \in Family : RevokeFamily(u, f)
    \/ \E u \in User : DeleteForUser(u)
    \/ \E u \in User, c \in Client : DeleteForUserClient(u, c)
    \/ \E c \in Client : DeleteForClient(c)

Next == Grant \/ Revocation \/ Crash \/ Tick

Spec == Init /\ [][Next]_vars

------------------------------------------------------------------------------
(* Correctness.                                                            *)

\* While a family is stored it remembers every token ever handed out for it: one
\* is current and all others are consumed.  Without it a replayed token of the
\* family would look unknown instead of reused (rotateToken, familyForConsumedHash).
RemembersEveryToken ==
    \A f \in Family : families[f].state # "absent" =>
        /\ families[f].token \notin families[f].consumed
        /\ families[f].consumed \cup {families[f].token} =
               {t \in Token : mintedFor[t] = f}

\* However many requests present a token together, it is exchanged at most once
\* (the atomic rotateToken behind the non-atomic grantRefreshToken).
RotatedAtMostOnce ==
    \A p, q \in rotations : p[1] = q[1] => p = q

\* Once the server has been shown a consumed token, no token of that family is
\* accepted any more, its latest one included ("revoke on detected reuse").
ReuseEndsFamily == \A f \in reused : ~Active(f)

\* A request that passed the checks of grantRefreshToken on the row it read can
\* only replace a token of that same family, held by the same client and DPoP
\* key, and only if it was checked before the row expired, whatever happened to
\* the row in between.
StaleRowStillHolds ==
    \A r \in Request, f \in Family :
        requests[r].pc = "rotate" /\ HoldsActive(f, requests[r].token) =>
            /\ requests[r].family = f
            /\ families[f].client = requests[r].client
            /\ families[f].key # Unbound => families[f].key = requests[r].key
            /\ requests[r].at <= families[f].expiresAt

\* A slow request that computed its expiry before an await never shortens the
\* life of a family that another request has extended meanwhile.
ExpiryNeverShrinks ==
    [][\A f \in Family : Active(f) /\ Active(f)' =>
            families'[f].expiresAt >= families[f].expiresAt]_vars

\* The store and the grant together keep the promise of GrantLineage.
Phase == [f \in Family |-> IF Unused(f) THEN "unborn"
                           ELSE IF Active(f) THEN "live" ELSE "ended"]
Head == [f \in Family |-> IF Active(f) THEN families[f].token ELSE None]
Spent == {t \in Token : ~Fresh(t)}

Lineage == INSTANCE GrantLineage WITH phase <- Phase, head <- Head, spent <- Spent

\* A family starts once, has one current token at a time, never takes back a token
\* and never resumes after revocation, deletion or detected reuse.
KeepsLineage == Lineage!LineageSpec
==============================================================================

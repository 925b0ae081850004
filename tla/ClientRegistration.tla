-------------------------- MODULE ClientRegistration --------------------------
(***************************************************************************)
(* Dynamic client registration and its management protocol                 *)
(* (oidc/registration.ts), and the operator's revocation of everything a   *)
(* client holds (oidc/operator.ts).                                        *)
(*                                                                         *)
(* A client registers, with an initial access token where the provider     *)
(* asks for one, and manages its record with a registration token that     *)
(* every update replaces.  Each store call is an await, so that updates,   *)
(* deletions and revocations of one client overlap.  What is registered    *)
(* beyond the client's existence is left out.                              *)
(***************************************************************************)
EXTENDS Naturals, FiniteSets

CONSTANTS
    Client,         \* the client ids generated
    Request,        \* slots for requests in flight together
    None,
    Stores,         \* subset of {"memory", "postgres"}
    MaxToken        \* bound of the registration tokens minted

VARIABLES
    store,
    gated,          \* configuration: an initialAccessTokenStore is given
    initial,        \* the initial access token is still in the store
    minted,         \* client ids generated
    clients,        \* the client store
    tokens,         \* the registration token store
    owner,          \* the client of each token
    held,           \* registration tokens in the client's hands
    codes, devices, \* clients with an authorization code, with an approved device authorization
    families,       \* clients with a refresh-token family
    work,           \* requests between two steps
    retired,        \* history: clients deleted or revoked
    deleted,        \* history: those of them that were deleted
    excused,        \* history: clients and tokens that late requests brought back
    escaped         \* history: clients with a family of a late exchange

config == <<store, gated>>
registry == <<minted, clients>>
tokenRows == <<tokens, owner, held>>
grants == <<codes, devices, families>>
history == <<retired, deleted, excused, escaped>>
vars == <<config, initial, registry, tokenRows, grants, work, history>>

Token == 1 .. MaxToken
Steps == {"decide", "client", "token", "insert", "notify", "delete", "forget", "codes", "devices",
          "families", "take", "grant"}

TypeOK ==
    /\ store \in Stores /\ gated \in BOOLEAN /\ initial \in BOOLEAN
    /\ minted \subseteq Client /\ clients \subseteq minted
    /\ tokens \subseteq DOMAIN owner /\ held \subseteq DOMAIN owner
    /\ DOMAIN owner \subseteq Token /\ \A t \in DOMAIN owner : owner[t] \in minted
    /\ codes \subseteq minted /\ devices \subseteq minted /\ families \subseteq minted
    /\ work \in [Request -> {None} \cup
           [op : {"register", "update", "delete", "revoke", "exchange", "redeem"}, pc : Steps,
            client : Client \cup {None}, late : BOOLEAN]]
    /\ retired \subseteq minted /\ deleted \subseteq retired
    /\ excused \subseteq Client \cup Token /\ escaped \subseteq Client

Init ==
    /\ store \in Stores /\ gated \in BOOLEAN /\ initial = TRUE
    /\ minted = {} /\ clients = {} /\ tokens = {} /\ owner = <<>> /\ held = {}
    /\ codes = {} /\ devices = {} /\ families = {} /\ work = [r \in Request |-> None]
    /\ retired = {} /\ deleted = {} /\ excused = {} /\ escaped = {}

Busy(r, op, pc) == work[r] # None /\ work[r].op \in op /\ work[r].pc = pc
At(r, pc) == work[r] # None /\ work[r].pc = pc
Start(r, op, pc, c, late) ==
    /\ work[r] = None
    /\ work' = [work EXCEPT ![r] = [op |-> op, pc |-> pc, client |-> c, late |-> late]]
Go(r, pc) == work' = [work EXCEPT ![r].pc = pc]
Done(r) == work' = [work EXCEPT ![r] = None]

OfClient(c) == {t \in DOMAIN owner : owner[t] = c}

\* The requests for a client whose credentials go while they are on their way.
Late(now, c, ops) ==
    [r \in Request |-> IF now[r] # None /\ now[r].client = c /\ now[r].op \in ops
                       THEN [now[r] EXCEPT !.late = TRUE] ELSE now[r]]

-----------------------------------------------------------------------------
(* Registration.                                                           *)

\* consumeToken deletes what it finds in one step: a refused registration has burned it.
ConsumeInitial == (gated => initial) /\ initial' = (initial /\ ~gated)
Register(r) ==
    /\ ConsumeInitial
    /\ Start(r, "register", "decide", None, FALSE)
    /\ UNCHANGED <<config, registry, tokenRows, grants, history>>

\* onClientRegistration and the redirect URIs decide, for updates too.
Decide(r) ==
    /\ At(r, "decide") /\ (Done(r) \/ Go(r, "client"))
    /\ UNCHANGED <<config, initial, registry, tokenRows, grants, history>>

SaveClient(r) ==
    /\ Busy(r, {"register"}, "client")
    /\ \E c \in Client \ minted :
           /\ minted' = minted \cup {c} /\ clients' = clients \cup {c}
           /\ work' = [work EXCEPT ![r].client = c, ![r].pc = "token"]
    /\ UNCHANGED <<config, initial, tokenRows, grants, history>>

\* saveToken: one token for each client.  In memory the old ones go with the new one's coming;
\* Postgres deletes and inserts, a statement each.
Mint(r, others) ==
    LET t == Cardinality(DOMAIN owner) + 1 IN
    /\ t \in Token
    /\ owner' = [u \in DOMAIN owner \cup {t} |-> IF u = t THEN work[r].client ELSE owner[u]]
    /\ tokens' = others \cup {t}
    /\ excused' = IF work[r].late THEN excused \cup {t} ELSE excused
    /\ IF work[r].op = "register" THEN Go(r, "notify") /\ UNCHANGED held
       ELSE Done(r) /\ held' = held \cup {t}

SaveToken(r) ==
    /\ At(r, "token")
    /\ IF store = "memory" THEN Mint(r, tokens \ OfClient(work[r].client))
       ELSE tokens' = tokens \ OfClient(work[r].client) /\ Go(r, "insert")
            /\ UNCHANGED <<owner, held, excused>>
    /\ UNCHANGED <<config, initial, registry, grants, retired, deleted, escaped>>

InsertToken(r) ==
    /\ At(r, "insert") /\ Mint(r, tokens)
    /\ UNCHANGED <<config, initial, registry, grants, retired, deleted, escaped>>

\* onClientRegistered is awaited: when it throws, nobody learns the token.
Notify(r) ==
    /\ At(r, "notify") /\ Done(r)
    /\ \/ held' = held \cup {t \in tokens : owner[t] = work[r].client}
       \/ UNCHANGED held
    /\ UNCHANGED <<config, initial, registry, grants, history, tokens, owner>>

-----------------------------------------------------------------------------
(* Management.                                                             *)

\* authorizeManagement: the token decides, whether or not the client is still there.
Manage(r, t) ==
    /\ t \in tokens \cap held
    /\ \/ Start(r, "update", "decide", owner[t], t \in excused)
       \/ Start(r, "delete", "delete", owner[t], t \in excused)
    /\ UNCHANGED <<config, initial, registry, tokenRows, grants, history>>

\* updateClient: the registry in memory sets what Postgres only updates.
Updated(c) == IF store = "memory" THEN clients \cup {c} ELSE clients
UpdateClient(r) ==
    LET c == work[r].client IN
    /\ Busy(r, {"update"}, "client") /\ Go(r, "token")
    /\ clients' = Updated(c)
    /\ excused' = IF work[r].late THEN excused \cup {c} ELSE excused
    /\ UNCHANGED <<config, initial, tokenRows, grants, minted, retired, deleted, escaped>>

DeleteClient(r) ==
    /\ At(r, "delete") /\ Go(r, "forget") /\ clients' = clients \ {work[r].client}
    /\ UNCHANGED <<config, initial, tokenRows, grants, history, minted>>

\* deleteByClientId and deleteForClient end the deletion and the revocation.
ForgottenNone(c) == {}                          \* defect: the registration tokens stay
Forgotten(c) == OfClient(c)
ForgetTokens(r) ==
    LET c == work[r].client IN
    /\ At(r, "forget")
    /\ tokens' = tokens \ Forgotten(c) /\ retired' = retired \cup {c}
    /\ deleted' = IF work[r].op = "delete" THEN deleted \cup {c} ELSE deleted
    /\ excused' = IF c \in clients /\ work[r].op = "delete" THEN excused \cup {c} ELSE excused
    /\ work' = [Late(work, c, {"register", "update"}) EXCEPT ![r] = None]
    /\ UNCHANGED <<config, initial, registry, grants, owner, held, escaped>>

-----------------------------------------------------------------------------
(* Grants of the client, and their revocation by the operator.             *)

BeingRevoked(c) == \E r \in Request : work[r] # None /\ work[r].op = "revoke" /\ work[r].client = c

\* A user authorizes the client or approves its device, until somebody revokes what it holds.
Open(c) == c \in clients \ retired /\ ~BeingRevoked(c)
Authorize(c) ==
    /\ Open(c) /\ c \notin codes /\ codes' = codes \cup {c}
    /\ UNCHANGED <<config, initial, registry, tokenRows, history, devices, families, work>>

ApproveDevice(c) ==
    /\ Open(c) /\ c \notin devices /\ devices' = devices \cup {c}
    /\ UNCHANGED <<config, initial, registry, tokenRows, history, codes, families, work>>

\* The token endpoint takes the code and stores a family later.
Exchange(r, c) ==
    /\ c \in codes \cap clients /\ codes' = codes \ {c} /\ Start(r, "exchange", "grant", c, FALSE)
    /\ UNCHANGED <<config, initial, registry, tokenRows, history, devices, families>>

\* A poll reads the device authorization, deletes it whether or not it is still there, and stores
\* a family.
Redeem(r, c) ==
    /\ c \in devices \cap clients /\ Start(r, "redeem", "take", c, FALSE)
    /\ UNCHANGED <<config, initial, registry, tokenRows, grants, history>>

TakeDevice(r) ==
    /\ At(r, "take") /\ Go(r, "grant") /\ devices' = devices \ {work[r].client}
    /\ UNCHANGED <<config, initial, registry, tokenRows, history, codes, families>>

SaveFamily(r) ==
    /\ At(r, "grant") /\ Done(r)
    /\ families' = families \cup {work[r].client}
    /\ escaped' = IF work[r].late THEN escaped \cup {work[r].client} ELSE escaped
    /\ UNCHANGED <<config, initial, registry, tokenRows, codes, devices, retired, deleted, excused>>

Revoke(r, c) ==
    /\ c \in minted \ retired /\ Start(r, "revoke", "codes", c, FALSE)
    /\ UNCHANGED <<config, initial, registry, tokenRows, grants, history>>

\* Codes and devices go before the families they could become; an exchange or a poll already under
\* way when its sweep comes escapes.
RevokeCodes(r) ==
    /\ At(r, "codes") /\ codes' = codes \ {work[r].client}
    /\ work' = [Late(work, work[r].client, {"exchange"}) EXCEPT ![r].pc = "devices"]
    /\ UNCHANGED <<config, initial, registry, tokenRows, history, devices, families>>

RevokeDevices(r) ==
    /\ At(r, "devices") /\ devices' = devices \ {work[r].client}
    /\ work' = [Late(work, work[r].client, {"redeem"}) EXCEPT ![r].pc = "families"]
    /\ UNCHANGED <<config, initial, registry, tokenRows, history, codes, families>>

RevokeFamilies(r) ==
    /\ At(r, "families") /\ families' = families \ {work[r].client} /\ Go(r, "forget")
    /\ UNCHANGED <<config, initial, registry, tokenRows, history, codes, devices>>

Next ==
    \/ \E c \in Client : Authorize(c) \/ ApproveDevice(c)
    \/ \E r \in Request :
           \/ Register(r) \/ Decide(r) \/ SaveClient(r) \/ SaveToken(r) \/ InsertToken(r)
           \/ Notify(r) \/ UpdateClient(r) \/ DeleteClient(r) \/ ForgetTokens(r)
           \/ TakeDevice(r) \/ SaveFamily(r)
           \/ RevokeCodes(r) \/ RevokeDevices(r) \/ RevokeFamilies(r)
           \/ \E t \in Token : Manage(r, t)
           \/ \E c \in Client : Exchange(r, c) \/ Redeem(r, c) \/ Revoke(r, c)

Spec == Init /\ [][Next]_vars

-----------------------------------------------------------------------------
(* Properties.                                                             *)

\* A deleted client stays deleted and without a registration token, a revoked one without codes,
\* device authorizations, families and registration tokens, whatever overlaps; only a request that
\* was authorized before the tokens were forgotten, and one that had taken its code or read its
\* device authorization, may leave something behind, and in
\* Postgres not even that brings a deleted client back (deleteRegisteredClient,
\* revokeOAuthClientCredentials).
RetiredHoldNothing ==
    /\ \A c \in deleted \cap clients : store = "memory" /\ c \in excused
    /\ \A t \in tokens : owner[t] \in retired => t \in excused
    /\ (retired \ deleted) \cap (codes \cup devices \cup (families \ escaped)) = {}

=============================================================================

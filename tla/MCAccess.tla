------------------------------ MODULE MCAccess ------------------------------
(* One run over the modules that give access to others and take it away:     *)
(* members and provisioned users, agents, API keys, registered clients,      *)
(* enterprise connections, cached authorization checks, credentials that     *)
(* wallets present, the proofs and tickets that are accepted once, and the   *)
(* two grants a client polls for.  A behaviour is one of one module; the     *)
(* variables of the others are off.                                          *)
EXTENDS Naturals, TLC

CONSTANTS
    None, Request, Pair, One, viewer, editor, folder, parent, team, member,
    MaxInvitation,
    MaxCodeAttempts, MaxVersion, MaxAttempt,    \* of the registration of an agent
    Ttl, KeyLife, MaxApiToken, MaxApiNow,       \* of API keys and their tokens
    MaxToken,                                   \* registration tokens
    Checker, Node, Query, Subject, Computed, Via, Space, Depths, MaxWrites,
    MaxClock, MaxFlow, MaxSession, Signs,       \* of the connections
    ProofExpiry, Skew, MaxNow,                  \* of proofs and tickets
    Client, User, Decider, Poller,              \* of the grants a client polls for
    Device, CodeTtl, MaxTime,                   \* of device codes
    AuthReq, RequestTtl, Interval, MaxPollTime  \* of backchannel authentication

\* Viewers of a document are its editors and the viewers of its folder; teams may be members of a
\* folder and a folder of a team.
Nodes == {viewer, editor, folder, parent, team}
Tuples == {<<editor, member>>, <<parent, folder>>, <<folder, team>>, <<team, member>>,
           <<team, folder>>, <<viewer, team>>}
Queries == {viewer, editor}
Members == {member}
Inherits == {<<viewer, editor>>}
Links == {<<viewer, parent>>}

\* Requests are interchangeable, and so are users and names.
Symmetry == Permutations(Request) \cup Permutations(Pair)

VARIABLES
    part,       \* which of the modules this behaviour is about
    organization, members, invitations, orWork, ended, overtaken, closed, reopened,
    valid, scKind, resource, scWork, asked, scExempt,
    flow, nextAttempt, assertions, agTokens, registered, delegations, agWork,
    akStore, akNow, client, key, akTokens, akWork, clientDeleted, keyDeleted, akAccepted,
    revived,
    clStore, gated, initial, minted, clients, clTokens, owner, clHeld, codes, clDevices,
    families, clWork, retired, deleted, excused, escaped,
    maxDepth, warrants, cache, fgWork, writing, writes, raced, shallow,
    ssStore, link, connections, clock, flows, jar, redeemed, sessions, cookie, ssWork,
    answered, silent, ssExempt,
    vcStore, nonced, vcHeld, expired, token, credentials, fetched, revoked, vcWork, passed,
    refused,
    otKind, otNow, consumes, seen, stored, otWork, otAccepted, issued, spent,
    dgNow, devices, decisions, polls, approvals, denials, dgMinted, contested, rushed,
    bcNow, bcRequests, bcDecisions, bcPolls, bcApprovals, bcMinted, honoured, bcRushed

orVars == <<organization, members, invitations, orWork, ended, overtaken,
             closed, reopened>>
scVars == <<valid, scKind, resource, scWork, asked, scExempt>>
agVars == <<flow, nextAttempt, assertions, agTokens, registered, delegations, agWork>>
akVars == <<akStore, akNow, client, key, akTokens, akWork, clientDeleted, keyDeleted,
             akAccepted, revived>>
clVars == <<clStore, gated, initial, minted, clients, clTokens, owner, clHeld, codes, clDevices,
             families, clWork, retired, deleted, excused, escaped>>
fgVars == <<maxDepth, warrants, cache, fgWork, writing, writes, raced, shallow>>
ssVars == <<ssStore, link, connections, clock, flows, jar, redeemed, sessions, cookie,
             ssWork, answered, silent, ssExempt>>
vcVars == <<vcStore, nonced, vcHeld, expired, token, credentials, fetched, revoked, vcWork,
             passed, refused>>
otVars == <<otKind, otNow, consumes, seen, stored, otWork, otAccepted, issued, spent>>
dgVars == <<dgNow, devices, decisions, polls, approvals, denials, dgMinted, contested, rushed>>
bcVars == <<bcNow, bcRequests, bcDecisions, bcPolls, bcApprovals, bcMinted, honoured, bcRushed>>
vars == <<part, orVars, scVars, agVars, akVars, clVars, fgVars, ssVars, vcVars, otVars, dgVars,
          bcVars>>

Organizations == INSTANCE Organizations WITH
    User <- Pair, work <- orWork
Scim == INSTANCE Scim WITH
    Member <- One, Name <- Pair, kind <- scKind, work <- scWork, exempt <- scExempt
Agents == INSTANCE AgentRegistration WITH
    User <- One, Kinds <- {"anonymous", "service_auth", "identity_assertion"},
    tokens <- agTokens, work <- agWork
ApiKeys == INSTANCE ApiKeys WITH
    MaxToken <- MaxApiToken, MaxNow <- MaxApiNow, store <- akStore, now <- akNow,
    tokens <- akTokens, work <- akWork, accepted <- akAccepted
Clients == INSTANCE ClientRegistration WITH
    Client <- One, Stores <- {"memory", "postgres"}, store <- clStore,
    tokens <- clTokens, held <- clHeld,
    devices <- clDevices, work <- clWork
Fga == INSTANCE Fga WITH
    Request <- Checker, User <- Subject, work <- fgWork
Sso == INSTANCE Sso WITH
    store <- ssStore, work <- ssWork,
    exempt <- ssExempt
Verifiable == INSTANCE VerifiableCredentials WITH
    Nonce <- One, store <- vcStore, held <- vcHeld, work <- vcWork
Proofs == INSTANCE OneTimeProofs WITH
    Kinds <- {"client assertion", "identity assertion", "dpop", "ticket"},
    Expiry <- ProofExpiry, kind <- otKind, now <- otNow, work <- otWork, accepted <- otAccepted
Codes == INSTANCE DeviceGrant WITH
    Ttl <- CodeTtl, now <- dgNow, minted <- dgMinted
Backchannel == INSTANCE BackchannelGrant WITH
    Ttl <- RequestTtl, MaxTime <- MaxPollTime, now <- bcNow, requests <- bcRequests,
    decisions <- bcDecisions, polls <- bcPolls, approvals <- bcApprovals, minted <- bcMinted,
    rushed <- bcRushed

ASSUME AccessAssumption ==
    /\ MaxCodeAttempts \in Nat \ {0} /\ MaxVersion \in Nat \ {0} /\ MaxAttempt \in Nat
    /\ ProofExpiry \in Nat /\ Skew \in Nat /\ MaxNow \in Nat
    /\ None \notin Agents!Flow /\ None \notin {"ask", "record", "shared"}
    /\ None \notin Verifiable!Work
    /\ Ttl \in Nat /\ KeyLife \in Nat /\ MaxApiNow \in Nat /\ None \notin Nat \cup ApiKeys!Key
    /\ MaxInvitation \in Nat /\ None \notin Organizations!Membership /\ None \notin One
    /\ Query \subseteq Node /\ Depths \subseteq Nat /\ MaxWrites \in Nat
    /\ Computed \cup Via \subseteq Node \X Node
    /\ Space \subseteq Node \X (Node \cup Subject)
    /\ MaxClock \in Nat /\ Signs \in BOOLEAN /\ None \notin Sso!Connection
    /\ CodeTtl \in Nat /\ MaxTime \in Nat /\ None \notin User \cup Device
    /\ RequestTtl \in Nat /\ Interval \in Nat /\ MaxPollTime \in Nat /\ None \notin Client \cup Nat

OrganizationsOff ==
    /\ organization = None /\ members = None /\ invitations = None /\ orWork = None
    /\ ended = None /\ overtaken = None /\ closed = None /\ reopened = None
ScimOff ==
    /\ valid = None /\ scKind = None /\ resource = None /\ scWork = None /\ asked = None
    /\ scExempt = None
AgentsOff ==
    /\ flow = None /\ nextAttempt = None /\ assertions = None /\ agTokens = None
    /\ registered = None /\ delegations = None /\ agWork = None
ApiKeysOff ==
    /\ akStore = None /\ akNow = None /\ client = None /\ key = None /\ akTokens = None
    /\ akWork = None /\ clientDeleted = None /\ keyDeleted = None /\ akAccepted = None
    /\ revived = None
ClientsOff ==
    /\ clStore = None /\ gated = None /\ initial = None /\ minted = None /\ clients = None
    /\ clTokens = None /\ owner = None /\ clHeld = None /\ codes = None /\ clDevices = None
    /\ families = None /\ clWork = None /\ retired = None /\ deleted = None /\ excused = None
    /\ escaped = None
FgaOff ==
    /\ maxDepth = None /\ warrants = None /\ cache = None /\ fgWork = None /\ writing = None
    /\ writes = None /\ raced = None /\ shallow = None
SsoOff ==
    /\ ssStore = None /\ link = None /\ connections = None /\ clock = None
    /\ flows = None
    /\ jar = None /\ redeemed = None /\ sessions = None /\ cookie = None /\ ssWork = None
    /\ answered = None /\ silent = None /\ ssExempt = None
VerifiableOff ==
    /\ vcStore = None /\ nonced = None /\ vcHeld = None /\ expired = None /\ token = None
    /\ credentials = None /\ fetched = None /\ revoked = None /\ vcWork = None
    /\ passed = None /\ refused = None
ProofsOff ==
    /\ otKind = None /\ otNow = None /\ consumes = None /\ seen = None /\ stored = None
    /\ otWork = None /\ otAccepted = None /\ issued = None /\ spent = None
DeviceCodesOff ==
    /\ dgNow = None /\ devices = None /\ decisions = None /\ polls = None
    /\ approvals = None /\ denials = None /\ dgMinted = None
    /\ contested = None /\ rushed = None
BackchannelOff ==
    /\ bcNow = None /\ bcRequests = None /\ bcDecisions = None /\ bcPolls = None
    /\ bcApprovals = None /\ bcMinted = None /\ honoured = None /\ bcRushed = None

Init ==
    /\ part \in {"organizations", "scim", "agents", "api keys", "clients", "fga", "sso",
                 "credentials", "proofs", "device", "backchannel"}
    /\ \/ part = "organizations" /\ Organizations!Init
       \/ part # "organizations" /\ OrganizationsOff
    /\ \/ part = "scim" /\ Scim!Init
       \/ part # "scim" /\ ScimOff
    /\ \/ part = "agents" /\ Agents!Init
       \/ part # "agents" /\ AgentsOff
    /\ \/ part = "api keys" /\ ApiKeys!Init
       \/ part # "api keys" /\ ApiKeysOff
    /\ \/ part = "clients" /\ Clients!Init
       \/ part # "clients" /\ ClientsOff
    /\ \/ part = "fga" /\ Fga!Init
       \/ part # "fga" /\ FgaOff
    /\ \/ part = "sso" /\ Sso!Init
       \/ part # "sso" /\ SsoOff
    /\ \/ part = "credentials" /\ Verifiable!Init
       \/ part # "credentials" /\ VerifiableOff
    /\ \/ part = "proofs" /\ Proofs!Init
       \/ part # "proofs" /\ ProofsOff
    /\ \/ part = "device" /\ Codes!Init
       \/ part # "device" /\ DeviceCodesOff
    /\ \/ part = "backchannel" /\ Backchannel!Init
       \/ part # "backchannel" /\ BackchannelOff

Next ==
    \/ /\ part = "organizations" /\ Organizations!Next
       /\ UNCHANGED <<part, scVars, agVars, akVars, clVars, fgVars, ssVars, vcVars,
                      otVars, dgVars, bcVars>>
    \/ /\ part = "scim" /\ Scim!Next
       /\ UNCHANGED <<part, orVars, agVars, akVars, clVars, fgVars, ssVars, vcVars,
                      otVars, dgVars, bcVars>>
    \/ /\ part = "agents" /\ Agents!Next
       /\ UNCHANGED <<part, orVars, scVars, akVars, clVars, fgVars, ssVars, vcVars,
                      otVars, dgVars, bcVars>>
    \/ /\ part = "api keys" /\ ApiKeys!Next
       /\ UNCHANGED <<part, orVars, scVars, agVars, clVars, fgVars, ssVars, vcVars,
                      otVars, dgVars, bcVars>>
    \/ /\ part = "clients" /\ Clients!Next
       /\ UNCHANGED <<part, orVars, scVars, agVars, akVars, fgVars, ssVars, vcVars,
                      otVars, dgVars, bcVars>>
    \/ /\ part = "fga" /\ Fga!Next
       /\ UNCHANGED <<part, orVars, scVars, agVars, akVars, clVars, ssVars, vcVars,
                      otVars, dgVars, bcVars>>
    \/ /\ part = "sso" /\ Sso!Next
       /\ UNCHANGED <<part, orVars, scVars, agVars, akVars, clVars, fgVars, vcVars,
                      otVars, dgVars, bcVars>>
    \/ /\ part = "credentials" /\ Verifiable!Next
       /\ UNCHANGED <<part, orVars, scVars, agVars, akVars, clVars, fgVars, ssVars,
                      otVars, dgVars, bcVars>>
    \/ /\ part = "proofs" /\ Proofs!Next
       /\ UNCHANGED <<part, orVars, scVars, agVars, akVars, clVars, fgVars, ssVars,
                      vcVars, dgVars, bcVars>>
    \/ /\ part = "device" /\ Codes!Next
       /\ UNCHANGED <<part, orVars, scVars, agVars, akVars, clVars, fgVars, ssVars,
                      vcVars, otVars, bcVars>>
    \/ /\ part = "backchannel" /\ Backchannel!Next
       /\ UNCHANGED <<part, orVars, scVars, agVars, akVars, clVars, fgVars, ssVars,
                      vcVars, otVars, dgVars>>

Spec == Init /\ [][Next]_vars

-----------------------------------------------------------------------------
\* Every variable of the module in question stays within its type.
TypesOK ==
    /\ part = "organizations" => Organizations!TypeOK
    /\ part = "scim" => Scim!TypeOK
    /\ part = "agents" => Agents!TypeOK
    /\ part = "api keys" => ApiKeys!TypeOK
    /\ part = "clients" => Clients!TypeOK
    /\ part = "fga" => Fga!TypeOK
    /\ part = "sso" => Sso!TypeOK
    /\ part = "credentials" => Verifiable!TypeOK
    /\ part = "proofs" => Proofs!TypeOK
    /\ part = "device" => Codes!TypeOK
    /\ part = "backchannel" => Backchannel!TypeOK

\* Who was taken out stays out: a member who left or was removed, an invitation that was revoked
\* or has expired, a client that was deleted or revoked with all it held, and an API key with its
\* tokens, up to the requests already under way that each module names (removeMember,
\* revokeInvitation, updateClient, revokeOAuthClientCredentials, deleteApiClient, deleteApiKey).
WithdrawnStaysOut ==
    /\ part = "organizations" =>
          Organizations!EndedStaysEnded /\ Organizations!InvitationsPassOnce
    /\ part = "clients" => Clients!RetiredHoldNothing
    /\ part = "api keys" => ApiKeys!DeletedStaysOut

\* What a provisioning client was acknowledged is what the application keeps, unless one of the
\* module's exceptions holds (the SCIM routes).
KeepsWhatWasAsked == part = "scim" => Scim!KeepsWhatWasAsked

\* A claimed agent holds no token from before its claim, but for one whose request was under way
\* when the claim retired its tokens (completeClaim).
ClaimRetiresTokens == part = "agents" => Agents!ClaimRetiresTokens

\* Sign-ins go to the connection that was configured last, and the end of a SAML session reaches
\* its provider whenever the adapter can sign a LogoutRequest and the connection has an address
\* for it, unless configurations overlapped or the connection was taken away (the setup portal,
\* resolveSsoConnection, the SAML logout).
ConfiguredIsServed ==
    part = "sso" => Sso!ConfiguredIsServed /\ Sso!LogoutReachesProvider

\* Cached answers follow the writes and no check finds what does not hold, up to overlapping
\* writes and the depth limit (check, deleteWarrant, listSubjects).
CacheFollowsWrites == part = "fga" => Fga!CacheFollowsWrites /\ Fga!FoundHolds

\* What is accepted once is accepted once: a signed proof while its store remembers it, a socket
\* ticket, a pre-authorized code, a c_nonce and a presentation request.  Only where the code asks
\* and writes in two calls, a DPoP proof without consumeJti and the Postgres stores of credentials,
\* do further requests pass, each of them one that asked between another's two.
SecretsPassOnce ==
    /\ part = "proofs" => Proofs!ProofsPassOnce /\ Proofs!TicketsPassOnce
    /\ part = "credentials" => Verifiable!CredentialSecretsPassOnce

\* Tokens are minted only for the user whose approval of that code or request was written, and
\* never for a denied code (exchangeDeviceCode, exchangeBackchannel).
PolledMintsWhatWasApproved ==
    /\ part = "device" => Codes!MintsWhatWasApproved /\ Codes!DeniedNeverMints
    /\ part = "backchannel" => Backchannel!MintsForApprover

\* "drop the record before minting so a replay can't double-issue": a replay that begins after the
\* first exchange is over is refused, in both grants.
PolledReplaysAreRefused ==
    /\ part = "device" => Codes!ReplaysAreRefused
    /\ part = "backchannel" => Backchannel!ReplaysAreRefused

\* "Poll-rate enforcement": polls of one auth_req_id that get through one after the other lie at
\* least its interval apart, and the interval stays the one it was issued with, however many polls
\* come too soon (TypeOK).
PollRateHolds == part = "backchannel" => Backchannel!TypeOK /\ Backchannel!PollRate

=============================================================================

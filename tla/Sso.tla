---------------------------------- MODULE Sso ----------------------------------
(***************************************************************************)
(* Single sign-on of one organization (sso/oidcRoutes.ts,                  *)
(* sso/samlRoutes.ts, portal/routes.ts and the connection stores): its     *)
(* administrators configure connections through a setup link, a browser    *)
(* signs in through the connection served, and signs out at the identity   *)
(* provider too.                                                           *)
(*                                                                         *)
(* A connection is its id, its type, the clock at which it was last        *)
(* configured, which stands for its configuration, whether that has the    *)
(* URL for single logout, which is optional, and whether it is enabled.    *)
(* The identity provider is external: it answers a code or an assertion,   *)
(* and the adapter or client validates it under the connection served.     *)
(***************************************************************************)
EXTENDS Naturals, FiniteSets, SequencesExt

CONSTANTS
    Request,        \* slots for requests in flight together
    MaxClock,       \* bound on configurations
    MaxFlow,        \* bound on OIDC sign-ins started
    MaxSession,     \* bound on sessions
    Signs,          \* whether the SAML adapter can build a signed LogoutRequest
    None

VARIABLES
    store,          \* where the connections are kept
    link,           \* what the setup link may configure; the empty set once it expired
    connections,    \* the rows, in the order they were first saved
    clock,          \* the last configuration's
    flows,          \* OIDC sign-ins started: the configuration each started under
    jar,            \* the browser's flow cookies: a flow, or 0
    redeemed,       \* codes the identity provider has redeemed
    sessions,       \* per session, its SAML connection, or 0, and whether it is stored
    cookie,         \* the browser's session cookie: a session, or 0
    work,           \* requests between two steps
    answered,       \* history: per type, the configuration last acknowledged
    silent,         \* history: a logout that could have asked the provider to end its session
                    \* ended a SAML session and did not
    exempt          \* history: overlapping configurations, or a connection taken away

vars == <<store, link, connections, clock, flows, jar, redeemed, sessions, cookie, work,
          answered, silent, exempt>>

Type == {"oidc", "saml"}
Connection ==
    [id : 1..MaxClock, type : Type, at : 1..MaxClock, slo : BOOLEAN, enabled : BOOLEAN]

TypeOK ==
    /\ store \in {"memory", "postgres"} /\ link \subseteq Type /\ clock \in 0..MaxClock
    /\ \A i \in 1..Len(connections) : connections[i] \in Connection
    /\ \A i, j \in 1..Len(connections) : connections[i].id = connections[j].id => i = j
    /\ jar \in 0..Len(flows) /\ redeemed \subseteq 1..Len(flows)
    /\ Len(sessions) <= MaxSession /\ cookie \in 0..Len(sessions)
    /\ \A r \in Request : work[r] # None =>
           work[r].pc \in {"read", "save", "callback", "exchange", "assert", "context", "clear"}

Init ==
    /\ store \in {"memory", "postgres"} /\ link \in SUBSET Type \ {{}}
    /\ connections = <<>> /\ clock = 0
    /\ flows = <<>> /\ jar = 0 /\ redeemed = {}
    /\ sessions = <<>> /\ cookie = 0
    /\ work = [r \in Request |-> None]
    /\ answered = [t \in Type |-> 0] /\ silent = FALSE /\ exempt = FALSE

Idle(r) == work[r] = None
At(r, pc) == work[r] # None /\ work[r].pc = pc

-----------------------------------------------------------------------------
(* The connection stores.                                                  *)

\* getConnectionByOrganization: the first in memory, in Postgres the one last updated.
Served(types) ==
    LET found == {i \in 1..Len(connections) :
                      connections[i].enabled /\ connections[i].type \in types}
    IN  IF found = {} THEN None
        ELSE connections[CHOOSE i \in found : \A j \in found :
                 IF store = "memory" THEN i <= j ELSE connections[i].at >= connections[j].at]

\* saveConnection: a row keeps its place.
SavedAgain(c) == Append(connections, c)        \* defect: no conflict with the row there is
Saved(c) ==
    IF \E i \in 1..Len(connections) : connections[i].id = c.id
    THEN [i \in 1..Len(connections) |-> IF connections[i].id = c.id THEN c ELSE connections[i]]
    ELSE Append(connections, c)

\* deleteConnection, and a connection the application saves as disabled.
DeleteConnection ==
    /\ \E c \in ToSet(connections) : connections' = SelectSeq(connections, LAMBDA d : d # c)
    /\ exempt' = TRUE
    /\ UNCHANGED <<store, link, clock, flows, jar, redeemed, sessions, cookie, work, answered,
                   silent>>

DisableConnection ==
    /\ \E c \in ToSet(connections) :
           c.enabled /\ connections' = Saved([c EXCEPT !.enabled = FALSE])
    /\ exempt' = TRUE
    /\ UNCHANGED <<store, link, clock, flows, jar, redeemed, sessions, cookie, work, answered,
                   silent>>

-----------------------------------------------------------------------------
(* The setup portal.                                                       *)

ExpireLink ==
    /\ link # {} /\ link' = {}
    /\ UNCHANGED <<store, connections, clock, flows, jar, redeemed, sessions, cookie, work,
                   answered, silent, exempt>>

\* resolveSetupSession, and the capability it has to have.
LinkAllows(t) == t \in link

\* A PUT of a connection; only one of SAML can bring the URL for single logout.
Configure(r) ==
    /\ Idle(r)
    /\ \E t \in Type, slo \in BOOLEAN :
           /\ LinkAllows(t) /\ (slo => t = "saml")
           /\ work' = [work EXCEPT ![r] = [pc |-> "read", type |-> t, slo |-> slo]]
    /\ UNCHANGED <<store, link, connections, clock, flows, jar, redeemed, sessions, cookie,
                   answered, silent, exempt>>

\* The connection served keeps its id under the new configuration.
ReusedNever(current, at) == at                 \* defect: every configuration is a new connection
Reused(current, at) == IF current = None THEN at ELSE current.id

Row(t, slo, at) ==
    [id |-> Reused(Served({t}), at), type |-> t, at |-> at, slo |-> slo, enabled |-> TRUE]

ReadExisting(r) ==
    /\ At(r, "read") /\ clock < MaxClock /\ clock' = clock + 1
    /\ work' = [work EXCEPT ![r] = [pc |-> "save", type |-> work[r].type,
                                    row |-> Row(work[r].type, work[r].slo, clock')]]
    /\ exempt' = (exempt \/ \E o \in Request : At(o, "save") /\ work[o].type = work[r].type)
    /\ UNCHANGED <<store, link, connections, flows, jar, redeemed, sessions, cookie, answered,
                   silent>>

SaveConnection(r) ==
    /\ At(r, "save")
    /\ connections' = Saved(work[r].row)
    /\ answered' = [answered EXCEPT ![work[r].type] = work[r].row.at]
    /\ work' = [work EXCEPT ![r] = None]
    /\ UNCHANGED <<store, link, clock, flows, jar, redeemed, sessions, cookie, silent, exempt>>

-----------------------------------------------------------------------------
(* Signing in.                                                             *)

\* promoteToSession: a new session, and its cookie; the one before it stays where it is.
Promoted(id) ==
    /\ Len(sessions) < MaxSession
    /\ sessions' = Append(sessions, [saml |-> id, live |-> TRUE]) /\ cookie' = Len(sessions) + 1

\* The OIDC authorize route; home-realm discovery may have led to it.
Authorize ==
    /\ Served({"oidc"}) # None /\ Len(flows) < MaxFlow
    /\ flows' = Append(flows, Served({"oidc"}).at) /\ jar' = Len(flows) + 1
    /\ UNCHANGED <<store, link, connections, clock, redeemed, sessions, cookie, work, answered,
                   silent, exempt>>

Discover ==
    /\ Served(Type) # None /\ Served(Type).type = "oidc" /\ Authorize

\* The callback comes with the cookies the browser has then, and the state is theirs.
Callback(r) ==
    /\ Idle(r) /\ jar # 0
    /\ work' = [work EXCEPT ![r] = [pc |-> "callback", flow |-> jar]]
    /\ UNCHANGED <<store, link, connections, clock, flows, jar, redeemed, sessions, cookie,
                   answered, silent, exempt>>

CallbackConnection(r) ==
    /\ At(r, "callback")
    /\ LET c == Served({"oidc"})
       IN  work' = [work EXCEPT ![r] =
                        IF c = None THEN None
                        ELSE [pc |-> "exchange", flow |-> work[r].flow, at |-> c.at]]
    /\ UNCHANGED <<store, link, connections, clock, flows, jar, redeemed, sessions, cookie,
                   answered, silent, exempt>>

\* The provider redeems a code once, for the configuration it was asked under; what comes after
\* may still fail.  The answer removes the flow's cookies, whichever flow they are of by then.
CallbackExchange(r) ==
    /\ At(r, "exchange") /\ jar' = 0 /\ work' = [work EXCEPT ![r] = None]
    /\ LET f == work[r].flow
       IN  \/ /\ f \notin redeemed /\ flows[f] = work[r].at
              /\ redeemed' = redeemed \cup {f} /\ (Promoted(0) \/ UNCHANGED <<sessions, cookie>>)
           \/ UNCHANGED <<redeemed, sessions, cookie>>
    /\ UNCHANGED <<store, link, connections, clock, flows, answered, silent, exempt>>

\* The assertion consumer service: an assertion the adapter accepts under the connection served.
Acs(r) ==
    /\ Idle(r)
    /\ LET c == Served({"saml"})
       IN  c # None /\ work' = [work EXCEPT ![r] = [pc |-> "assert", id |-> c.id]]
    /\ UNCHANGED <<store, link, connections, clock, flows, jar, redeemed, sessions, cookie,
                   answered, silent, exempt>>

AcsPromote(r) ==
    /\ At(r, "assert") /\ Promoted(work[r].id)
    /\ work' = [work EXCEPT ![r] = None]
    /\ UNCHANGED <<store, link, connections, clock, flows, jar, redeemed, answered, silent,
                   exempt>>

-----------------------------------------------------------------------------
(* Signing out.                                                            *)

\* The logout route: the connection is read, then the session's logout context, then the
\* session is removed and the provider is asked to end its own.
Logout(r) ==
    /\ Idle(r) /\ cookie # 0
    /\ LET c == Served({"saml"})
       IN  work' = [work EXCEPT ![r] = [pc |-> "context", cookie |-> cookie,
                                        id |-> IF c = None THEN 0 ELSE c.id,
                                        slo |-> c # None /\ c.slo]]
    /\ UNCHANGED <<store, link, connections, clock, flows, jar, redeemed, sessions, cookie,
                   answered, silent, exempt>>

\* readSamlLogout.
ContextAfter(s) == 0                           \* defect: read once the session is removed
Context(s) == IF sessions[s].live THEN sessions[s].saml ELSE 0

LogoutContext(r) ==
    /\ At(r, "context")
    /\ work' = [work EXCEPT ![r] = [pc |-> "clear", cookie |-> work[r].cookie, id |-> work[r].id,
                                    slo |-> work[r].slo, context |-> Context(work[r].cookie)]]
    /\ UNCHANGED <<store, link, connections, clock, flows, jar, redeemed, sessions, cookie,
                   answered, silent, exempt>>

\* A LogoutRequest is built if the adapter can, the connection read has somewhere to send it, and
\* the context is of that connection; else the redirect is a plain one.
Asks(w) == Signs /\ w.slo /\ w.context # 0 /\ w.context = w.id

\* What a plain redirect is documented for: an adapter or a connection that cannot do it.
Unable(w, s) == ~Signs \/ (w.id = s.saml /\ ~w.slo)

\* clearSession, and the redirect.
LogoutClear(r) ==
    /\ At(r, "clear")
    /\ LET w == work[r]
           s == sessions[w.cookie]
       IN  /\ sessions' = [sessions EXCEPT ![w.cookie].live = FALSE]
           /\ silent' = (silent \/ (s.live /\ s.saml # 0 /\ ~Asks(w) /\ ~Unable(w, s)))
    /\ cookie' = 0 /\ work' = [work EXCEPT ![r] = None]
    /\ UNCHANGED <<store, link, connections, clock, flows, jar, redeemed, answered, exempt>>

\* The SLO endpoint with a LogoutRequest the adapter accepts: the browser's session ends,
\* whichever it is.  A LogoutResponse changes nothing.
Slo ==
    /\ Served({"saml"}) # None /\ cookie # 0
    /\ sessions' = [sessions EXCEPT ![cookie].live = FALSE] /\ cookie' = 0
    /\ UNCHANGED <<store, link, connections, clock, flows, jar, redeemed, work, answered, silent,
                   exempt>>

Next ==
    \/ DeleteConnection \/ DisableConnection \/ ExpireLink \/ Authorize \/ Discover \/ Slo
    \/ \E r \in Request :
           \/ Configure(r) \/ ReadExisting(r) \/ SaveConnection(r)
           \/ Callback(r) \/ CallbackConnection(r) \/ CallbackExchange(r)
           \/ Acs(r) \/ AcsPromote(r)
           \/ Logout(r) \/ LogoutContext(r) \/ LogoutClear(r)

Spec == Init /\ [][Next]_vars

-----------------------------------------------------------------------------
(* The configuration served is the one last acknowledged, in both stores,  *)
(* unless configurations overlapped or a connection was taken away.        *)
ConfiguredIsServed ==
    \A t \in Type : (answered[t] # 0 /\ ~exempt) =>
        Served({t}) # None /\ Served({t}).at >= answered[t]

(* A logout that ends a SAML session sends its provider a LogoutRequest    *)
(* whenever the adapter can build one and the connection of the sign-in    *)
(* has, as the logout reads it, the URL to send it to, however often it    *)
(* was configured anew since (the same id), with the same exceptions.      *)
LogoutReachesProvider == silent => exempt
=============================================================================

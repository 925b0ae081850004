----------------------------- MODULE AccessProofs -----------------------------
(*****************************************************************************)
(* Proofs about what is granted to others and taken back, for every number   *)
(* of requests in flight together and every value of the bounds.             *)
(*****************************************************************************)
EXTENDS MCAccess, Sequences, FiniteSets, FiniteSetTheorems, TLAPS

(* AgentRegistration.                                                         *)

\* A token from before the claim counts as one whose request was under way.
Excused(t) == t.scopes = "pre" => t.late

\* From the moment that a request has retired an anonymous agent's tokens and until the claim,
\* and once it is claimed, the tokens that are there and those to be issued are excused.
HasRetired ==
    /\ flow # None /\ flow.kind = "anonymous"
    /\ (\E r \in Request : Agents!At(r, "replace")) \/ flow.status = "claimed"
RetiredStay ==
    HasRetired => /\ \A t \in agTokens : Excused(t)
                  /\ \A r \in Request : Agents!At(r, "issue") => Excused(agWork[r].token)

AgentsInv ==
    /\ Agents!TypeOK
    /\ flow = None => agTokens = {} /\ assertions = {} /\ \A r \in Request : agWork[r] = None
    /\ RetiredStay

(* Scim.                                                                      *)

\* What a request brings, and what it has read.
ScimJob ==
    [pc : {"create", "replace"}, input : Scim!Input] \cup [pc : {"deactivate"}] \cup
    [pc : {"read"}, o : Scim!Operation] \cup
    [pc : {"write"}, o : Scim!Operation, current : Scim!Input]

ScimInv ==
    /\ Scim!TypeOK
    /\ scWork \in [Request -> ScimJob \cup {None}]
    /\ \A r \in Request : Scim!At(r, "read") \/ Scim!At(r, "write") => scWork[r].o.kind = scKind
    /\ resource # None => asked \in Scim!Input
    /\ Scim!KeepsWhatWasAsked

(* OneTimeProofs.                                                             *)

\* Until when a store remembers what it let pass, and whether it decides itself.
Remembered == IF otKind = "identity assertion" THEN ProofExpiry - 1 ELSE ProofExpiry
StoreDecides == otKind # "dpop" \/ consumes

\* A proof that passed is remembered, and no second one passed as long as it is.  Where the store
\* only answers, one request at most has asked alone, and none once a proof has passed.
AcceptedIsSeen ==
    \A t \in Proofs!Time : otAccepted[t] # 0 => t <= otNow /\ (otKind # "ticket" => seen)
PassesOnce == otKind # "ticket" => Proofs!AtMostOnce(Remembered)
AsksAlone ==
    ~StoreDecides => \A r, q \in Request : otWork[r] = "record" =>
        /\ otWork[q] = "record" => r = q
        /\ \A t \in Proofs!Time : otAccepted[t] = 0
\* A ticket passed before it expired, and for each that was issued and is not stored, one at most.
NoTicketAtWork ==
    otKind = "ticket" => \A r \in Request : otWork[r] \notin {"ask", "record", "shared"}
TicketsInTime ==
    otKind = "ticket" => \A t \in Proofs!Time : otAccepted[t] # 0 => t < ProofExpiry
TicketsCounted == otKind = "ticket" => spent + (IF stored THEN 1 ELSE 0) <= issued

OneTimeInv ==
    /\ Proofs!TypeOK
    /\ AcceptedIsSeen
    /\ PassesOnce
    /\ AsksAlone
    /\ NoTicketAtWork
    /\ TicketsInTime
    /\ TicketsCounted

(* VerifiableCredentials.                                                     *)

\* A request that read the row alone and still lets its secret pass, unless that has expired or
\* the request fails.
Live(r, s) ==
    /\ vcWork[r] # None /\ vcWork[r].secret = s /\ vcWork[r].row = "live" /\ ~vcWork[r].shared
    /\ vcWork[r].step \in {"write", "decide", "status"}
Unspent(s) == vcHeld[s] \in {"unborn", "live"}

\* One such request at most lets a secret pass, none once it has passed, and while the store still
\* gives it back, none that has written what it read.
OneLive == \A s \in Verifiable!Secret, r, q \in Request : Live(r, s) /\ Live(q, s) => r = q
SpentOnce ==
    \A s \in Verifiable!Secret :
        passed[s] <= 1 /\ \A r \in Request : Live(r, s) => passed[s] = 0
UnspentWaits ==
    \A s \in Verifiable!Secret : Unspent(s) =>
        passed[s] = 0 /\ \A r \in Request : Live(r, s) => vcWork[r].step = "write"
OneStatement ==
    vcStore = "memory" => \A r \in Request : vcWork[r] # None => vcWork[r].step # "write"
\* The status list is asked about a presentation whose row was checked.
StatusLast ==
    \A r \in Request : vcWork[r] # None =>
        /\ vcWork[r].op = "present" => vcWork[r].shown \in Verifiable!Presentation
        /\ vcWork[r].step = "status" => vcWork[r].op = "present" /\ vcWork[r].row = "live"

SecretsInv == OneLive /\ SpentOnce /\ UnspentWaits
CredentialsInv ==
    /\ Verifiable!TypeOK
    /\ SecretsInv
    /\ OneStatement
    /\ StatusLast

(* ApiKeys.                                                                   *)

\* What a request has read.
ApiJob ==
    [pc : {"exchange", "mint"}, at : Nat] \cup [pc : {"token"}, at : Nat, token : ApiKeys!Token] \cup
    [pc : {"key"}, at : Nat, after : BOOLEAN] \cup
    [pc : {"touch"}, at : Nat, after : BOOLEAN, row : ApiKeys!Key]

\* The latest expiry of what the client has got so far, or had got when it was deleted.
Deadline == (IF clientDeleted # None THEN clientDeleted ELSE akNow) + Ttl

ApiTypes ==
    /\ ApiKeys!TypeOK
    /\ akWork \in [Request -> ApiJob \cup {None}]
    /\ \A r \in Request : akWork[r] # None => akWork[r].at <= akNow
    /\ clientDeleted # None => clientDeleted <= akNow
TokensEnd ==
    /\ client => clientDeleted = None
    /\ \A t \in akTokens : t.expires <= Deadline
    /\ \A r \in Request :
           akWork[r] # None /\ akWork[r].pc = "mint" => akWork[r].at + Ttl <= Deadline
    /\ akAccepted # None => akAccepted < Deadline
KeyEnds ==
    /\ keyDeleted => key = None
    /\ \A r \in Request : akWork[r] # None =>
           /\ akWork[r].pc = "key" => (akWork[r].after => keyDeleted)
           /\ akWork[r].pc = "touch" => ~akWork[r].after
    /\ ~revived

ApiKeysInv == ApiTypes /\ TokensEnd /\ KeyEnds

(* Organizations.                                                             *)

\* What a request holds: the row of a member, or the number of an invitation.
OrgJob ==
    [pc : {"owner", "managing", "send", "revoke", "roles", "assign"}, user : Pair \cup {None},
     row : {None} \cup Organizations!Membership \cup Nat, late : BOOLEAN]

\* A membership that has ended stays so, unless an overtaken request brought it back, and no
\* request that was not overtaken can do that.
Standing(u) ==
    /\ ended[u] = "suspended" => members[u] # None
    /\ u \notin overtaken =>
          /\ ended[u] = "removed" => members[u] = None
          /\ ended[u] = "suspended" => members[u].status = "suspended"
Heeds(j) ==
    /\ j.pc \in {"owner", "roles", "assign"} => j.user \in Pair
    /\ j.pc = "owner" /\ ~j.late => ended[j.user] = "no"
    /\ j.pc = "roles" => j.row \in Organizations!Membership
    /\ j.pc = "roles" /\ ~j.late /\ j.user \notin overtaken =>
          /\ ended[j.user] # "removed"
          /\ ended[j.user] = "suspended" => j.row.status = "suspended"

OrgTypes ==
    /\ organization \in {"none", "live", "deleted"}
    /\ members \in [Pair -> Organizations!Membership \cup {None}]
    /\ ended \in [Pair -> {"no", "removed", "suspended"}] /\ overtaken \subseteq Pair
    /\ orWork \in [Request -> OrgJob \cup {None}]
    /\ invitations \in Seq(Organizations!Invitation) /\ Len(invitations) <= MaxInvitation
Unfounded ==
    organization = "none" =>
        /\ \A u \in Pair : members[u] = None /\ ended[u] = "no"
        /\ \A r \in Request : orWork[r] = None
OrganizationsInv ==
    /\ OrgTypes
    /\ Unfounded
    /\ \A u \in Pair : Standing(u)
    /\ \A r \in Request : orWork[r] # None => Heeds(orWork[r])

\* A closed invitation can no longer be accepted, and what is written to a row makes it no younger.
Over(i) == invitations[i].state # "pending" \/ invitations[i].expired
HoldsARow(j) == j.pc \in {"send", "revoke"} => j.row \in DOMAIN invitations
InvitationsInv ==
    /\ closed \subseteq DOMAIN invitations /\ \A i \in closed : Over(i)
    /\ reopened = {}
    /\ \A r \in Request : orWork[r] # None => HoldsARow(orWork[r])

(* ClientRegistration.                                                        *)

ClJob == [op : {"register", "update", "delete", "revoke", "exchange", "redeem"}, pc : Clients!Steps,
          client : One \cup {None}, late : BOOLEAN]

\* Families come of exchanges of codes and of polls of devices.
FamilyOps == {"exchange", "redeem"}
Source(op) == IF op = "exchange" THEN codes ELSE clDevices
\* No request of a kind that could leave a family can begin any more, and those under way are late.
Dry(op, c) ==
    /\ c \notin Source(op)
    /\ \A q \in Request : clWork[q] # None =>
           (clWork[q].op = op /\ clWork[q].client = c => clWork[q].late)
AllDry(c) == \A op \in FamilyOps : Dry(op, c)
\* What a revocation has swept once it is at a step.
Swept(pc) == {op \in FamilyOps : pc \in {"families", "forget"} \/ (pc = "devices" /\ op = "exchange")}

\* The steps of each operation, and whose they are.
OfItsKind(j) ==
    /\ j.op \in {"register", "update"} <=> j.pc \in {"decide", "client", "token", "insert", "notify"}
    /\ j.op \in FamilyOps <=> j.pc \in {"take", "grant"}
    /\ j.op = "revoke" => j.pc \in {"codes", "devices", "families", "forget"}
    /\ j.op = "delete" => j.pc \in {"delete", "forget"}
    /\ j.client = None => j.op = "register" /\ j.pc \in {"decide", "client"}
    /\ j.client # None => j.client \in minted
\* A request that writes to a retired client is late; a deletion in Postgres has deleted the
\* client before it forgets the tokens; and a revocation has taken codes and devices before families.
Minds(j) ==
    /\ OfItsKind(j)
    /\ j.op \in {"register", "update"} /\ ~j.late => j.client \notin retired
    /\ clStore = "postgres" /\ j.op = "delete" /\ j.pc = "forget" => j.client \notin clients
    /\ j.op = "revoke" => \A op \in Swept(j.pc) : Dry(op, j.client)
    /\ j.op = "revoke" /\ j.pc = "forget" => j.client \notin families \ escaped

AllMind == \A r \in Request : clWork[r] # None => Minds(clWork[r])
RevokedHoldNothing == \A c \in retired \ deleted : AllDry(c) /\ c \notin families \ escaped
DeletedStayOut == \A c \in deleted \cap clients : clStore = "memory" /\ c \in excused
TokensForgotten == \A t \in clTokens : owner[t] \in retired => t \in excused

ClientsInv ==
    /\ Clients!TypeOK
    /\ AllMind
    /\ RevokedHoldNothing
    /\ DeletedStayOut
    /\ TokensForgotten

(* Fga.                                                                       *)

FgJob == [key : Query \X (Subject \cup {None}), items : SUBSET Fga!Item, visited : SUBSET Node,
          found : SUBSET Subject, raced : BOOLEAN, cut : BOOLEAN]

\* Nodes that every set closed under the rules and the tuples contains with a.
Closed(S) == \A n \in S : Fga!Leads(n) \subseteq S
Grants(a, n) == \A S \in SUBSET Node : a \in S /\ Closed(S) => n \in S

\* A check that no write overlapped has entered only nodes that grant the one it is about.
Sound(t) ==
    /\ \A n \in t.visited : Grants(t.key[1], n)
    /\ \A i \in t.items : i.node \in t.visited
    /\ \A u \in t.found : \E n \in t.visited : <<n, u>> \in warrants

\* Unless it was cut, all that a node it has entered leads to is entered, or still to be read.
Pending(t, n, kind) == \E i \in t.items : i.node = n /\ i.kind = kind
SelfRead(t, n) ==
    \A m : <<n, m>> \in warrants => (m \in Node => m \in t.visited) /\ (m \in Subject => m \in t.found)
LinksRead(t, n) ==
    \A l \in Fga!ViaOf(n), m \in Node : <<l, m>> \in warrants => m \in t.visited
Thorough(t) ==
    ~t.cut /\ t.key[2] # None =>
        /\ t.key[1] \in t.visited
        /\ \A n \in t.visited :
              /\ Fga!ComputedFrom(n) \subseteq t.visited
              /\ Pending(t, n, "self") \/ t.key[2] \in t.found \/ SelfRead(t, n)
              /\ Pending(t, n, "via") \/ LinksRead(t, n)

\* What a traversal gains when it enters nodes.
Grows(t, nodes, x) ==
    /\ x \in FgJob /\ x.key = t.key /\ x.raced = t.raced /\ x.found = t.found
    /\ t.visited \subseteq x.visited /\ t.items \subseteq x.items
    /\ \A i \in x.items \ t.items : i.node \in x.visited
    /\ ~x.cut =>
          /\ ~t.cut /\ nodes \subseteq x.visited
          /\ \A n \in x.visited \ t.visited :
                /\ Fga!ComputedFrom(n) \subseteq x.visited
                /\ Pending(x, n, "self") /\ (Fga!ViaOf(n) = {} \/ Pending(x, n, "via"))
    /\ \A a : (\A n \in nodes : Grants(a, n)) => \A n \in x.visited \ t.visited : Grants(a, n)

FgaInv ==
    /\ Fga!TypeOK
    /\ fgWork \in [Checker -> {None} \cup FgJob]
    /\ \A r \in Checker : fgWork[r] # None /\ ~fgWork[r].raced =>
                              Sound(fgWork[r]) /\ Thorough(fgWork[r])
    /\ Fga!CacheFollowsWrites

(* Sso.                                                                       *)

\* No type has two connections, and none is off.
Conns == 1 .. Len(connections)
OneEach ==
    /\ connections \in Seq(Sso!Connection)
    /\ \A i \in Conns :
          connections[i].enabled /\ connections[i].id <= clock /\ connections[i].at <= clock
    /\ \A i, j \in Conns :
          i # j => connections[i].type # connections[j].type /\ connections[i].id # connections[j].id
HasSaml(id) == \E i \in Conns : connections[i].type = "saml" /\ connections[i].id = id

\* A configuration under way keeps the id of its type's connection, or brings a new one; the
\* sessions and their logouts are of the one SAML connection.
Fits(row) == \A i \in Conns : connections[i].id = row.id <=> connections[i].type = row.type
Knows(j) ==
    /\ j.pc = "read" => j.type \in Sso!Type /\ j.slo \in BOOLEAN
    /\ j.pc = "save" =>
          /\ j.row \in Sso!Connection /\ j.row.enabled /\ j.row.type = j.type
          /\ j.row.id <= clock /\ j.row.at <= clock /\ answered[j.type] <= j.row.at /\ Fits(j.row)
    /\ j.pc = "assert" => HasSaml(j.id)
    /\ j.pc \in {"context", "clear"} =>
          /\ j.cookie \in 1 .. Len(sessions)
          /\ sessions[j.cookie].saml # 0 => j.id = sessions[j.cookie].saml
    /\ j.pc = "clear" => (sessions[j.cookie].live => j.context = sessions[j.cookie].saml)

OneSaver ==
    \A q, r \in Request : q # r /\ Sso!At(q, "save") /\ Sso!At(r, "save") =>
        ssWork[q].type # ssWork[r].type /\ ssWork[q].row.id # ssWork[r].row.id
SessionsKnown ==
    /\ sessions \in Seq([saml : Nat, live : BOOLEAN]) /\ cookie \in 0 .. Len(sessions)
    /\ \A s \in 1 .. Len(sessions) : sessions[s].saml # 0 => HasSaml(sessions[s].saml)
AnsweredServed ==
    /\ clock \in 0 .. MaxClock /\ answered \in [Sso!Type -> Nat]
    /\ \A t \in Sso!Type :
          /\ answered[t] <= clock
          /\ answered[t] # 0 => \E i \in Conns : connections[i].type = t /\ connections[i].at >= answered[t]

\* All this holds until configurations overlap or a connection is taken away.
Undisturbed ==
    /\ OneEach
    /\ AnsweredServed
    /\ SessionsKnown
    /\ ssWork = [r \in Request |-> ssWork[r]]
    /\ \A r \in Request : ssWork[r] # None => Knows(ssWork[r])
    /\ OneSaver
    /\ ~silent
SsoInv == ~ssExempt => Undisturbed

(* DeviceGrant: the strengthening that makes the safety invariants inductive. *)

\* A decision or poll that is in flight for a code.
DecidesOn(q, d) == decisions[q] # None /\ decisions[q].device = d
PollsFor(p, d) == polls[p] # None /\ polls[p].device = d
Exchanging(p, d) == PollsFor(p, d) /\ polls[p].pc # "expire"

\* An approved record names a user whose approval was written, and so does a poll that is
\* exchanging it; both have the client the code was issued to.
ApprovalsAreKept ==
    \A d \in Device :
        /\ Codes!Redeemable(d) => <<d, devices[d].userSub>> \in approvals
        /\ \A p \in Poller : Exchanging(p, d) =>
               <<d, polls[p].userSub>> \in approvals /\ polls[p].client = devices[d].client

DecisionsNameUsers ==
    \A q \in Decider : decisions[q] # None /\ decisions[q].status = "approved" =>
        decisions[q].userSub \in User

\* Nothing has happened to a code nobody has decided on, and nothing at all to one that was
\* not issued.
UndecidedIsFresh ==
    \A d \in Device : devices[d].status \in {"unissued", "pending"} =>
        /\ dgMinted[d] = <<>> /\ d \notin denials
        /\ \A p \in Poller : ~Exchanging(p, d)
        /\ devices[d].status = "unissued" =>
              (\A p \in Poller : ~PollsFor(p, d)) /\ (\A q \in Decider : ~DecidesOn(q, d))

\* Where decisions did not overlap, the one in flight finds the code undecided or gone, and
\* a denied code is past every exchange.
DecidedOnce ==
    \A d \in Device \ contested :
        /\ \A q, o \in Decider : DecidesOn(q, d) /\ DecidesOn(o, d) => q = o
        /\ (\E q \in Decider : DecidesOn(q, d)) \/ d \in denials =>
              dgMinted[d] = <<>> /\ \A p \in Poller : ~Exchanging(p, d)
        /\ (\E q \in Decider : DecidesOn(q, d)) =>
              devices[d].status \in {"pending", "deleted"} /\ d \notin denials
        /\ d \in denials => devices[d].status \in {"denied", "deleted"}

\* Where polls did not overlap, the record is gone before the tokens are there.
ExchangedOnce ==
    \A d \in Device \ rushed :
        /\ \A p, o \in Poller : PollsFor(p, d) /\ PollsFor(o, d) => p = o
        /\ \A p \in Poller : PollsFor(p, d) =>
              dgMinted[d] = <<>> /\ (polls[p].pc = "mint" => devices[d].status = "deleted")
        /\ dgMinted[d] # <<>> => devices[d].status = "deleted"

DeviceInv ==
    /\ Codes!TypeOK
    /\ ApprovalsAreKept
    /\ DecisionsNameUsers
    /\ UndecidedIsFresh
    /\ DecidedOnce
    /\ ExchangedOnce
    /\ Codes!MintsWhatWasApproved
    /\ Codes!DeniedNeverMints
    /\ Codes!ReplaysAreRefused

(* BackchannelGrant.                                                          *)

Asking(p, a) == bcPolls[p] # None /\ bcPolls[p].request = a

\* A request that was issued names a user; an approved one names a user whose approval was
\* written, and so does the record a poll has read.
RequestsNameUsers ==
    /\ \A a \in AuthReq :
          /\ bcRequests[a].status # "unissued" => bcRequests[a].userSub \in User
          /\ bcRequests[a].status = "approved" => <<a, bcRequests[a].userSub>> \in bcApprovals
    /\ \A p \in Poller : bcPolls[p] # None /\ bcPolls[p].pc # "expire" =>
          /\ bcPolls[p].read.status = "approved" =>
                <<bcPolls[p].request, bcPolls[p].read.userSub>> \in bcApprovals
          /\ bcPolls[p].pc # "record" => bcPolls[p].read.status = "approved"

UnissuedIsFresh ==
    \A a \in AuthReq : bcRequests[a].status = "unissued" =>
        /\ bcMinted[a] = <<>> /\ honoured[a] = <<>>
        /\ \A p \in Poller : ~Asking(p, a)

\* Where polls did not overlap, the record is gone before the tokens are there.
MintedOnce ==
    \A a \in AuthReq \ bcRushed :
        /\ \A p, o \in Poller : Asking(p, a) /\ Asking(o, a) => p = o
        /\ \A p \in Poller : Asking(p, a) =>
              /\ bcMinted[a] = <<>>
              /\ bcPolls[p].pc = "mint" <=> bcRequests[a].status = "deleted"
        /\ bcMinted[a] # <<>> => bcRequests[a].status = "deleted"

\* The record remembers when the last poll that got through began, and the next one was
\* measured against it.
LastPollIsKept ==
    \A a \in AuthReq \ bcRushed :
        /\ Len(honoured[a]) <= 2
        /\ honoured[a] # <<>> => bcRequests[a].lastPolledAt = honoured[a][Len(honoured[a])]
        /\ \A p \in Poller :
              Asking(p, a) /\ bcPolls[p].pc = "record" /\ bcRequests[a].lastPolledAt # None =>
                  bcPolls[p].at - bcRequests[a].lastPolledAt >= Interval

BackchannelInv ==
    /\ Backchannel!TypeOK
    /\ RequestsNameUsers
    /\ UnissuedIsFresh
    /\ MintedOnce
    /\ LastPollIsKept
    /\ Backchannel!MintsForApprover
    /\ Backchannel!ReplaysAreRefused
    /\ Backchannel!PollRate

(* The sum: a behaviour is one of one module.                                 *)
AccessInv ==
    /\ part = "agents" => AgentsInv
    /\ part = "scim" => ScimInv
    /\ part = "proofs" => OneTimeInv
    /\ part = "credentials" => CredentialsInv
    /\ part = "api keys" => ApiKeysInv
    /\ part = "organizations" => OrganizationsInv /\ InvitationsInv
    /\ part = "clients" => ClientsInv
    /\ part = "fga" => FgaInv
    /\ part = "sso" => SsoInv
    /\ part = "device" => DeviceInv
    /\ part = "backchannel" => BackchannelInv

-------------------------------------------------------------------------------
(* AgentRegistration.                                                         *)

\* Before it registers, an agent has neither tokens nor requests.
LEMMA AgentsInit == Agents!Init => AgentsInv
BY AccessAssumption DEF Agents!Init, AgentsInv, Agents!TypeOK, Agents!Flow, RetiredStay, HasRetired, Agents!At

\* What a request reads of a registration.
LEMMA ReadsTyped ==
    ASSUME NEW f \in Agents!Flow, NEW p \in {"retire", "activate", "issue"}
    PROVE  /\ Agents!Reads(f, p) \in Agents!Work
           /\ Agents!Reads(f, p).pc = p
           /\ Agents!Reads(f, p).version = f.version
           /\ Agents!Reads(f, p).token \in Agents!Token
           /\ Agents!Reads(f, p).token.scopes = Agents!ScopesOf(f)
           /\ Agents!Reads(f, p).token.owner = f.owner
           /\ (\E q \in Request : Agents!At(q, "replace")) => Agents!Reads(f, p).token.late
<1>1. f.attempt = None \/ f.attempt.id \in 1 .. MaxAttempt
  BY DEF Agents!Flow, Agents!Attempt
<1>2. f.version \in 1 .. MaxVersion /\ f.owner \in Agents!Owner
  BY DEF Agents!Flow
<1>3. Agents!Reads(f, p).token \in Agents!Token
  BY <1>2 DEF Agents!Reads, Agents!Token, Agents!ScopesOf
<1> QED
  BY <1>1, <1>2, <1>3 DEF Agents!Reads, Agents!Work

\* Only a request that works has a place, a version and a token.
LEMMA AgentAt ==
    ASSUME Agents!TypeOK, NEW r \in Request, NEW p, Agents!At(r, p)
    PROVE  agWork[r] \in Agents!Work /\ agWork[r].pc = p
BY DEF Agents!TypeOK, Agents!At

\* Replacing a registration keeps its type below the bound of the versions.
LEMMA ReplacedTyped ==
    ASSUME Agents!TypeOK, flow # None, Agents!CanReplace
    PROVE  /\ Agents!Replaced(flow) \in Agents!Flow
           /\ \A f \in Agents!Flow : f.kind = Agents!Replaced(flow).kind <=> f.kind = flow.kind
           /\ Agents!Replaced(flow).status = flow.status
<1>1. flow \in Agents!Flow /\ flow.version + 1 \in 1 .. MaxVersion
  BY AccessAssumption DEF Agents!TypeOK, Agents!CanReplace, Agents!Flow
<1> QED
  BY <1>1 DEF Agents!Replaced, Agents!Flow

\* A new ceremony keeps the type of the registration, its kind and its status.
LEMMA CeremonyTyped ==
    ASSUME Agents!TypeOK, NEW f \in Agents!Flow, Agents!Ceremony(f)
    PROVE  /\ flow' \in Agents!Flow /\ flow'.kind = f.kind /\ flow'.status = f.status
           /\ nextAttempt' \in 1 .. MaxAttempt + 1
<1>1. [id |-> nextAttempt, attempts |-> 0, live |-> TRUE] \in Agents!Attempt
  BY AccessAssumption DEF Agents!TypeOK, Agents!Ceremony, Agents!Attempt
<1>2. PICK a \in Agents!Attempt : flow' = [f EXCEPT !.attempt = a]
  BY <1>1 DEF Agents!Ceremony
<1>3. nextAttempt' \in 1 .. MaxAttempt + 1
  BY AccessAssumption DEF Agents!Ceremony, Agents!TypeOK
<1> QED
  BY <1>2, <1>3 DEF Agents!Flow

\* A registration that is created has its type, and an anonymous one is not claimed.
LEMMA CreatedTyped ==
    ASSUME NEW kind \in {"anonymous", "service_auth", "identity_assertion"},
           NEW user \in Pair \cup One \cup {None}, user \in Agents!Owner
    PROVE  /\ Agents!Created(kind, user) \in Agents!Flow
           /\ Agents!Created(kind, user).kind = kind
BY AccessAssumption DEF Agents!Created, Agents!Flow, Agents!Owner

\* Every step keeps the types of the registration, its tokens and its requests.
LEMMA AgentsTypeNext ==
    ASSUME AgentsInv, [Agents!Next]_agVars
    PROVE  /\ Agents!TypeOK'
           /\ flow' = None =>
              agTokens' = {} /\ assertions' = {} /\ \A r \in Request : agWork'[r] = None
<1> DEFINE Empty == flow = None => agTokens = {} /\ assertions = {} /\ \A r \in Request : agWork[r] = None
<1>0. Agents!TypeOK /\ Empty
  BY DEF AgentsInv
<1> SUFFICES Agents!TypeOK' /\ Empty'
  OBVIOUS
<1> HIDE DEF Empty
<1>a. flow # None => flow \in Agents!Flow
  BY <1>0 DEF Agents!TypeOK
<1>b. ASSUME NEW r \in Request, agWork[r] # None PROVE agWork[r] \in Agents!Work /\ flow # None
  BY <1>0, <1>b DEF Agents!TypeOK, Empty
<1>c. ASSUME flow' \in Agents!Flow PROVE Empty'
  BY <1>c, AccessAssumption DEF Empty
<1>1. ASSUME NEW r \in Request, NEW kind \in {"anonymous", "service_auth"}, Agents!Start(r, kind)
      PROVE  Agents!TypeOK' /\ Empty'
  <2>1. Agents!Created(kind, None) \in Agents!Flow
    BY CreatedTyped DEF Agents!Owner
  <2>2. flow' \in Agents!Flow /\ nextAttempt' \in 1 .. MaxAttempt + 1
    BY <1>1, <1>0, <2>1, CeremonyTyped DEF Agents!Start, Agents!StartsActive, Agents!TypeOK
  <2>3. agWork' \in [Request -> Agents!Work \cup {None}]
    BY <1>1, <1>0, <2>1, ReadsTyped DEF Agents!Start, Agents!StartsActive, Agents!TypeOK
  <2> QED
    BY <1>1, <1>0, <2>2, <2>3, <1>c DEF Agents!Start, Agents!TypeOK, Agents!principals
<1>2. ASSUME NEW r \in Request, NEW user \in Agents!Owner, Agents!StartVerified(r, user)
      PROVE  Agents!TypeOK' /\ Empty'
  <2>1. /\ Agents!Created("identity_assertion", user) \in Agents!Flow
        /\ Agents!Created("identity_assertion", None) \in Agents!Flow
    BY CreatedTyped DEF Agents!Owner
  <2>2. flow' \in Agents!Flow /\ nextAttempt' \in 1 .. MaxAttempt + 1
    BY <1>2, <1>0, <2>1, CeremonyTyped DEF Agents!StartVerified, Agents!StartsActive, Agents!TypeOK
  <2>3. agWork' \in [Request -> Agents!Work \cup {None}]
    BY <1>2, <1>0, <2>1, ReadsTyped DEF Agents!StartVerified, Agents!StartsActive, Agents!TypeOK
  <2> QED
    BY <1>2, <1>0, <2>2, <2>3, <1>c DEF Agents!StartVerified, Agents!TypeOK, Agents!principals
<1>3. ASSUME NEW r \in Request, Agents!Activate(r) \/ Agents!SaveDelegation(r)
      PROVE  Agents!TypeOK' /\ Empty'
  <2>1. agWork[r] \in Agents!Work /\ flow # None
    BY <1>3, <1>b DEF Agents!Activate, Agents!SaveDelegation, Agents!At
  <2>2. 1 \in 1 .. MaxVersion
    BY AccessAssumption
  <2>3. assertions' \in {assertions, assertions \cup {1}}
    BY <1>3 DEF Agents!Activate, Agents!SaveDelegation, Agents!Signed
  <2>4. agWork' = [agWork EXCEPT ![r] = None] \/ agWork' = [agWork EXCEPT ![r].pc = "delegate"]
    BY <1>3 DEF Agents!Activate, Agents!SaveDelegation, Agents!Ends, Agents!On
  <2>5. agWork' \in [Request -> Agents!Work \cup {None}]
    BY <1>0, <2>1, <2>4 DEF Agents!TypeOK, Agents!Work
  <2>6. registered' \in {"pre", "post", None} /\ delegations' \subseteq Agents!Owner
    BY <1>3, <1>0, <2>1
    DEF Agents!Activate, Agents!SaveDelegation, Agents!TypeOK, Agents!Work, Agents!Token
  <2>7. flow' = flow /\ nextAttempt' = nextAttempt /\ agTokens' = agTokens
    BY <1>3 DEF Agents!Activate, Agents!SaveDelegation
  <2> QED
    BY <1>0, <1>c, <2>1, <2>2, <2>3, <2>5, <2>6, <2>7 DEF Agents!TypeOK, Empty
<1>4. ASSUME Agents!Reassert PROVE Agents!TypeOK' /\ Empty'
  BY <1>4, <1>0, <1>a DEF Agents!Reassert, Agents!TypeOK, Agents!Flow, Empty, Agents!principals
<1>5. ASSUME Agents!BeginClaim PROVE Agents!TypeOK' /\ Empty'
  <2>1. flow' \in Agents!Flow /\ nextAttempt' \in 1 .. MaxAttempt + 1
    BY <1>5, <1>0, ReplacedTyped, CeremonyTyped DEF Agents!BeginClaim
  <2> QED
    BY <1>5, <1>0, <2>1, <1>c DEF Agents!BeginClaim, Agents!TypeOK, Agents!principals
<1>6. ASSUME Agents!WrongCode PROVE Agents!TypeOK' /\ Empty'
  <2>1. flow \in Agents!Flow /\ flow.attempt \in Agents!Attempt /\ Agents!Replaced(flow) \in Agents!Flow
    BY <1>6, <1>a, <1>0, ReplacedTyped DEF Agents!WrongCode, Agents!OpenAttempt, Agents!Flow
  <2>2. flow' \in Agents!Flow
    <3>1. CASE flow.attempt.attempts + 1 >= MaxCodeAttempts
      BY <1>6, <2>1, <3>1 DEF Agents!WrongCode, Agents!Flow
    <3>2. CASE ~(flow.attempt.attempts + 1 >= MaxCodeAttempts)
      <4>1. flow.attempt.attempts + 1 \in 0 .. MaxCodeAttempts - 1
        BY <2>1, <3>2, AccessAssumption DEF Agents!Attempt
      <4>2. Agents!Replaced(flow).attempt = flow.attempt
        BY <2>1 DEF Agents!Replaced, Agents!Flow
      <4>3. flow' = [Agents!Replaced(flow) EXCEPT !.attempt.attempts = @ + 1]
        BY <1>6, <3>2 DEF Agents!WrongCode
      <4> QED
        BY <2>1, <4>1, <4>2, <4>3 DEF Agents!Flow, Agents!Attempt
    <3> QED
      BY <3>1, <3>2
  <2> QED
    BY <1>6, <1>0, <2>2, <1>c DEF Agents!WrongCode, Agents!TypeOK, Agents!principals
<1>7. ASSUME NEW r \in Request, NEW user \in One, Agents!CompleteClaim(r, user)
      PROVE  Agents!TypeOK' /\ Empty'
  <2>1. flow \in Agents!Flow
    BY <1>7, <1>a DEF Agents!CompleteClaim, Agents!OpenAttempt
  <2>2. Agents!Reads(flow, "retire") \in Agents!Work
    BY <2>1, ReadsTyped
  <2>3. agWork' \in [Request -> Agents!Work \cup {None}]
    BY <1>7, <1>0, <2>2 DEF Agents!CompleteClaim, Agents!TypeOK, Agents!Work, Agents!Token, Agents!Owner
  <2> QED
    BY <1>7, <1>0, <2>1, <2>3, <1>c DEF Agents!CompleteClaim, Agents!TypeOK, Agents!principals
<1>8. ASSUME NEW r \in Request, Agents!Revoke(r) PROVE Agents!TypeOK' /\ Empty'
  <2>1. flow \in Agents!Flow
    BY <1>8, <1>a DEF Agents!Revoke
  <2>2. Agents!Reads(flow, "retire") \in Agents!Work
    BY <2>1, ReadsTyped
  <2>3. agWork' \in [Request -> Agents!Work \cup {None}]
    BY <1>8, <1>0, <2>2 DEF Agents!Revoke, Agents!TypeOK, Agents!Work, Agents!Token, Agents!Owner
  <2> QED
    BY <1>8, <1>0, <2>1, <2>3, <1>c DEF Agents!Revoke, Agents!TypeOK, Agents!principals
<1>9. ASSUME NEW r \in Request, Agents!Retire(r) PROVE Agents!TypeOK' /\ Empty'
  <2>1. \A q \in Request : agWork[q] # None => agWork[q] \in Agents!Work /\ flow # None
    BY <1>b
  <2>2. flow \in Agents!Flow /\ agTokens' \subseteq Agents!Token
    BY <1>9, <1>0, <1>a, <1>b DEF Agents!Retire, Agents!Retired, Agents!At, Agents!TypeOK
  <2>3. ASSUME NEW q \in Request
        PROVE  (IF q = r THEN [agWork[q] EXCEPT !.pc = "replace"]
                ELSE IF Agents!At(q, "issue") THEN [agWork[q] EXCEPT !.token.late = TRUE]
                ELSE agWork[q]) \in Agents!Work \cup {None}
    <3>1. CASE agWork[q] = None
      BY <1>9, <3>1 DEF Agents!Retire, Agents!At
    <3>2. CASE agWork[q] # None
      <4>1. agWork[q] \in Agents!Work
        BY <2>1, <3>2
      <4> QED
        BY <4>1 DEF Agents!Work, Agents!Token
    <3> QED
      BY <3>1, <3>2
  <2>4. agWork' \in [Request -> Agents!Work \cup {None}]
    BY <1>9, <2>3 DEF Agents!Retire
  <2> QED
    BY <1>9, <1>0, <2>2, <2>4, <1>c DEF Agents!Retire, Agents!TypeOK, Agents!principals
<1>10. ASSUME NEW r \in Request, Agents!Replace(r) PROVE Agents!TypeOK' /\ Empty'
  <2>1. agWork[r] \in Agents!Work /\ flow \in Agents!Flow /\ flow # None
    BY <1>10, <1>a, <1>b DEF Agents!Replace, Agents!At
  <2>2. CASE Agents!SameVersion(r)
    <3>1. Agents!Replaced(flow) \in Agents!Flow
      BY <1>10, <1>0, <2>1, <2>2, ReplacedTyped DEF Agents!Replace
    <3>2. flow' \in Agents!Flow
      <4>1. agWork[r].token.owner \in Agents!Owner
        BY <2>1 DEF Agents!Work, Agents!Token
      <4>2. \A f \in Agents!Flow, status \in {"claimed", "revoked"}, owner1 \in Agents!Owner :
                [f EXCEPT !.attempt = None, !.status = status, !.owner = owner1] \in Agents!Flow
        BY DEF Agents!Flow
      <4>3. PICK f \in Agents!Flow : f = Agents!Replaced(flow) /\ f.owner \in Agents!Owner
        BY <3>1 DEF Agents!Flow
      <4>4. CASE Agents!Revoking(r)
        <5>1. flow' = [f EXCEPT !.attempt = None, !.status = "revoked", !.owner = f.owner]
          BY <1>10, <2>2, <4>3, <4>4 DEF Agents!Replace
        <5> QED
          BY <4>2, <4>3, <5>1
      <4>5. CASE ~Agents!Revoking(r)
        <5>1. flow' = [f EXCEPT !.attempt = None, !.status = "claimed",
                                !.owner = agWork[r].token.owner]
          BY <1>10, <2>2, <4>3, <4>5 DEF Agents!Replace
        <5> QED
          BY <4>1, <4>2, <5>1
      <4> QED
        BY <4>4, <4>5
    <3>3. agWork' \in [Request -> Agents!Work \cup {None}]
      BY <1>10, <1>0, <2>1, <2>2 DEF Agents!Replace, Agents!Ends, Agents!On, Agents!TypeOK, Agents!Work
    <3> QED
      BY <1>10, <1>0, <3>2, <3>3, <1>c DEF Agents!Replace, Agents!TypeOK, Agents!principals
  <2>3. CASE ~Agents!SameVersion(r)
    <3>1. flow.version \in 1 .. MaxVersion
      BY <2>1 DEF Agents!Flow
    <3>2. /\ flow' = flow
          /\ \/ agWork' = [agWork EXCEPT ![r].version = flow.version, ![r].pc = "retire"]
             \/ agWork' = [agWork EXCEPT ![r] = None]
      BY <1>10, <2>3 DEF Agents!Replace, Agents!Ends
    <3>3. agWork' \in [Request -> Agents!Work \cup {None}]
      BY <1>0, <2>1, <3>1, <3>2 DEF Agents!TypeOK, Agents!Work
    <3> QED
      BY <1>10, <1>0, <2>1, <3>2, <3>3, <1>c DEF Agents!Replace, Agents!TypeOK, Agents!principals
  <2> QED
    BY <2>2, <2>3
<1>11. ASSUME NEW r \in Request, Agents!ReadBack(r) PROVE Agents!TypeOK' /\ Empty'
  <2>1. agWork[r] \in Agents!Work /\ flow \in Agents!Flow /\ flow # None
    BY <1>11, <1>a, <1>b DEF Agents!ReadBack, Agents!At
  <2>2. agWork' \in [Request -> Agents!Work \cup {None}]
    BY <1>11, <1>0, <2>1 DEF Agents!ReadBack, Agents!TypeOK, Agents!Work, Agents!Flow, Agents!Token
  <2> QED
    BY <1>11, <1>0, <2>1, <2>2, <1>c DEF Agents!ReadBack, Agents!TypeOK, Agents!principals
<1>12. ASSUME Agents!PollPending PROVE Agents!TypeOK' /\ Empty'
  <2>1. flow' \in Agents!Flow
    BY <1>12, <1>0, ReplacedTyped DEF Agents!PollPending, Agents!Flow
  <2> QED
    BY <1>12, <1>0, <2>1, <1>c DEF Agents!PollPending, Agents!TypeOK, Agents!principals
<1>13. ASSUME NEW r \in Request, Agents!PollClaimed(r) PROVE Agents!TypeOK' /\ Empty'
  <2>1. flow \in Agents!Flow
    BY <1>13, <1>a DEF Agents!PollClaimed
  <2>2. Agents!Reads(flow, "issue") \in Agents!Work /\ flow.version \in 1 .. MaxVersion
    BY <2>1, ReadsTyped DEF Agents!Flow
  <2> QED
    BY <1>13, <1>0, <2>1, <2>2, <1>c DEF Agents!PollClaimed, Agents!TypeOK, Agents!principals
<1>14. ASSUME NEW r \in Request, NEW v \in 1 .. MaxVersion, Agents!Exchange(r, v)
       PROVE  Agents!TypeOK' /\ Empty'
  <2>1. flow \in Agents!Flow
    BY <1>14, <1>0, <1>a DEF Agents!Exchange, Empty
  <2>2. Agents!Reads(flow, "issue") \in Agents!Work
    BY <2>1, ReadsTyped
  <2> QED
    BY <1>14, <1>0, <2>1, <2>2, <1>c DEF Agents!Exchange, Agents!TypeOK, Agents!principals
<1>15. ASSUME NEW r \in Request, Agents!Issue(r) PROVE Agents!TypeOK' /\ Empty'
  <2>1. agWork[r].token \in Agents!Token /\ flow # None
    BY <1>15, <1>b DEF Agents!Issue, Agents!At, Agents!Work
  <2> QED
    BY <1>15, <1>0, <2>1 DEF Agents!Issue, Agents!Ends, Agents!TypeOK, Agents!principals, Empty
<1>16. ASSUME NEW r \in Request, Agents!Throws(r) PROVE Agents!TypeOK' /\ Empty'
  BY <1>16, <1>0 DEF Agents!Throws, Agents!Ends, Agents!TypeOK, Agents!principals, Empty
<1>17. ASSUME Agents!TimePasses PROVE Agents!TypeOK' /\ Empty'
  <2>1. flow \in Agents!Flow /\ flow # None
    BY <1>17, <1>a DEF Agents!TimePasses
  <2>2. Agents!OpenAttempt => flow.attempt \in Agents!Attempt
    BY <2>1 DEF Agents!OpenAttempt, Agents!Flow
  <2>3. flow' \in Agents!Flow
    <3>1. CASE flow' = [flow EXCEPT !.expired = TRUE]
      BY <2>1, <3>1 DEF Agents!Flow
    <3>2. CASE Agents!OpenAttempt /\ flow' = [flow EXCEPT !.attempt.live = FALSE]
      <4>1. [flow.attempt EXCEPT !.live = FALSE] \in Agents!Attempt
        BY <2>2, <3>2 DEF Agents!Attempt
      <4>2. flow' = [flow EXCEPT !.attempt = [flow.attempt EXCEPT !.live = FALSE]]
        BY <2>1, <3>2 DEF Agents!Flow
      <4> QED
        BY <2>1, <4>1, <4>2 DEF Agents!Flow
    <3>3. CASE flow' = [flow EXCEPT !.polled = FALSE]
      BY <2>1, <3>3 DEF Agents!Flow
    <3> QED
      BY <1>17, <2>1, <3>1, <3>2, <3>3 DEF Agents!TimePasses
  <2>4. assertions' \subseteq 1 .. MaxVersion /\ agTokens' \subseteq Agents!Token
    BY <1>17, <1>0 DEF Agents!TimePasses, Agents!TypeOK
  <2> QED
    BY <1>17, <1>0, <2>3, <2>4, <1>c DEF Agents!TimePasses, Agents!TypeOK, Agents!principals
<1>18. CASE UNCHANGED agVars
  BY <1>18, <1>0 DEF agVars, Agents!TypeOK, Empty
<1> QED
  BY <1>1, <1>2, <1>3, <1>4, <1>5, <1>6, <1>7, <1>8, <1>9, <1>10, <1>11, <1>12, <1>13, <1>14,
     <1>15, <1>16, <1>17, <1>18 DEF Agents!Next

\* What a request to issue read is excused, if a request has retired the tokens.
LEMMA IssueRead ==
    ASSUME flow \in Agents!Flow, HasRetired
    PROVE  Excused(Agents!Reads(flow, "issue").token)
BY ReadsTyped DEF HasRetired, Excused, Agents!ScopesOf

\* No step makes a token from before the claim live beyond it, unless its request was under way.
LEMMA AgentsRetiredNext ==
    ASSUME AgentsInv, [Agents!Next]_agVars
    PROVE  RetiredStay'
<1>0. Agents!TypeOK /\ RetiredStay
  BY DEF AgentsInv
<1>a. flow # None => flow \in Agents!Flow
  BY <1>0 DEF Agents!TypeOK
<1>b. ASSUME NEW r \in Request, agWork[r] # None PROVE agWork[r] \in Agents!Work /\ flow # None
  BY <1>b DEF AgentsInv, Agents!TypeOK
<1>c. agWork \in [Request -> Agents!Work \cup {None}]
  BY <1>0 DEF Agents!TypeOK
<1>d. ASSUME HasRetired' => HasRetired, agTokens' \subseteq agTokens,
             \A q \in Request : Agents!At(q, "issue")' =>
                 \/ Agents!At(q, "issue") /\ agWork'[q].token = agWork[q].token
                 \/ HasRetired => Excused(agWork'[q].token)
      PROVE  RetiredStay'
  BY <1>0, <1>d DEF RetiredStay, Excused
<1>1. ASSUME NEW r \in Request, NEW kind \in {"anonymous", "service_auth"}, Agents!Start(r, kind)
      PROVE  RetiredStay'
  <2>1. \A q \in Request : agWork[q] = None
    BY <1>1 DEF AgentsInv, Agents!Start
  <2>2. CASE kind = "anonymous"
    <3>1. flow' = Agents!Created("anonymous", None)
      BY <1>1, <2>2 DEF Agents!Start, Agents!StartsActive
    <3>2. agWork' = [agWork EXCEPT ![r] = Agents!Reads(Agents!Created("anonymous", None), "activate")]
      BY <1>1, <2>2 DEF Agents!Start, Agents!StartsActive
    <3>3. Agents!Reads(Agents!Created("anonymous", None), "activate").pc = "activate"
      BY DEF Agents!Reads
    <3>4. \A q \in Request : ~Agents!At(q, "replace")'
      BY <2>1, <3>2, <3>3, <1>c DEF Agents!At
    <3> QED
      BY <3>1, <3>4 DEF RetiredStay, HasRetired, Agents!Created
  <2>3. CASE kind = "service_auth"
    <3>1. Agents!Created(kind, None) \in Agents!Flow /\ Agents!Created(kind, None).kind = kind
      BY CreatedTyped DEF Agents!Owner
    <3>2. flow'.kind = kind
      BY <1>1, <2>3, <3>1, <1>0, CeremonyTyped DEF Agents!Start
    <3> QED
      BY <2>3, <3>2 DEF RetiredStay, HasRetired
  <2> QED
    BY <2>2, <2>3
<1>10. ASSUME NEW r \in Request, NEW user \in Agents!Owner, Agents!StartVerified(r, user)
       PROVE  RetiredStay'
  <2>1. \A u \in Agents!Owner : /\ Agents!Created("identity_assertion", u) \in Agents!Flow
                                /\ Agents!Created("identity_assertion", u).kind = "identity_assertion"
    BY CreatedTyped DEF Agents!Owner
  <2>2. flow'.kind = "identity_assertion"
    BY <1>10, <2>1, <1>0, CeremonyTyped DEF Agents!StartVerified, Agents!StartsActive, Agents!Owner
  <2> QED
    BY <2>2 DEF RetiredStay, HasRetired
<1>2. ASSUME NEW r \in Request, \/ Agents!Activate(r) \/ Agents!SaveDelegation(r)
                               \/ Agents!ReadBack(r) \/ Agents!Throws(r)
      PROVE  RetiredStay'
  <2>1. agTokens' = agTokens /\ flow' = flow
    BY <1>2
    DEF Agents!Activate, Agents!SaveDelegation, Agents!ReadBack, Agents!Throws, Agents!principals
  <2>2. ASSUME NEW q \in Request, NEW p \in {"replace", "issue"}, Agents!At(q, p)'
        PROVE  Agents!At(q, p) /\ agWork'[q].token = agWork[q].token
    BY <1>2, <1>c, <2>2, AgentAt, <1>0
    DEF Agents!Activate, Agents!SaveDelegation, Agents!ReadBack, Agents!Throws, Agents!Ends,
        Agents!On, Agents!At, Agents!Work
  <2>3. HasRetired' => HasRetired
    BY <2>1, <2>2 DEF HasRetired
  <2> QED
    BY <2>1, <2>2, <2>3, <1>d
<1>3. ASSUME Agents!Reassert \/ Agents!BeginClaim \/ Agents!WrongCode \/ Agents!PollPending
             \/ Agents!TimePasses
      PROVE  RetiredStay'
  <2>1. flow # None /\ flow \in Agents!Flow
    BY <1>3, <1>a DEF Agents!Reassert, Agents!BeginClaim, Agents!WrongCode, Agents!PollPending,
                      Agents!TimePasses, Agents!OpenAttempt
  <2>2. flow'.kind = flow.kind /\ flow'.status = flow.status
    <3>1. CASE Agents!Reassert
      BY <3>1 DEF Agents!Reassert
    <3>2. CASE Agents!BeginClaim
      BY <3>2, <2>1, <1>0, ReplacedTyped, CeremonyTyped DEF Agents!BeginClaim
    <3>3. CASE Agents!WrongCode
      BY <3>3, <2>1 DEF Agents!WrongCode, Agents!Replaced, Agents!Flow
    <3>4. CASE Agents!PollPending
      BY <3>4, <2>1 DEF Agents!PollPending, Agents!Replaced, Agents!Flow
    <3>5. CASE Agents!TimePasses
      BY <3>5, <2>1 DEF Agents!TimePasses, Agents!Flow
    <3> QED
      BY <1>3, <3>1, <3>2, <3>3, <3>4, <3>5
  <2>3. agWork' = agWork /\ agTokens' \subseteq agTokens
    BY <1>3 DEF Agents!Reassert, Agents!BeginClaim, Agents!WrongCode, Agents!PollPending,
                Agents!TimePasses
  <2>4. HasRetired' => HasRetired
    BY <2>1, <2>2, <2>3 DEF HasRetired, Agents!At
  <2>5. \A q \in Request : Agents!At(q, "issue")' => Agents!At(q, "issue") /\ agWork'[q].token = agWork[q].token
    BY <2>3 DEF Agents!At
  <2> QED
    BY <2>3, <2>4, <2>5, <1>d
<1>4. ASSUME NEW r \in Request, (\E user \in One : Agents!CompleteClaim(r, user)) \/ Agents!Revoke(r)
      PROVE  RetiredStay'
  <2>1. flow' = flow /\ agTokens' = agTokens
    BY <1>4 DEF Agents!CompleteClaim, Agents!Revoke, Agents!principals
  <2>2. PICK w : agWork' = [agWork EXCEPT ![r] = w] /\ w.pc = "retire"
    <3>1. flow \in Agents!Flow
      BY <1>4, <1>a DEF Agents!CompleteClaim, Agents!OpenAttempt, Agents!Revoke
    <3>2. Agents!Reads(flow, "retire") \in Agents!Work /\ Agents!Reads(flow, "retire").pc = "retire"
      BY <3>1, ReadsTyped
    <3>3. ASSUME NEW user \in One, Agents!CompleteClaim(r, user)
          PROVE  \E w : agWork' = [agWork EXCEPT ![r] = w] /\ w.pc = "retire"
      <4>1. [Agents!Reads(flow, "retire") EXCEPT !.token.owner = user, !.token.scopes = "post"].pc = "retire"
        BY <3>2 DEF Agents!Work
      <4> QED
        BY <3>3, <4>1 DEF Agents!CompleteClaim
    <3>4. ASSUME Agents!Revoke(r)
          PROVE  \E w : agWork' = [agWork EXCEPT ![r] = w] /\ w.pc = "retire"
      <4>1. [Agents!Reads(flow, "retire") EXCEPT !.attempt = None, !.token.owner = None].pc = "retire"
        BY <3>2 DEF Agents!Work
      <4> QED
        BY <3>4, <4>1 DEF Agents!Revoke
    <3> QED
      BY <1>4, <3>3, <3>4
  <2>3. ASSUME NEW q \in Request, NEW p \in {"replace", "issue"}, Agents!At(q, p)'
        PROVE  Agents!At(q, p) /\ agWork'[q].token = agWork[q].token
    BY <2>2, <2>3, <1>c DEF Agents!At
  <2>4. HasRetired' => HasRetired
    BY <2>1, <2>3 DEF HasRetired
  <2> QED
    BY <2>1, <2>3, <2>4, <1>d
<1>5. ASSUME NEW r \in Request, Agents!Retire(r) PROVE RetiredStay'
  <2>1. flow' = flow /\ (HasRetired' => agTokens' = {})
    BY <1>5 DEF Agents!Retire, Agents!Retired, HasRetired
  <2>2. ASSUME NEW q \in Request, Agents!At(q, "issue")' PROVE Excused(agWork'[q].token)
    <3>1. q # r
      BY <1>5, <2>2, <1>0, AgentAt DEF Agents!Retire, Agents!At, Agents!Work
    <3>2. agWork'[q] = IF Agents!At(q, "issue") THEN [agWork[q] EXCEPT !.token.late = TRUE] ELSE agWork[q]
      BY <1>5, <3>1 DEF Agents!Retire
    <3>3. Agents!At(q, "issue") /\ agWork[q] \in Agents!Work
      BY <2>2, <3>2, <1>b DEF Agents!At
    <3> QED
      BY <3>2, <3>3 DEF Excused, Agents!Work, Agents!Token
  <2> QED
    BY <2>1, <2>2 DEF RetiredStay
<1>6. ASSUME NEW r \in Request, Agents!Replace(r) PROVE RetiredStay'
  <2>1. Agents!At(r, "replace") /\ flow # None /\ flow \in Agents!Flow /\ agTokens' = agTokens
    BY <1>6, <1>a, <1>b DEF Agents!Replace, Agents!At
  <2>2. flow'.kind = flow.kind
    BY <1>6, <2>1 DEF Agents!Replace, Agents!Replaced, Agents!Flow
  <2>3. HasRetired' => HasRetired
    BY <2>1, <2>2 DEF HasRetired
  <2>4. ASSUME NEW q \in Request, Agents!At(q, "issue")'
        PROVE  Agents!At(q, "issue") /\ agWork'[q].token = agWork[q].token
    BY <1>6, <2>1, <2>4, <1>c, <1>b
    DEF Agents!Replace, Agents!Ends, Agents!On, Agents!At, Agents!Work
  <2> QED
    BY <2>1, <2>3, <2>4, <1>d
<1>7. ASSUME NEW r \in Request, NEW v, Agents!PollClaimed(r) \/ Agents!Exchange(r, v)
      PROVE  RetiredStay'
  <2>1. flow' = flow /\ flow \in Agents!Flow /\ agTokens' = agTokens
    BY <1>7, <1>a DEF AgentsInv, Agents!PollClaimed, Agents!Exchange, Agents!principals
  <2>2. agWork' = [agWork EXCEPT ![r] = Agents!Reads(flow, "issue")]
    BY <1>7 DEF Agents!PollClaimed, Agents!Exchange
  <2>3. Agents!Reads(flow, "issue").pc = "issue"
    BY DEF Agents!Reads
  <2>4. HasRetired' => HasRetired
    BY <2>1, <2>2, <2>3, <1>c DEF HasRetired, Agents!At
  <2>5. ASSUME NEW q \in Request, Agents!At(q, "issue")', q # r
        PROVE  Agents!At(q, "issue") /\ agWork'[q].token = agWork[q].token
    BY <2>2, <2>5, <1>c DEF Agents!At
  <2>6. HasRetired => Excused(agWork'[r].token)
    BY <2>1, <2>2, <1>c, IssueRead
  <2> QED
    BY <2>1, <2>4, <2>5, <2>6, <1>d
<1>8. ASSUME NEW r \in Request, Agents!Issue(r) PROVE RetiredStay'
  <2>1. flow' = flow /\ Agents!At(r, "issue") /\ agTokens' = agTokens \cup {agWork[r].token}
    BY <1>8 DEF Agents!Issue
  <2>2. \A q \in Request : agWork'[q] = None \/ agWork'[q] = agWork[q]
    BY <1>8, <1>c DEF Agents!Issue, Agents!Ends
  <2>3. HasRetired' => HasRetired
    BY <2>1, <2>2 DEF HasRetired, Agents!At
  <2> QED
    BY <2>1, <2>2, <2>3, <1>0 DEF RetiredStay, Agents!At, Excused
<1>9. CASE UNCHANGED agVars
  BY <1>9, <1>0 DEF agVars, RetiredStay, HasRetired, Agents!At
<1> QED
  BY <1>1, <1>2, <1>3, <1>4, <1>5, <1>6, <1>7, <1>8, <1>9, <1>10 DEF Agents!Next

\* Every step of AgentRegistration keeps its invariant.
LEMMA AgentsNext == AgentsInv /\ [Agents!Next]_agVars => AgentsInv'
BY AgentsTypeNext, AgentsRetiredNext DEF AgentsInv

-------------------------------------------------------------------------------
(* Scim.                                                                      *)

\* Before anything is provisioned, nothing was asked for.
LEMMA ScimInit == Scim!Init => ScimInv
BY DEF Scim!Init, ScimInv, Scim!TypeOK, Scim!At, Scim!KeepsWhatWasAsked

\* The merge of applyPatch gives a user, and what the operation says, unless it was to remove.
LEMMA UserPatch ==
    ASSUME NEW x \in Scim!UserInput, NEW o \in Scim!Operation, o.kind = "user"
    PROVE  /\ Scim!Patched(x, o) \in Scim!UserInput /\ Scim!Meant(x, o) \in Scim!UserInput
           /\ ~Scim!Misread(o) => Scim!Patched(x, o) = Scim!Meant(x, o)
<1>1. CASE o \in [kind : {"user"}, op : {"replace", "remove"}, path : {"active"}, value : BOOLEAN]
  BY <1>1 DEF Scim!UserInput, Scim!Patched, Scim!PatchedUser, Scim!Meant, Scim!Misread
<1>2. CASE o \in [kind : {"user"}, op : {"replace", "remove"}, path : {"name"}, value : Pair]
  BY <1>2 DEF Scim!UserInput, Scim!Patched, Scim!PatchedUser, Scim!Meant, Scim!Misread
<1>3. CASE o \in [kind : {"user"}, op : {"replace"}, path : {"none"}, value : Scim!UserInput]
  BY <1>3 DEF Scim!UserInput, Scim!Patched, Scim!PatchedUser, Scim!Meant, Scim!Misread
<1> QED
  BY <1>1, <1>2, <1>3 DEF Scim!Operation

\* The merge of applyGroupPatch gives a group, and what the operation says, unless it has no path
\* and is not to replace.
LEMMA GroupPatch ==
    ASSUME NEW x \in Scim!Group, NEW o \in Scim!Operation, o.kind = "group"
    PROVE  /\ Scim!Patched(x, o) \in Scim!Group /\ Scim!Meant(x, o) \in Scim!Group
           /\ ~Scim!Misread(o) => Scim!Patched(x, o) = Scim!Meant(x, o)
<1>1. CASE o \in [kind : {"group"}, op : {"add", "replace", "remove"}, path : {"members"},
                  value : SUBSET One]
  <2>1. /\ x.members \subseteq One /\ x.name \in Pair /\ o.value \subseteq One
        /\ o.op \in {"add", "replace", "remove"} /\ o.path = "members"
    BY <1>1 DEF Scim!Group
  <2> DEFINE ms == CASE o.op = "add" -> x.members \cup o.value
                     [] o.op = "remove" -> {}
                     [] o.op = "replace" -> o.value
  <2>2. Scim!Patched(x, o) = [x EXCEPT !.members = ms]
    BY <2>1 DEF Scim!Patched, Scim!PatchedGroup
  <2>3. ms \in SUBSET One
    BY <2>1
  <2>4. ms = {m \in One : CASE o.op = "add" -> m \in x.members \/ m \in o.value
                             [] o.op = "remove" -> FALSE
                             [] o.op = "replace" -> m \in o.value}
    BY <2>1
  <2> HIDE DEF ms
  <2>5. Scim!Meant(x, o) = [members |-> ms, name |-> x.name]
    BY <2>1, <2>4 DEF Scim!Meant
  <2> QED
    BY <2>2, <2>3, <2>5, <2>1 DEF Scim!Group
<1>2. CASE o \in [kind : {"group"}, op : {"add", "replace", "remove"}, path : {"none"},
                  value : SUBSET One]
  <2>1. /\ x.members \subseteq One /\ x.name \in Pair /\ o.value \subseteq One
        /\ o.op \in {"add", "replace", "remove"} /\ o.path = "none"
    BY <1>2 DEF Scim!Group
  <2>2. Scim!Patched(x, o) = [x EXCEPT !.members = o.value]
    BY <2>1 DEF Scim!Patched, Scim!PatchedGroup
  <2> DEFINE ms == {m \in One : CASE o.op = "add" -> m \in x.members \/ m \in o.value
                                   [] o.op = "remove" -> FALSE
                                   [] o.op = "replace" -> m \in o.value}
  <2>3. ms \subseteq One /\ (o.op = "replace" => ms = o.value)
    BY <2>1
  <2> HIDE DEF ms
  <2>4. Scim!Meant(x, o) = [members |-> ms, name |-> x.name]
    BY <2>1 DEF Scim!Meant, ms
  <2>5. ~Scim!Misread(o) => o.op = "replace"
    BY <2>1 DEF Scim!Misread
  <2> QED
    BY <2>1, <2>2, <2>3, <2>4, <2>5 DEF Scim!Group
<1>3. CASE o \in [kind : {"group"}, op : {"remove"}, path : {"filter"}, value : One]
  BY <1>3 DEF Scim!Group, Scim!Patched, Scim!PatchedGroup, Scim!Meant, Scim!Misread
<1>4. CASE o \in [kind : {"group"}, op : {"replace"}, path : {"name"}, value : Pair]
  BY <1>4 DEF Scim!Group, Scim!Patched, Scim!PatchedGroup, Scim!Meant, Scim!Misread
<1> QED
  BY <1>1, <1>2, <1>3, <1>4 DEF Scim!Operation

\* Both merges, of what is provisioned.
LEMMA PatchMeans ==
    ASSUME scKind \in {"user", "group"}, NEW x \in Scim!Input, NEW o \in Scim!Operation, o.kind = scKind
    PROVE  /\ Scim!Patched(x, o) \in Scim!Input /\ Scim!Meant(x, o) \in Scim!Input
           /\ ~Scim!Misread(o) => Scim!Patched(x, o) = Scim!Meant(x, o)
BY UserPatch, GroupPatch DEF Scim!Input

\* Every step of a provisioning request keeps what was acknowledged.
LEMMA ScimNext == ScimInv /\ [Scim!Next]_scVars => ScimInv'
<1> SUFFICES ASSUME ScimInv, [Scim!Next]_scVars PROVE ScimInv'
  OBVIOUS
<1>0. Scim!TypeOK /\ scWork \in [Request -> ScimJob \cup {None}] /\ Scim!KeepsWhatWasAsked
     /\ (resource # None => asked \in Scim!Input)
  BY DEF ScimInv
<1>a. \A r \in Request : Scim!At(r, "read") \/ Scim!At(r, "write") =>
          /\ scWork[r] \in ScimJob /\ scWork[r].o \in Scim!Operation /\ scWork[r].o.kind = scKind
          /\ Scim!At(r, "write") => scWork[r].current \in Scim!Input
  BY <1>0 DEF ScimInv, ScimJob, Scim!At
<1>b. \A r \in Request : Scim!At(r, "create") \/ Scim!At(r, "replace") => scWork[r].input \in Scim!Input
  BY <1>0 DEF ScimJob, Scim!At
<1>c. ASSUME NEW r \in Request, NEW w \in ScimJob \cup {None}, scWork' = [scWork EXCEPT ![r] = w],
             w # None /\ w.pc \in {"read", "write"} => w.o.kind = scKind,
             scKind' = scKind, valid' \in BOOLEAN, scExempt' \in BOOLEAN,
             resource' \in Scim!Input \cup {None}, asked' \in Scim!Input \cup {None},
             resource' # None => asked' \in Scim!Input,
             ~scExempt' => resource' = asked'
      PROVE  ScimInv'
  <2>1. Scim!Input' = Scim!Input /\ ScimJob' = ScimJob
    BY <1>c DEF Scim!Input, ScimJob
  <2>2. scWork' \in [Request -> ScimJob \cup {None}]
    BY <1>0, <1>c
  <2>3. ASSUME NEW q \in Request, scWork'[q] # None
        PROVE  scWork'[q].pc \in {"create", "replace", "deactivate", "read", "write"}
    BY <2>2, <2>3 DEF ScimJob
  <2>4. ASSUME NEW q \in Request, scWork'[q] # None, scWork'[q].pc \in {"read", "write"}
        PROVE  scWork'[q].o.kind = scKind
    <3>1. CASE q = r
      BY <1>0, <1>c, <2>4, <3>1
    <3>2. CASE q # r
      <4>1. scWork'[q] = scWork[q]
        BY <1>0, <1>c, <3>2
      <4> QED
        BY <2>4, <4>1, <1>a DEF Scim!At
    <3> QED
      BY <3>1, <3>2
  <2> QED
    BY <1>0, <1>c, <2>1, <2>2, <2>3, <2>4 DEF ScimInv, Scim!TypeOK, Scim!At, Scim!KeepsWhatWasAsked
<1>1. ASSUME NEW r \in Request, Scim!Authorize(r) PROVE ScimInv'
  <2> DEFINE Begins == \E w \in ScimJob : /\ scWork' = [scWork EXCEPT ![r] = w]
                                          /\ w.pc \in {"read", "write"} => w.o.kind = scKind
  <2>1. Begins
    <3>1. ASSUME NEW p \in {"create", "replace"}, NEW i \in Scim!Input, Scim!Begin(r, [pc |-> p, input |-> i])
          PROVE  Begins
      <4>1. [pc |-> p, input |-> i] \in ScimJob
        BY DEF ScimJob
      <4> QED
        BY <3>1, <4>1 DEF Scim!Begin
    <3>2. ASSUME Scim!Begin(r, [pc |-> "deactivate"])
          PROVE  Begins
      <4>1. [pc |-> "deactivate"] \in ScimJob
        BY DEF ScimJob
      <4> QED
        BY <3>2, <4>1 DEF Scim!Begin
    <3>3. ASSUME NEW o \in Scim!Operation, o.kind = scKind, Scim!Begin(r, [pc |-> "read", o |-> o])
          PROVE  Begins
      <4>1. [pc |-> "read", o |-> o] \in ScimJob
        BY DEF ScimJob
      <4> QED
        BY <3>3, <4>1 DEF Scim!Begin
    <3> QED
      <4> HIDE DEF Begins
      <4>1. \/ \E p \in {"create", "replace"}, i \in Scim!Input : Scim!Begin(r, [pc |-> p, input |-> i])
            \/ Scim!Begin(r, [pc |-> "deactivate"])
            \/ \E o \in Scim!Operation : o.kind = scKind /\ Scim!Begin(r, [pc |-> "read", o |-> o])
        BY <1>1 DEF Scim!Authorize
      <4> QED
        BY <3>1, <3>2, <3>3, <4>1
  <2> QED
    BY <1>0, <1>1, <1>c, <2>1 DEF Scim!Authorize, Scim!TypeOK, Scim!KeepsWhatWasAsked
<1>2. ASSUME NEW r \in Request, Scim!Create(r) \/ Scim!Replace(r) PROVE ScimInv'
  BY <1>0, <1>2, <1>b, <1>c
  DEF Scim!Create, Scim!Replace, Scim!Done, Scim!TypeOK, Scim!KeepsWhatWasAsked
<1>3. ASSUME NEW r \in Request, Scim!ReadCurrent(r) PROVE ScimInv'
  <2>1. CASE resource = None
    BY <1>0, <1>3, <1>c, <2>1 DEF Scim!ReadCurrent, Scim!Done, Scim!TypeOK, Scim!KeepsWhatWasAsked
  <2>2. CASE resource # None
    <3>1. [pc |-> "write", o |-> scWork[r].o, current |-> resource] \in ScimJob
      BY <1>0, <1>3, <1>a, <2>2 DEF Scim!ReadCurrent, ScimJob, Scim!TypeOK
    <3> QED
      BY <1>0, <1>3, <1>a, <1>c, <2>2, <3>1 DEF Scim!ReadCurrent, Scim!TypeOK, Scim!KeepsWhatWasAsked
  <2> QED
    BY <2>1, <2>2
<1>4. ASSUME NEW r \in Request, Scim!WritePatched(r) PROVE ScimInv'
  <2>1. CASE resource = None
    BY <1>0, <1>4, <1>c, <2>1 DEF Scim!WritePatched, Scim!Done, Scim!TypeOK, Scim!KeepsWhatWasAsked
  <2>2. CASE resource # None
    <3>1. PICK o \in Scim!Operation, current \in Scim!Input :
             o = scWork[r].o /\ current = scWork[r].current /\ o.kind = scKind
      BY <1>4, <1>a DEF Scim!WritePatched
    <3>2. /\ resource' = Scim!Patched(current, o) /\ asked' = Scim!Meant(asked, o)
          /\ scExempt' = (scExempt \/ resource # current \/ Scim!Misread(o))
      BY <1>4, <2>2, <3>1 DEF Scim!WritePatched
    <3>3. Scim!Patched(current, o) \in Scim!Input /\ Scim!Meant(asked, o) \in Scim!Input
      BY <1>0, <2>2, <3>1, PatchMeans DEF Scim!TypeOK, Scim!Kind
    <3>4. ~scExempt' => resource' = asked'
      BY <1>0, <2>2, <3>1, <3>2, PatchMeans DEF Scim!TypeOK, Scim!Kind, Scim!KeepsWhatWasAsked
    <3>5. scKind' = scKind /\ valid' = valid /\ scWork' = [scWork EXCEPT ![r] = None]
      BY <1>4 DEF Scim!WritePatched, Scim!Done
    <3>6. scExempt' \in BOOLEAN
      BY <3>2
    <3>7. valid' \in BOOLEAN
      BY <1>0, <3>5 DEF Scim!TypeOK
    <3>8. resource' \in Scim!Input /\ asked' \in Scim!Input
      BY <3>2, <3>3
    <3> HIDE DEF ScimInv
    <3> QED
      BY <1>c, <3>4, <3>5, <3>6, <3>7, <3>8
  <2> QED
    BY <2>1, <2>2
<1>5. ASSUME NEW r \in Request, Scim!DeactivateUser(r) \/ Scim!DeleteGroup(r) PROVE ScimInv'
  <2>1. scKind' = scKind /\ valid' = valid /\ scExempt' = scExempt /\ scWork' = [scWork EXCEPT ![r] = None]
    BY <1>5 DEF Scim!DeactivateUser, Scim!DeleteGroup, Scim!Done
  <2>2. CASE Scim!DeleteGroup(r)
    BY <1>0, <2>1, <2>2, <1>c DEF Scim!DeleteGroup, Scim!TypeOK, Scim!KeepsWhatWasAsked
  <2>3. CASE Scim!DeactivateUser(r)
    <3>1. \A x \in Scim!Input : [x EXCEPT !.active = FALSE] \in Scim!Input
      BY <2>3 DEF Scim!DeactivateUser, Scim!Input, Scim!UserInput
    <3>3. /\ resource' = IF resource = None THEN None ELSE [resource EXCEPT !.active = FALSE]
          /\ asked' = IF asked = None THEN None ELSE [asked EXCEPT !.active = FALSE]
      BY <2>3 DEF Scim!DeactivateUser
    <3>2. /\ resource' \in Scim!Input \cup {None} /\ asked' \in Scim!Input \cup {None}
          /\ resource' # None => asked' \in Scim!Input
          /\ ~scExempt' => resource' = asked'
      BY <1>0, <2>1, <3>1, <3>3 DEF Scim!TypeOK, Scim!KeepsWhatWasAsked
    <3> QED
      BY <1>0, <2>1, <3>2, <1>c DEF Scim!TypeOK
  <2> QED
    BY <1>5, <2>2, <2>3
<1>6. ASSUME Scim!DeleteToken PROVE ScimInv'
  BY <1>0, <1>6 DEF Scim!DeleteToken, ScimInv, ScimJob, Scim!Input, Scim!TypeOK, Scim!At, Scim!KeepsWhatWasAsked
<1>7. CASE UNCHANGED scVars
  BY <1>7 DEF scVars, ScimInv, ScimJob, Scim!Input, Scim!TypeOK, Scim!At, Scim!KeepsWhatWasAsked
<1> QED
  BY <1>1, <1>2, <1>3, <1>4, <1>5, <1>6, <1>7 DEF Scim!Next, Scim!CreateUser, Scim!CreateGroup,
     Scim!ReplaceUser, Scim!ReplaceGroup, Scim!PatchUser, Scim!PatchGroup

-------------------------------------------------------------------------------
(* OneTimeProofs.                                                             *)

\* The ticks are numbers, and the clock is one of them.
LEMMA Ticks ==
    /\ Proofs!Time = 0 .. MaxNow /\ Proofs!Time \subseteq Nat /\ 0 \in Proofs!Time
    /\ ProofExpiry \in Nat /\ MaxNow \in Nat /\ Remembered \in Int
    /\ Proofs!TypeOK => otNow \in Proofs!Time
<1>1. ProofExpiry \in Nat /\ MaxNow \in Nat
  BY AccessAssumption
<1>2. Remembered \in Int
  BY <1>1 DEF Remembered
<1>3. Proofs!TypeOK => otNow \in Proofs!Time
  BY DEF Proofs!TypeOK
<1>4. Proofs!Time = 0 .. MaxNow
  BY DEF Proofs!Time
<1> QED
  BY <1>1, <1>2, <1>3, <1>4

\* At first nothing was accepted.
LEMMA OneTimeInit == Proofs!Init => OneTimeInv
<1> SUFFICES ASSUME Proofs!Init PROVE OneTimeInv
  OBVIOUS
<1>1. otAccepted = [t \in Proofs!Time |-> 0] /\ otWork = [r \in Request |-> None] /\ stored = FALSE
      /\ issued = 0 /\ spent = 0 /\ otNow = 0 /\ seen = FALSE
  BY DEF Proofs!Init
<1>2. \A r \in Request : otWork[r] \notin {"ask", "record", "shared"}
  BY <1>1, AccessAssumption
<1>3. Proofs!TypeOK
  <2>1. otAccepted \in [Proofs!Time -> 0 .. 2] /\ issued \in 0 .. 2 /\ spent \in Nat
    BY <1>1
  <2>2. otWork \in [Request -> {"ask", "record", "shared"} \cup {None}]
    BY <1>1
  <2> QED
    BY <1>1, <2>1, <2>2, Ticks DEF Proofs!Init, Proofs!TypeOK
<1>4. PassesOnce
  BY <1>1, Ticks DEF PassesOnce, Proofs!AtMostOnce
<1>5. AcceptedIsSeen /\ TicketsInTime
  BY <1>1 DEF AcceptedIsSeen, TicketsInTime
<1>6. AsksAlone /\ NoTicketAtWork
  BY <1>2 DEF AsksAlone, NoTicketAtWork
<1>7. TicketsCounted
  BY <1>1 DEF TicketsCounted
<1> QED
  BY <1>3, <1>4, <1>5, <1>6, <1>7 DEF OneTimeInv

\* Where a request neither lets something pass nor makes the store forget, issues or takes, the
\* invariant is that of the clock and of the requests.
LEMMA OneTimeKept ==
    ASSUME OneTimeInv, Proofs!TypeOK', otKind' = otKind, consumes' = consumes,
           otAccepted' = otAccepted, otNow' >= otNow, seen => seen', stored' = stored,
           issued' = issued, spent' = spent, NoTicketAtWork', AsksAlone'
    PROVE  OneTimeInv'
<1>1. PassesOnce'
  BY DEF OneTimeInv, PassesOnce, Proofs!AtMostOnce, Remembered
<1>2. AcceptedIsSeen'
  <2> SUFFICES ASSUME NEW t \in Proofs!Time, otAccepted[t] # 0
               PROVE  t <= otNow' /\ (otKind # "ticket" => seen')
    BY DEF AcceptedIsSeen
  <2>1. t \in Nat /\ otNow \in Nat /\ otNow' \in Nat
    <3>1. otNow \in Proofs!Time /\ otNow' \in Proofs!Time
      BY Ticks DEF OneTimeInv, Proofs!TypeOK
    <3> QED
      BY <3>1, Ticks
  <2> QED
    BY <2>1 DEF OneTimeInv, AcceptedIsSeen
<1>3. TicketsInTime' /\ TicketsCounted'
  BY DEF OneTimeInv, TicketsInTime, TicketsCounted
<1> QED
  BY <1>1, <1>2, <1>3 DEF OneTimeInv

\* What has just passed.
LEMMA PassedNow ==
    ASSUME Proofs!TypeOK
    PROVE  /\ Proofs!Passed \in [Proofs!Time -> 0 .. 2]
           /\ \A t \in Proofs!Time : /\ t # otNow => Proofs!Passed[t] = otAccepted[t]
                                     /\ otAccepted[t] = 0 => Proofs!Passed[t] <= 1
           /\ Proofs!Passed[otNow] # 0
<1>1. otAccepted \in [Proofs!Time -> 0 .. 2] /\ otNow \in Proofs!Time
  BY DEF Proofs!TypeOK
<1> PICK f : f = Proofs!Passed
  OBVIOUS
<1> DEFINE n == IF otAccepted[otNow] = 0 THEN 1 ELSE 2
<1>2. f = [otAccepted EXCEPT ![otNow] = n]
  BY DEF Proofs!Passed
<1>3. f \in [Proofs!Time -> 0 .. 2]
  <2>1. n \in 0 .. 2
    OBVIOUS
  <2> QED
    BY <1>1, <1>2, <2>1
<1>4. \A t \in Proofs!Time : f[t] = IF t = otNow THEN n ELSE otAccepted[t]
  BY <1>1, <1>2
<1>5. f[otNow] # 0
  BY <1>1, <1>4
<1>6. ASSUME NEW t \in Proofs!Time, otAccepted[t] = 0 PROVE f[t] <= 1
  <2>1. t = otNow => n = 1
    BY <1>6
  <2>2. f[t] = 1 \/ f[t] = 0
    BY <1>4, <1>6, <2>1
  <2> QED
    BY <2>2
<1> QED
  BY <1>3, <1>4, <1>5, <1>6

\* What is accepted first is accepted once.
LEMMA FirstPass ==
    ASSUME OneTimeInv, otKind # "ticket", otKind' = otKind, otAccepted' = Proofs!Passed,
           otNow <= Remembered => \A t \in Proofs!Time : t <= Remembered => otAccepted[t] = 0
    PROVE  PassesOnce'
<1> SUFFICES ASSUME NEW t \in Proofs!Time, NEW u \in Proofs!Time
             PROVE  /\ t <= Remembered => Proofs!Passed[t] <= 1
                    /\ t <= Remembered /\ u <= Remembered /\ Proofs!Passed[t] = 1
                          /\ Proofs!Passed[u] = 1 => t = u
  BY DEF PassesOnce, Proofs!AtMostOnce, Remembered
<1>1. Proofs!TypeOK /\ PassesOnce /\ otNow \in Nat /\ t \in Nat /\ u \in Nat
  BY Ticks DEF OneTimeInv
<1>2. CASE otNow <= Remembered
  <2>1. /\ t <= Remembered => otAccepted[t] = 0
        /\ u <= Remembered => otAccepted[u] = 0
    BY <1>2
  <2>2. /\ t # otNow => Proofs!Passed[t] = otAccepted[t]
        /\ u # otNow => Proofs!Passed[u] = otAccepted[u]
        /\ otAccepted[t] = 0 => Proofs!Passed[t] <= 1
    BY <1>1, PassedNow
  <2> QED
    BY <2>1, <2>2
<1>3. CASE ~(otNow <= Remembered)
  <2>1. /\ t <= Remembered => Proofs!Passed[t] = otAccepted[t]
        /\ u <= Remembered => Proofs!Passed[u] = otAccepted[u]
    BY <1>1, <1>3, PassedNow
  <2> QED
    BY <1>1, <2>1 DEF PassesOnce, Proofs!AtMostOnce
<1> QED
  BY <1>2, <1>3

\* A store that remembers a proof lets it pass once while it does; one that only answers lets one
\* of those pass that asked alone.
LEMMA RecordedOnce ==
    ASSUME OneTimeInv, NEW r \in Request, Proofs!RecordIfFresh(r)
    PROVE  OneTimeInv'
<1> DEFINE Counts == IF StoreDecides THEN ~Proofs!Remembers ELSE otWork[r] = "record"
<1>0. /\ Proofs!TypeOK /\ otKind # "ticket" /\ otKind' = otKind /\ consumes' = consumes
      /\ otNow' = otNow /\ seen' = TRUE /\ stored' = stored /\ issued' = issued /\ spent' = spent
      /\ otWork' = [otWork EXCEPT ![r] = None] /\ otWork[r] \in {"record", "shared"}
      /\ otAccepted' = IF Counts THEN Proofs!Passed ELSE otAccepted
  BY DEF OneTimeInv, NoTicketAtWork, Proofs!RecordIfFresh, Proofs!tickets, StoreDecides
<1>1. Proofs!TypeOK'
  <2>1. otAccepted' \in [Proofs!Time -> 0 .. 2]
    BY <1>0, PassedNow DEF Proofs!TypeOK
  <2>2. otWork' \in [Request -> {"ask", "record", "shared"} \cup {None}]
    BY <1>0 DEF Proofs!TypeOK
  <2> QED
    BY <1>0, <2>1, <2>2 DEF Proofs!TypeOK
<1>2. \A q \in Request : otWork'[q] = IF q = r THEN None ELSE otWork[q]
  BY <1>0 DEF Proofs!TypeOK
<1>3. None # "record"
  BY AccessAssumption
<1>4. CASE ~Counts
  <2>1. AsksAlone'
    BY <1>0, <1>2, <1>3, <1>4 DEF OneTimeInv, AsksAlone, StoreDecides
  <2>2. otNow' >= otNow /\ NoTicketAtWork'
    BY <1>0, Ticks DEF NoTicketAtWork
  <2> QED
    BY <1>0, <1>1, <1>4, <2>1, <2>2, OneTimeKept
<1>5. CASE Counts
  <2>1. otNow <= Remembered => \A t \in Proofs!Time : t <= Remembered => otAccepted[t] = 0
    <3> SUFFICES ASSUME otNow <= Remembered, NEW t \in Proofs!Time, otAccepted[t] # 0 PROVE FALSE
      OBVIOUS
    <3>1. seen
      BY <1>0 DEF OneTimeInv, AcceptedIsSeen
    <3>2. CASE StoreDecides
      <4>1. ~Proofs!Remembers
        BY <1>5, <3>2
      <4>2. otNow \in Nat /\ ProofExpiry \in Nat
        BY <1>0, Ticks
      <4>3. otKind \in {"client assertion", "identity assertion", "dpop"}
        BY <1>0 DEF Proofs!TypeOK
      <4>4. CASE otKind = "identity assertion"
        <5>1. ProofExpiry <= otNow
          BY <3>1, <4>1, <4>4 DEF Proofs!Remembers
        <5>2. Remembered = ProofExpiry - 1
          BY <4>4 DEF Remembered
        <5> QED
          BY <4>2, <5>1, <5>2
      <4>5. CASE otKind \in {"client assertion", "dpop"}
        <5>1. ProofExpiry < otNow
          BY <3>1, <4>1, <4>5 DEF Proofs!Remembers
        <5>2. Remembered = ProofExpiry
          BY <4>5 DEF Remembered
        <5> QED
          BY <4>2, <5>1, <5>2
      <4> QED
        BY <4>3, <4>4, <4>5
    <3>3. CASE ~StoreDecides
      BY <1>5, <3>3 DEF OneTimeInv, AsksAlone
    <3> QED
      BY <3>2, <3>3
  <2>2. PassesOnce'
    BY <1>0, <1>5, <2>1, FirstPass
  <2>3. AcceptedIsSeen'
    <3> SUFFICES ASSUME NEW t \in Proofs!Time, Proofs!Passed[t] # 0 PROVE t <= otNow
      BY <1>0, <1>5 DEF AcceptedIsSeen
    <3>1. t = otNow \/ otAccepted[t] # 0
      BY <1>0, PassedNow
    <3>2. otNow \in Nat /\ t \in Nat
      BY <1>0, Ticks
    <3> QED
      BY <3>1, <3>2 DEF OneTimeInv, AcceptedIsSeen
  <2>4. AsksAlone'
    <3> SUFFICES ASSUME ~StoreDecides, NEW q \in Request, otWork'[q] = "record" PROVE FALSE
      BY <1>0 DEF AsksAlone, StoreDecides
    <3>1. q # r /\ otWork[q] = "record" /\ otWork[r] = "record"
      BY <1>2, <1>3, <1>5
    <3> QED
      BY <3>1 DEF OneTimeInv, AsksAlone
  <2> QED
    BY <1>0, <1>1, <2>2, <2>3, <2>4 DEF OneTimeInv, NoTicketAtWork, TicketsInTime, TicketsCounted
<1> QED
  BY <1>4, <1>5

\* A ticket that is taken back passes for one that was issued.
LEMMA TakenOnce ==
    ASSUME OneTimeInv, Proofs!ConsumeTicket
    PROVE  OneTimeInv'
<1>0. /\ Proofs!TypeOK /\ otKind = "ticket" /\ otKind' = otKind /\ otNow' = otNow
      /\ otWork' = otWork /\ stored = TRUE /\ stored' = FALSE /\ issued' = issued
      /\ consumes' = consumes /\ seen' = seen
  BY DEF OneTimeInv, Proofs!ConsumeTicket, Proofs!Taken, Proofs!TypeOK
<1>1. PassesOnce' /\ NoTicketAtWork' /\ AsksAlone'
  BY <1>0 DEF PassesOnce, OneTimeInv, NoTicketAtWork, AsksAlone, StoreDecides
<1>2. spent \in Nat /\ issued \in Nat /\ spent + 1 <= issued /\ otNow \in Nat /\ ProofExpiry \in Nat
  BY <1>0, Ticks DEF OneTimeInv, TicketsCounted, Proofs!TypeOK
<1>3. CASE UNCHANGED <<otAccepted, spent>>
  <2>0. Proofs!TypeOK'
    BY <1>0, <1>3 DEF Proofs!TypeOK
  <2>1. TicketsCounted'
    BY <1>0, <1>2, <1>3 DEF TicketsCounted
  <2>2. AcceptedIsSeen' /\ TicketsInTime'
    BY <1>0, <1>3 DEF OneTimeInv, AcceptedIsSeen, TicketsInTime
  <2> QED
    BY <1>1, <2>0, <2>1, <2>2 DEF OneTimeInv
<1>4. CASE ~(ProofExpiry <= otNow) /\ otAccepted' = Proofs!Passed /\ spent' = spent + 1
  <2>0. otAccepted' \in [Proofs!Time -> 0 .. 2] /\ spent' \in Nat
    BY <1>0, <1>2, <1>4, PassedNow
  <2>4. Proofs!TypeOK'
    BY <1>0, <2>0 DEF Proofs!TypeOK
  <2>1. TicketsCounted'
    BY <1>0, <1>2, <1>4 DEF TicketsCounted
  <2>2. ASSUME NEW t \in Proofs!Time, Proofs!Passed[t] # 0 PROVE t <= otNow /\ t < ProofExpiry
    <3>1. t = otNow \/ otAccepted[t] # 0
      BY <1>0, <2>2, PassedNow
    <3>2. t \in Nat
      BY Ticks
    <3> QED
      BY <1>0, <1>2, <1>4, <3>1, <3>2 DEF OneTimeInv, AcceptedIsSeen, TicketsInTime
  <2>3. AcceptedIsSeen' /\ TicketsInTime'
    BY <1>0, <1>4, <2>2 DEF AcceptedIsSeen, TicketsInTime
  <2> QED
    BY <1>1, <2>1, <2>3, <2>4 DEF OneTimeInv
<1> QED
  BY <1>3, <1>4 DEF Proofs!ConsumeTicket

\* Every step of a proof or a ticket keeps its invariant.
LEMMA OneTimeNext == OneTimeInv /\ [Proofs!Next]_otVars => OneTimeInv'
<1> SUFFICES ASSUME OneTimeInv, [Proofs!Next]_otVars PROVE OneTimeInv'
  OBVIOUS
<1>0. Proofs!TypeOK /\ otNow \in Nat
  BY Ticks DEF OneTimeInv
<1>1. CASE Proofs!Tick
  <2>1. Proofs!TypeOK' /\ otNow' >= otNow
    <3>1. otNow' \in Proofs!Time /\ otNow' >= otNow
      BY <1>0, <1>1, Ticks DEF Proofs!Tick
    <3> QED
      BY <1>0, <1>1, <3>1 DEF Proofs!Tick, Proofs!TypeOK, Proofs!tickets
  <2>2. NoTicketAtWork' /\ AsksAlone'
    BY <1>1 DEF Proofs!Tick, OneTimeInv, NoTicketAtWork, AsksAlone, StoreDecides
  <2> QED
    BY <1>1, <2>1, <2>2, OneTimeKept DEF Proofs!Tick, Proofs!tickets
<1>2. CASE Proofs!IssueSocketTicket
  <2>1. Proofs!TypeOK'
    BY <1>0, <1>2 DEF Proofs!IssueSocketTicket, Proofs!TypeOK
  <2>2. TicketsCounted'
    BY <1>0, <1>2 DEF Proofs!IssueSocketTicket, Proofs!TypeOK, OneTimeInv, TicketsCounted
  <2>3. otKind = "ticket"
    BY <1>2 DEF Proofs!IssueSocketTicket
  <2> QED
    BY <1>0, <1>2, <2>1, <2>2, <2>3
    DEF OneTimeInv, PassesOnce, StoreDecides, AcceptedIsSeen, TicketsInTime, NoTicketAtWork,
        AsksAlone, Proofs!IssueSocketTicket
<1>3. ASSUME NEW r \in Request, NEW w \in {"ask", "record"}, Proofs!Present(r, w),
             otKind # "ticket", w = "record" => StoreDecides
      PROVE  OneTimeInv'
  <2>1. Proofs!TypeOK'
    BY <1>0, <1>3 DEF Proofs!Present, Proofs!TypeOK, Proofs!tickets
  <2>2. \A q \in Request : otWork'[q] = IF q = r THEN w ELSE otWork[q]
    BY <1>0, <1>3 DEF Proofs!Present, Proofs!TypeOK
  <2>3. AsksAlone'
    BY <1>3, <2>2 DEF Proofs!Present, OneTimeInv, AsksAlone, StoreDecides
  <2> QED
    BY <1>0, <1>3, <2>1, <2>3, OneTimeKept DEF Proofs!Present, NoTicketAtWork, Proofs!tickets
<1>4. ASSUME NEW r \in Request, Proofs!AskUsed(r) PROVE OneTimeInv'
  <2> DEFINE another == \E o \in Request : otWork[o] \in {"record", "shared"}
  <2> DEFINE next == IF seen THEN None ELSE IF another THEN "shared" ELSE "record"
  <2>0. otWork' = [otWork EXCEPT ![r] = next]
    BY <1>4 DEF Proofs!AskUsed
  <2>1. Proofs!TypeOK' /\ otKind # "ticket"
    BY <1>0, <1>4, <2>0 DEF Proofs!AskUsed, Proofs!TypeOK, OneTimeInv, NoTicketAtWork,
       Proofs!tickets
  <2>2. \A q \in Request : otWork'[q] = IF q = r THEN next ELSE otWork[q]
    BY <1>0, <2>0 DEF Proofs!TypeOK
  <2>3. AsksAlone'
    <3> SUFFICES ASSUME ~StoreDecides, NEW q \in Request, NEW o \in Request,
                        otWork'[q] = "record"
                 PROVE  /\ otWork'[o] = "record" => q = o
                        /\ \A t \in Proofs!Time : otAccepted[t] = 0
      BY <1>4 DEF AsksAlone, StoreDecides, Proofs!AskUsed
    <3>1. CASE otWork[q] = "record"
      <4>1. another
        BY <3>1
      <4>2. next # "record"
        BY <4>1, AccessAssumption
      <4> QED
        BY <2>2, <3>1, <4>2 DEF OneTimeInv, AsksAlone
    <3>2. CASE otWork[q] # "record"
      <4>1. q = r /\ next = "record"
        BY <2>2, <3>2
      <4>2. ~seen /\ ~another
        BY <4>1, AccessAssumption
      <4> QED
        BY <2>1, <2>2, <4>1, <4>2 DEF OneTimeInv, AcceptedIsSeen
    <3> QED
      BY <3>1, <3>2
  <2> QED
    BY <1>0, <1>4, <2>1, <2>3, OneTimeKept DEF Proofs!AskUsed, NoTicketAtWork, Proofs!tickets
<1>5. CASE UNCHANGED otVars
  <2>1. Proofs!TypeOK' /\ NoTicketAtWork' /\ AsksAlone'
    BY <1>0, <1>5 DEF otVars, Proofs!TypeOK, OneTimeInv, NoTicketAtWork, AsksAlone, StoreDecides
  <2> QED
    BY <1>0, <1>5, <2>1, OneTimeKept DEF otVars
<1> QED
  BY <1>1, <1>2, <1>3, <1>4, <1>5, RecordedOnce, TakenOnce
  DEF Proofs!Next, Proofs!VerifyClientAssertion, Proofs!VerifyIdentityAssertion,
      Proofs!VerifyDpopProof, StoreDecides

\* What the invariant says of the acceptances.
LEMMA PassedOnce == OneTimeInv => Proofs!ProofsPassOnce /\ Proofs!TicketsPassOnce
<1> SUFFICES ASSUME OneTimeInv PROVE Proofs!ProofsPassOnce /\ Proofs!TicketsPassOnce
  OBVIOUS
<1>1. Proofs!ProofsPassOnce
  BY DEF OneTimeInv, PassesOnce, Remembered, Proofs!ProofsPassOnce
<1>2. ASSUME otKind = "ticket"
      PROVE  spent <= issued /\ \A t \in ProofExpiry .. MaxNow : otAccepted[t] = 0
  <2>1. spent <= issued
    BY <1>2 DEF OneTimeInv, TicketsCounted, Proofs!TypeOK
  <2>2. \A t \in ProofExpiry .. MaxNow : t \in Proofs!Time /\ ~(t < ProofExpiry)
    BY Ticks
  <2> QED
    BY <1>2, <2>1, <2>2 DEF OneTimeInv, TicketsInTime
<1> QED
  BY <1>1, <1>2 DEF Proofs!TicketsPassOnce, Proofs!Stored

-------------------------------------------------------------------------------
(* VerifiableCredentials.                                                     *)

\* At first no secret has passed and nothing is under way.
LEMMA CredentialsInit == Verifiable!Init => CredentialsInv
<1> SUFFICES ASSUME Verifiable!Init PROVE CredentialsInv
  OBVIOUS
<1>1. Verifiable!TypeOK
  BY DEF Verifiable!Init, Verifiable!TypeOK
<1>2. /\ \A r \in Request : vcWork[r] = None
      /\ \A s \in Verifiable!Secret : passed[s] = 0
  BY DEF Verifiable!Init
<1>3. SecretsInv
  BY <1>2 DEF SecretsInv, OneLive, SpentOnce, UnspentWaits, Live
<1> QED
  BY <1>1, <1>2, <1>3 DEF CredentialsInv, OneStatement, StatusLast

\* Where nothing passes and no request comes to let something pass, secrets that the store keeps
\* giving back are unspent as before.
LEMMA SecretsKept ==
    ASSUME SecretsInv, vcStore' = vcStore, passed' = passed,
           \A s \in Verifiable!Secret : Unspent(s)' => Unspent(s),
           \A r \in Request : \A s \in Verifiable!Secret :
               Live(r, s)' => /\ Live(r, s)
                              /\ vcWork'[r].step = vcWork[r].step \/ ~Unspent(s)'
    PROVE  SecretsInv'
<1>1. OneLive'
  BY DEF SecretsInv, OneLive
<1>2. SpentOnce'
  BY DEF SecretsInv, SpentOnce
<1>3. UnspentWaits'
  BY DEF SecretsInv, UnspentWaits
<1> QED
  BY <1>1, <1>2, <1>3 DEF SecretsInv

\* A request that lets its secret pass is the last to do so.
LEMMA SecretPasses ==
    ASSUME SecretsInv, Verifiable!TypeOK, NEW r \in Request, NEW s \in Verifiable!Secret,
           Live(r, s), vcWork[r].step # "write", passed' = [passed EXCEPT ![s] = @ + 1],
           vcStore' = vcStore, vcHeld' = vcHeld,
           \A q \in Request : \A t \in Verifiable!Secret :
               Live(q, t)' => Live(q, t) /\ q # r /\ vcWork'[q] = vcWork[q]
    PROVE  SecretsInv'
<1>1. \A t \in Verifiable!Secret : Unspent(t)' <=> Unspent(t)
  BY DEF Unspent
<1>2. \A t \in Verifiable!Secret : passed'[t] = IF t = s THEN passed[s] + 1 ELSE passed[t]
  BY DEF Verifiable!TypeOK
<1>3. OneLive'
  BY <1>1 DEF SecretsInv, OneLive
<1>4. SpentOnce'
  <2> SUFFICES ASSUME NEW t \in Verifiable!Secret
               PROVE  passed'[t] <= 1 /\ \A q \in Request : Live(q, t)' => passed'[t] = 0
    BY <1>1 DEF SpentOnce
  <2>1. CASE t = s
    <3>1. passed[s] = 0
      BY <2>1 DEF SecretsInv, SpentOnce
    <3>2. \A q \in Request : ~Live(q, s)'
      BY <2>1 DEF SecretsInv, OneLive
    <3> QED
      BY <1>2, <2>1, <3>1, <3>2
  <2>2. CASE t # s
    BY <1>2, <2>2 DEF SecretsInv, SpentOnce
  <2> QED
    BY <2>1, <2>2
<1>5. UnspentWaits'
  <2> SUFFICES ASSUME NEW t \in Verifiable!Secret, Unspent(t)
               PROVE  passed'[t] = 0 /\ \A q \in Request : Live(q, t)' => vcWork'[q].step = "write"
    BY <1>1 DEF UnspentWaits
  <2>1. t # s
    BY DEF SecretsInv, UnspentWaits
  <2> QED
    BY <1>2, <2>1 DEF SecretsInv, UnspentWaits
<1> QED
  BY <1>3, <1>4, <1>5 DEF SecretsInv

\* Every request that takes a secret finds it unspent, unless another has taken it.
LEMMA SecretTaken ==
    ASSUME CredentialsInv, NEW r \in Request, NEW s \in Verifiable!Secret,
           NEW op \in {"exchange", "proof", "present"},
           NEW shown \in Verifiable!Presentation \cup {None},
           op = "present" => shown \in Verifiable!Presentation,
           Verifiable!Consume(r, op, s, shown)
    PROVE  CredentialsInv'
<1> DEFINE Reading == \E o \in Request : /\ vcWork[o] # None
                                        /\ vcWork[o].step = "write" /\ vcWork[o].secret = s
           Job(step) == [op |-> op, step |-> step, secret |-> s, row |-> vcHeld[s],
                         late |-> s \in expired, shared |-> Reading, shown |-> shown]
<1>0. Verifiable!TypeOK /\ SecretsInv
  BY DEF CredentialsInv
<1>a. /\ vcStore \in {"memory", "postgres"} /\ vcWork \in [Request -> Verifiable!Work \cup {None}]
      /\ vcHeld \in [Verifiable!Secret -> {"unborn", "live", "redeemed", "gone"}]
  BY <1>0 DEF Verifiable!TypeOK
<1>1. /\ vcWork[r] = None /\ vcHeld[s] \in {"live", "redeemed"}
      /\ vcStore' = vcStore /\ nonced' = nonced /\ expired' = expired /\ token' = token
      /\ credentials' = credentials /\ fetched' = fetched /\ revoked' = revoked
      /\ passed' = passed /\ refused' = refused
  BY DEF Verifiable!Consume, Verifiable!wallet, Verifiable!history
<1>2. PICK step \in {"write", "decide"} :
        /\ vcWork' = [vcWork EXCEPT ![r] = Job(step)]
        /\ step = "decide" => /\ vcStore = "memory"
                              /\ vcHeld' = [vcHeld EXCEPT ![s] = Verifiable!Taken(s)]
        /\ step = "write" => vcStore # "memory" /\ vcHeld' = vcHeld
  BY DEF Verifiable!Consume
<1>3. Job(step) \in Verifiable!Work /\ Job(step) # None
  <2>1. (s \in expired) \in BOOLEAN /\ Reading \in BOOLEAN
    OBVIOUS
  <2>2. Job(step) \in Verifiable!Work
    BY <1>1, <2>1 DEF Verifiable!Work
  <2> QED
    BY <2>2, AccessAssumption
<1>4. /\ Job(step).op = op /\ Job(step).step = step /\ Job(step).secret = s
      /\ Job(step).row = vcHeld[s] /\ Job(step).shown = shown /\ Job(step).shared = Reading
  OBVIOUS
<1> HIDE DEF Job
<1>5. /\ vcWork'[r] = Job(step) /\ \A q \in Request : q # r => vcWork'[q] = vcWork[q]
      /\ vcWork' \in [Request -> Verifiable!Work \cup {None}]
  BY <1>a, <1>2, <1>3
<1>6. /\ vcHeld' \in [Verifiable!Secret -> {"unborn", "live", "redeemed", "gone"}]
      /\ \A t \in Verifiable!Secret : t # s => vcHeld'[t] = vcHeld[t]
      /\ step = "decide" => ~Unspent(s)'
      /\ Unspent(s)' => vcHeld[s] = "live"
  BY <1>a, <1>1, <1>2 DEF Unspent, Verifiable!Taken
<1>8. Verifiable!TypeOK'
  BY <1>0, <1>1, <1>5, <1>6 DEF Verifiable!TypeOK
<1>9. /\ \A q \in Request, t \in Verifiable!Secret :
            q # r => (Live(q, t)' <=> Live(q, t)) /\ vcWork'[q] = vcWork[q]
      /\ \A t \in Verifiable!Secret : Live(r, t)' => t = s /\ vcHeld[s] = "live" /\ ~Reading
      /\ vcWork'[r].step = step
  BY <1>3, <1>4, <1>5 DEF Live
<1>10. vcHeld[s] = "live" =>
           passed[s] = 0 /\ \A q \in Request : Live(q, s) => vcWork[q].step = "write"
  BY <1>0 DEF SecretsInv, UnspentWaits, Unspent
<1>11. SecretsInv'
  <2>1. OneLive'
    <3> SUFFICES ASSUME NEW t \in Verifiable!Secret, NEW p \in Request, NEW q \in Request,
                        Live(p, t)', Live(q, t)'
                 PROVE  p = q
      BY DEF OneLive
    <3>1. CASE p # r /\ q # r
      BY <1>0, <1>9, <3>1 DEF SecretsInv, OneLive
    <3>2. ASSUME NEW o \in Request, o # r, Live(o, t)', Live(r, t)' PROVE FALSE
      <4>1. t = s /\ ~Reading /\ Live(o, s) /\ vcWork[o].step = "write"
        BY <1>9, <1>10, <3>2
      <4> QED
        BY <4>1 DEF Live
    <3> QED
      BY <3>1, <3>2
  <2>2. SpentOnce'
    <3> SUFFICES ASSUME NEW t \in Verifiable!Secret
                 PROVE  passed[t] <= 1 /\ \A q \in Request : Live(q, t)' => passed[t] = 0
      BY <1>1 DEF SpentOnce
    <3>1. passed[t] <= 1 /\ \A q \in Request : Live(q, t) => passed[t] = 0
      BY <1>0 DEF SecretsInv, SpentOnce
    <3> QED
      BY <1>9, <1>10, <3>1
  <2>3. UnspentWaits'
    <3> SUFFICES ASSUME NEW t \in Verifiable!Secret, Unspent(t)'
                 PROVE  passed[t] = 0 /\ \A q \in Request : Live(q, t)' => vcWork'[q].step = "write"
      BY <1>1 DEF UnspentWaits
    <3>1. CASE t # s
      BY <1>0, <1>6, <1>9, <3>1 DEF SecretsInv, UnspentWaits, Unspent
    <3>2. CASE t = s
      BY <1>2, <1>6, <1>9, <1>10, <3>2
    <3> QED
      BY <3>1, <3>2
  <2> QED
    BY <2>1, <2>2, <2>3 DEF SecretsInv
<1>12. OneStatement'
  BY <1>1, <1>2, <1>9 DEF CredentialsInv, OneStatement
<1>13. StatusLast'
  <2> SUFFICES ASSUME NEW q \in Request, vcWork'[q] # None
               PROVE  /\ vcWork'[q].op = "present" => vcWork'[q].shown \in Verifiable!Presentation
                      /\ vcWork'[q].step = "status" => vcWork'[q].op = "present" /\ vcWork'[q].row = "live"
    BY DEF StatusLast
  <2>1. CASE q = r
    BY <1>4, <1>5, <2>1
  <2>2. CASE q # r
    BY <1>5, <2>2 DEF CredentialsInv, StatusLast
  <2> QED
    BY <2>1, <2>2
<1> QED
  BY <1>1, <1>8, <1>11, <1>12, <1>13 DEF CredentialsInv

-------------------------------------------------------------------------------
\* A request that works on with its job, or ends, after what else a step of it does.
LEMMA JobTyped ==
    ASSUME Verifiable!TypeOK, NEW r \in Request, vcWork[r] # None,
           NEW step \in {"write", "decide", "nonce", "status"},
           vcWork' = [vcWork EXCEPT ![r] = None] \/ vcWork' = [vcWork EXCEPT ![r].step = step]
    PROVE  /\ vcWork' \in [Request -> Verifiable!Work \cup {None}]
           /\ \A q \in Request : q # r => vcWork'[q] = vcWork[q]
           /\ \/ vcWork'[r] = None
              \/ /\ vcWork'[r] # None /\ vcWork'[r].step = step /\ vcWork'[r].op = vcWork[r].op
                 /\ vcWork'[r].secret = vcWork[r].secret /\ vcWork'[r].row = vcWork[r].row
                 /\ vcWork'[r].shown = vcWork[r].shown /\ vcWork'[r].shared = vcWork[r].shared
           /\ vcWork[r].secret \in Verifiable!Secret /\ vcWork[r].row \in {"live", "redeemed"}
<1>1. vcWork \in [Request -> Verifiable!Work \cup {None}] /\ vcWork[r] \in Verifiable!Work
  BY DEF Verifiable!TypeOK
<1>2. [vcWork[r] EXCEPT !.step = step] \in Verifiable!Work
  BY <1>1 DEF Verifiable!Work
<1>3. [vcWork[r] EXCEPT !.step = step] # None
  BY <1>2, AccessAssumption
<1>4. vcWork[r].secret \in Verifiable!Secret /\ vcWork[r].row \in {"live", "redeemed"}
  BY <1>1 DEF Verifiable!Work
<1>5. CASE vcWork' = [vcWork EXCEPT ![r] = None]
  BY <1>1, <1>4, <1>5
<1>6. CASE vcWork' = [vcWork EXCEPT ![r].step = step]
  <2>1. vcWork' = [vcWork EXCEPT ![r] = [vcWork[r] EXCEPT !.step = step]]
    BY <1>6
  <2>2. /\ vcWork'[r] = [vcWork[r] EXCEPT !.step = step]
        /\ \A q \in Request : q # r => vcWork'[q] = vcWork[q]
        /\ vcWork' \in [Request -> Verifiable!Work \cup {None}]
    BY <1>1, <1>2, <2>1
  <2> QED
    BY <1>1, <1>3, <1>4, <2>2 DEF Verifiable!Work
<1> QED
  BY <1>5, <1>6

\* A request that works on towards the status list or ends keeps what holds of those under way.
LEMMA JobKept ==
    ASSUME CredentialsInv, NEW r \in Request, vcWork[r] # None,
           NEW step \in {"decide", "nonce", "status"},
           vcWork' = [vcWork EXCEPT ![r] = None] \/ vcWork' = [vcWork EXCEPT ![r].step = step],
           step = "status" => vcWork[r].op = "present" /\ vcWork[r].row = "live",
           vcStore' = vcStore
    PROVE  OneStatement' /\ StatusLast'
<1>1. /\ \A q \in Request : q # r => vcWork'[q] = vcWork[q]
      /\ \/ vcWork'[r] = None
         \/ /\ vcWork'[r] # None /\ vcWork'[r].step = step /\ vcWork'[r].op = vcWork[r].op
            /\ vcWork'[r].row = vcWork[r].row /\ vcWork'[r].shown = vcWork[r].shown
  BY JobTyped DEF CredentialsInv
<1>2. OneStatement'
  BY <1>1 DEF CredentialsInv, OneStatement
<1> SUFFICES ASSUME NEW q \in Request, vcWork'[q] # None
             PROVE  /\ vcWork'[q].op = "present" => vcWork'[q].shown \in Verifiable!Presentation
                    /\ vcWork'[q].step = "status" => vcWork'[q].op = "present" /\ vcWork'[q].row = "live"
  BY <1>2 DEF StatusLast
<1>3. CASE q = r
  BY <1>1, <1>3 DEF CredentialsInv, StatusLast
<1>4. CASE q # r
  BY <1>1, <1>4 DEF CredentialsInv, StatusLast
<1> QED
  BY <1>3, <1>4

\* A request that decides or asks the status list: it lets its secret pass or not, and ends or
\* works on.
LEMMA Decided ==
    ASSUME CredentialsInv, NEW r \in Request, vcWork[r] # None,
           vcWork[r].step \in {"decide", "status"}, NEW step \in {"nonce", "status"},
           vcWork' = [vcWork EXCEPT ![r] = None] \/ vcWork' = [vcWork EXCEPT ![r].step = step],
           step = "status" => vcWork[r].op = "present" /\ vcWork[r].row = "live" /\ passed' = passed,
           \/ passed' = passed
           \/ /\ vcWork[r].row = "live" /\ ~vcWork[r].shared
              /\ passed' = [passed EXCEPT ![vcWork[r].secret] = @ + 1],
           vcStore' = vcStore, nonced' = nonced, vcHeld' = vcHeld, expired' = expired,
           fetched' = fetched, revoked' = revoked,
           token' \in {"none", "valid", "expired"}, credentials' \subseteq {"bound", "free"},
           refused' \subseteq Verifiable!Presentation
    PROVE  CredentialsInv'
<1>0. Verifiable!TypeOK /\ SecretsInv
  BY DEF CredentialsInv
<1>1. /\ vcWork' \in [Request -> Verifiable!Work \cup {None}]
      /\ \A q \in Request : q # r => vcWork'[q] = vcWork[q]
      /\ \/ vcWork'[r] = None
         \/ /\ vcWork'[r] # None /\ vcWork'[r].step = step /\ vcWork'[r].op = vcWork[r].op
            /\ vcWork'[r].secret = vcWork[r].secret /\ vcWork'[r].row = vcWork[r].row
            /\ vcWork'[r].shared = vcWork[r].shared
      /\ vcWork[r].secret \in Verifiable!Secret
  BY <1>0, JobTyped
<1>2. passed' \in [Verifiable!Secret -> Nat]
  <2>1. passed \in [Verifiable!Secret -> Nat]
    BY <1>0 DEF Verifiable!TypeOK
  <2> QED
    BY <1>1, <2>1
<1>3. Verifiable!TypeOK'
  BY <1>0, <1>1, <1>2 DEF Verifiable!TypeOK
<1>4. OneStatement' /\ StatusLast'
  BY JobKept
<1>5. SecretsInv'
  <2>1. CASE passed' = passed
    <3>1. \A q \in Request : \A s \in Verifiable!Secret :
             Live(q, s)' => /\ Live(q, s)
                            /\ vcWork'[q].step = vcWork[q].step \/ ~Unspent(s)'
      <4> SUFFICES ASSUME NEW q \in Request, NEW s \in Verifiable!Secret, Live(q, s)'
                   PROVE  /\ Live(q, s)
                          /\ vcWork'[q].step = vcWork[q].step \/ ~Unspent(s)'
        OBVIOUS
      <4>1. CASE q # r
        BY <1>1, <4>1 DEF Live
      <4>2. CASE q = r
        <5>1. Live(r, s)
          BY <1>1, <4>2 DEF Live
        <5>2. ~Unspent(s)
          <6>1. vcWork[r].step # "write"
            OBVIOUS
          <6> QED
            BY <1>0, <5>1, <6>1 DEF SecretsInv, UnspentWaits
        <5> QED
          BY <4>2, <5>1, <5>2 DEF Unspent
      <4> QED
        BY <4>1, <4>2
    <3>2. \A s \in Verifiable!Secret : Unspent(s)' => Unspent(s)
      BY DEF Unspent
    <3> QED
      BY <1>0, <2>1, <3>1, <3>2, SecretsKept
  <2>2. CASE /\ vcWork[r].row = "live" /\ ~vcWork[r].shared /\ step = "nonce"
             /\ passed' = [passed EXCEPT ![vcWork[r].secret] = @ + 1]
    <3>1. Live(r, vcWork[r].secret) /\ vcWork[r].step # "write"
      BY <2>2 DEF Live
    <3>2. \A q \in Request : \A t \in Verifiable!Secret :
             Live(q, t)' => Live(q, t) /\ q # r /\ vcWork'[q] = vcWork[q]
      BY <1>1, <2>2 DEF Live
    <3> QED
      BY <1>0, <1>1, <2>2, <3>1, <3>2, SecretPasses
  <2> QED
    BY <2>1, <2>2
<1> QED
  BY <1>3, <1>4, <1>5 DEF CredentialsInv

-------------------------------------------------------------------------------
\* A secret that is saved was not given back before.
LEMMA SecretSaved ==
    ASSUME CredentialsInv, NEW s \in Verifiable!Secret, Verifiable!Save(s),
           vcStore' = vcStore, passed' = passed,
           vcWork' = vcWork \/ \E r \in Request : vcWork[r] # None /\ vcWork' = [vcWork EXCEPT ![r] = None]
    PROVE  /\ SecretsInv' /\ OneStatement' /\ StatusLast'
           /\ vcHeld' \in [Verifiable!Secret -> {"unborn", "live", "redeemed", "gone"}]
           /\ vcWork' \in [Request -> Verifiable!Work \cup {None}]
<1>1. /\ Verifiable!TypeOK /\ SecretsInv
      /\ vcWork \in [Request -> Verifiable!Work \cup {None}]
      /\ vcHeld \in [Verifiable!Secret -> {"unborn", "live", "redeemed", "gone"}]
  BY DEF CredentialsInv, Verifiable!TypeOK
<1>2. /\ vcWork' \in [Request -> Verifiable!Work \cup {None}]
      /\ \A q \in Request : vcWork'[q] # None => vcWork'[q] = vcWork[q]
  BY <1>1
<1>3. /\ vcHeld' \in [Verifiable!Secret -> {"unborn", "live", "redeemed", "gone"}]
      /\ \A t \in Verifiable!Secret : Unspent(t)' => Unspent(t)
  BY <1>1 DEF Verifiable!Save, Unspent
<1>4. \A q \in Request : \A t \in Verifiable!Secret :
          Live(q, t)' => Live(q, t) /\ vcWork'[q].step = vcWork[q].step
  BY <1>2 DEF Live
<1>5. SecretsInv'
  BY <1>1, <1>3, <1>4, SecretsKept
<1>6. OneStatement'
  BY <1>2 DEF CredentialsInv, OneStatement
<1>7. StatusLast'
  <2> SUFFICES ASSUME NEW q \in Request, vcWork'[q] # None
               PROVE  /\ vcWork'[q].op = "present" => vcWork'[q].shown \in Verifiable!Presentation
                      /\ vcWork'[q].step = "status" => vcWork'[q].op = "present" /\ vcWork'[q].row = "live"
    BY DEF StatusLast
  <2> QED
    BY <1>2 DEF CredentialsInv, StatusLast
<1> QED
  BY <1>2, <1>3, <1>5, <1>6, <1>7

\* The second statement of the Postgres stores spends the secret it read.
LEMMA RowConsumed ==
    ASSUME CredentialsInv, NEW r \in Request, Verifiable!ConsumeRow(r)
    PROVE  CredentialsInv'
<1>0. /\ Verifiable!TypeOK /\ SecretsInv /\ vcWork[r] # None /\ vcWork[r].step = "write"
      /\ vcWork' = [vcWork EXCEPT ![r].step = "decide"]
      /\ vcHeld' = [vcHeld EXCEPT ![vcWork[r].secret] = Verifiable!Taken(vcWork[r].secret)]
      /\ vcStore' = vcStore /\ nonced' = nonced /\ expired' = expired /\ token' = token
      /\ credentials' = credentials /\ fetched' = fetched /\ revoked' = revoked
      /\ passed' = passed /\ refused' = refused
  BY DEF CredentialsInv, Verifiable!ConsumeRow, Verifiable!wallet, Verifiable!history
<1>1. /\ vcWork' \in [Request -> Verifiable!Work \cup {None}]
      /\ \A q \in Request : q # r => vcWork'[q] = vcWork[q]
      /\ \/ vcWork'[r] = None
         \/ /\ vcWork'[r] # None
            /\ vcWork'[r].secret = vcWork[r].secret /\ vcWork'[r].row = vcWork[r].row
            /\ vcWork'[r].shared = vcWork[r].shared
      /\ vcWork[r].secret \in Verifiable!Secret
  BY <1>0, JobTyped
<1>2. vcHeld \in [Verifiable!Secret -> {"unborn", "live", "redeemed", "gone"}]
  BY <1>0 DEF Verifiable!TypeOK
<1>3. /\ vcHeld' \in [Verifiable!Secret -> {"unborn", "live", "redeemed", "gone"}]
      /\ \A t \in Verifiable!Secret : Unspent(t)' => Unspent(t)
      /\ \A t \in Verifiable!Secret : t = vcWork[r].secret => ~Unspent(t)'
  BY <1>0, <1>1, <1>2 DEF Verifiable!Taken, Unspent
<1>4. Verifiable!TypeOK'
  BY <1>0, <1>1, <1>3 DEF Verifiable!TypeOK
<1>5. \A q \in Request : \A t \in Verifiable!Secret :
          Live(q, t)' => Live(q, t) /\ (vcWork'[q].step = vcWork[q].step \/ ~Unspent(t)')
  <2> SUFFICES ASSUME NEW q \in Request, NEW t \in Verifiable!Secret, Live(q, t)'
               PROVE  Live(q, t) /\ (vcWork'[q].step = vcWork[q].step \/ ~Unspent(t)')
    OBVIOUS
  <2>1. CASE q # r
    BY <1>1, <2>1 DEF Live
  <2>2. CASE q = r
    <3>1. t = vcWork[r].secret /\ Live(r, t)
      BY <1>0, <1>1, <2>2 DEF Live
    <3> QED
      BY <1>3, <2>2, <3>1
  <2> QED
    BY <2>1, <2>2
<1>6. SecretsInv'
  BY <1>0, <1>3, <1>5, SecretsKept
<1>7. OneStatement' /\ StatusLast'
  BY <1>0, JobKept
<1> QED
  BY <1>0, <1>4, <1>6, <1>7 DEF CredentialsInv

-------------------------------------------------------------------------------
\* Every step of the issuer, the wallet or the verifier keeps the invariant.
LEMMA CredentialsNext == CredentialsInv /\ [Verifiable!Next]_vcVars => CredentialsInv'
<1> SUFFICES ASSUME CredentialsInv, [Verifiable!Next]_vcVars PROVE CredentialsInv'
  OBVIOUS
<1>0. /\ Verifiable!TypeOK /\ SecretsInv
      /\ "offer" \in Verifiable!Secret /\ "request" \in Verifiable!Secret
      /\ \A n \in One : n \in Verifiable!Secret
      /\ token \in {"none", "valid", "expired"} /\ credentials \subseteq {"bound", "free"}
      /\ refused \subseteq Verifiable!Presentation
  BY DEF CredentialsInv, Verifiable!Secret, Verifiable!TypeOK
<1>1. ASSUME NEW s \in Verifiable!Secret, Verifiable!Save(s),
             UNCHANGED <<vcStore, nonced, expired, Verifiable!wallet, vcWork, Verifiable!history>>
      PROVE  CredentialsInv'
  <2>1. /\ vcStore' = vcStore /\ nonced' = nonced /\ expired' = expired /\ token' = token
        /\ credentials' = credentials /\ fetched' = fetched /\ revoked' = revoked
        /\ vcWork' = vcWork /\ passed' = passed /\ refused' = refused
    BY <1>1 DEF Verifiable!wallet, Verifiable!history
  <2>2. /\ SecretsInv' /\ OneStatement' /\ StatusLast'
        /\ vcHeld' \in [Verifiable!Secret -> {"unborn", "live", "redeemed", "gone"}]
    BY <1>1, <2>1, SecretSaved
  <2>3. Verifiable!TypeOK'
    BY <1>0, <2>1, <2>2 DEF Verifiable!TypeOK
  <2> QED
    BY <1>0, <2>1, <2>2, <2>3 DEF CredentialsInv
<1>2. ASSUME UNCHANGED <<vcStore, vcHeld, vcWork, passed, refused>>,
             Verifiable!TypeOK'
      PROVE  CredentialsInv'
  <2>1. \A s \in Verifiable!Secret : Unspent(s)' => Unspent(s)
    BY <1>2 DEF Unspent
  <2>2. \A q \in Request : \A t \in Verifiable!Secret :
            Live(q, t)' => Live(q, t) /\ vcWork'[q].step = vcWork[q].step
    BY <1>2 DEF Live
  <2>3. SecretsInv'
    BY <1>0, <1>2, <2>1, <2>2, SecretsKept
  <2>4. OneStatement' /\ StatusLast'
    BY <1>2 DEF CredentialsInv, OneStatement, StatusLast, Verifiable!Answers
  <2> QED
    BY <1>0, <1>2, <2>3, <2>4 DEF CredentialsInv
<1>3. CASE Verifiable!Expire \/ Verifiable!FetchRequestObject \/ Verifiable!SetCredentialStatus
           \/ \E r \in Request : Verifiable!IssueCredential(r)
  <2>1. UNCHANGED <<vcStore, vcHeld, vcWork, passed, refused>>
    BY <1>3 DEF Verifiable!Expire, Verifiable!FetchRequestObject, Verifiable!SetCredentialStatus,
       Verifiable!IssueCredential, Verifiable!stores, Verifiable!history
  <2>2. /\ nonced' = nonced /\ expired' \subseteq Verifiable!Secret
        /\ token' \in {"none", "valid", "expired"} /\ credentials' \subseteq {"bound", "free"}
        /\ fetched' \in BOOLEAN /\ revoked' \in BOOLEAN
    <3>1. expired \subseteq Verifiable!Secret /\ fetched \in BOOLEAN /\ revoked \in BOOLEAN
      BY <1>0 DEF Verifiable!TypeOK
    <3>2. CASE Verifiable!Expire
      BY <1>0, <3>1, <3>2 DEF Verifiable!Expire
    <3>3. CASE Verifiable!FetchRequestObject
      BY <1>0, <3>1, <3>3 DEF Verifiable!FetchRequestObject, Verifiable!stores
    <3>4. CASE Verifiable!SetCredentialStatus
      BY <1>0, <3>1, <3>4 DEF Verifiable!SetCredentialStatus, Verifiable!stores
    <3>5. CASE \E r \in Request : Verifiable!IssueCredential(r)
      BY <1>0, <3>1, <3>5 DEF Verifiable!IssueCredential, Verifiable!stores
    <3> QED
      BY <1>3, <3>2, <3>3, <3>4, <3>5
  <2>3. Verifiable!TypeOK'
    BY <1>0, <2>1, <2>2 DEF Verifiable!TypeOK
  <2> QED
    BY <1>2, <2>1, <2>3
<1>4. ASSUME NEW r \in Request, Verifiable!SaveNonce(r) PROVE CredentialsInv'
  <2>1. /\ vcStore' = vcStore /\ nonced' = nonced /\ expired' = expired /\ token' = "valid"
        /\ credentials' = credentials /\ fetched' = fetched /\ revoked' = revoked
        /\ passed' = passed /\ refused' = refused
        /\ vcWork[r] # None /\ vcWork' = [vcWork EXCEPT ![r] = None]
    BY <1>4 DEF Verifiable!SaveNonce, Verifiable!Done, Verifiable!history
  <2>2. PICK n \in One : Verifiable!Save(n)
    BY <1>4 DEF Verifiable!SaveNonce
  <2>3. /\ SecretsInv' /\ OneStatement' /\ StatusLast'
        /\ vcHeld' \in [Verifiable!Secret -> {"unborn", "live", "redeemed", "gone"}]
        /\ vcWork' \in [Request -> Verifiable!Work \cup {None}]
    BY <1>0, <2>1, <2>2, SecretSaved
  <2>4. Verifiable!TypeOK'
    BY <1>0, <2>1, <2>3 DEF Verifiable!TypeOK
  <2> QED
    BY <1>0, <2>1, <2>3, <2>4 DEF CredentialsInv
<1>5. ASSUME NEW r \in Request, Verifiable!ExchangePreAuthorizedCode(r) \/ Verifiable!VerifyProofJwt(r)
      PROVE  CredentialsInv'
  <2>1. CASE Verifiable!ExchangePreAuthorizedCode(r)
    BY <1>0, <2>1, SecretTaken DEF Verifiable!ExchangePreAuthorizedCode
  <2>2. CASE Verifiable!VerifyProofJwt(r)
    <3>1. PICK n \in One : Verifiable!Consume(r, "proof", n, None)
      BY <2>2 DEF Verifiable!VerifyProofJwt
    <3> QED
      BY <1>0, <3>1, SecretTaken
  <2> QED
    BY <1>5, <2>1, <2>2
<1>6. ASSUME NEW r \in Request, Verifiable!VerifyPresentationResponse(r) PROVE CredentialsInv'
  <2>1. PICK kind \in credentials, nonce \in {"asked"} \cup (IF fetched THEN {"served"} ELSE {}) :
            Verifiable!Consume(r, "present", "request", [bound |-> kind = "bound", nonce |-> nonce])
    BY <1>6 DEF Verifiable!VerifyPresentationResponse
  <2>2. nonce \in {"asked", "served"} /\ (kind = "bound") \in BOOLEAN
    BY <2>1
  <2>3. [bound |-> kind = "bound", nonce |-> nonce] \in Verifiable!Presentation
    BY <2>2 DEF Verifiable!Presentation
  <2> QED
    BY <1>0, <2>1, <2>3, SecretTaken
<1>7. ASSUME NEW r \in Request, Verifiable!Exchanged(r) \/ Verifiable!ProofVerified(r)
      PROVE  CredentialsInv'
  <2>1. /\ vcWork[r] # None /\ vcWork[r].step = "decide"
        /\ vcWork' = [vcWork EXCEPT ![r] = None] \/ vcWork' = [vcWork EXCEPT ![r].step = "nonce"]
        /\ \/ passed' = passed
           \/ /\ vcWork[r].row # "redeemed" /\ ~vcWork[r].shared
              /\ passed' = [passed EXCEPT ![vcWork[r].secret] = @ + 1]
        /\ vcStore' = vcStore /\ nonced' = nonced /\ vcHeld' = vcHeld /\ expired' = expired
        /\ fetched' = fetched /\ revoked' = revoked /\ refused' = refused
        /\ token' = token \/ token' = "valid"
        /\ credentials' = credentials \/ credentials' = credentials \cup {"bound"}
    BY <1>7 DEF Verifiable!Exchanged, Verifiable!ProofVerified, Verifiable!Deciding, Verifiable!Done,
       Verifiable!Usable, Verifiable!Passes, Verifiable!stores
  <2>2. vcWork[r].row # "redeemed" => vcWork[r].row = "live"
    BY <1>0, <2>1, JobTyped
  <2> QED
    BY <1>0, <2>1, <2>2, Decided
<1>8. ASSUME NEW r \in Request, Verifiable!PresentationChecked(r) PROVE CredentialsInv'
  <2>1. /\ vcWork[r] # None /\ vcWork[r].step = "decide" /\ vcWork[r].op = "present"
        /\ \/ vcWork' = [vcWork EXCEPT ![r] = None]
           \/ /\ vcWork' = [vcWork EXCEPT ![r].step = "status"]
              /\ vcWork[r].row # "redeemed"
        /\ vcStore' = vcStore /\ nonced' = nonced /\ vcHeld' = vcHeld /\ expired' = expired
        /\ fetched' = fetched /\ revoked' = revoked 
        /\ token' = token /\ credentials' = credentials /\ passed' = passed
        /\ refused' = refused \/ refused' = refused \cup {vcWork[r].shown}
    BY <1>8 DEF Verifiable!PresentationChecked, Verifiable!Deciding, Verifiable!Done,
       Verifiable!Usable, Verifiable!stores, Verifiable!wallet
  <2>2. vcWork[r].row # "redeemed" => vcWork[r].row = "live"
    <3>1. vcWork[r] \in Verifiable!Work
      BY <1>0, <2>1 DEF Verifiable!TypeOK
    <3> QED
      BY <3>1 DEF Verifiable!Work
  <2>5. refused' \subseteq Verifiable!Presentation
    <3>1. vcWork[r].shown \in Verifiable!Presentation
      BY <2>1 DEF CredentialsInv, StatusLast
    <3> QED
      BY <1>0, <2>1, <3>1
  <2>3. CASE vcWork' = [vcWork EXCEPT ![r] = None]
    BY <1>0, <2>1, <2>3, <2>5, Decided
  <2>4. CASE /\ vcWork' = [vcWork EXCEPT ![r].step = "status"]
             /\ vcWork[r].row # "redeemed"
    BY <1>0, <2>1, <2>2, <2>4, <2>5, Decided
  <2> QED
    BY <2>1, <2>3, <2>4
<1>9. ASSUME NEW r \in Request, Verifiable!CheckStatus(r) PROVE CredentialsInv'
  <2>1. /\ vcWork[r] # None /\ vcWork[r].step = "status"
        /\ vcWork' = [vcWork EXCEPT ![r] = None]
        /\ \/ passed' = passed
           \/ ~vcWork[r].shared /\ passed' = [passed EXCEPT ![vcWork[r].secret] = @ + 1]
        /\ vcStore' = vcStore /\ nonced' = nonced /\ vcHeld' = vcHeld /\ expired' = expired
        /\ fetched' = fetched /\ revoked' = revoked /\ refused' = refused
        /\ token' = token /\ credentials' = credentials
    BY <1>9 DEF Verifiable!CheckStatus, Verifiable!Done, Verifiable!Passes, Verifiable!stores,
       Verifiable!wallet
  <2>2. vcWork[r].row = "live"
    BY <2>1 DEF CredentialsInv, StatusLast
  <2> QED
    BY <1>0, <2>1, <2>2, Decided
<1>10. CASE UNCHANGED vcVars
  <2>1. /\ UNCHANGED <<vcStore, vcHeld, vcWork, passed, refused>>
        /\ Verifiable!TypeOK'
    BY <1>0, <1>10 DEF vcVars, Verifiable!TypeOK
  <2> QED
    BY <1>2, <2>1
<1>11. CASE Verifiable!CreateCredentialOffer \/ Verifiable!CreatePresentationRequest
            \/ Verifiable!FetchNonce
  BY <1>0, <1>1, <1>11 DEF Verifiable!CreateCredentialOffer, Verifiable!CreatePresentationRequest,
     Verifiable!FetchNonce
<1>12. CASE \E r \in Request : Verifiable!ConsumeRow(r)
  BY <1>12, RowConsumed
<1> QED
  BY <1>3, <1>4, <1>5, <1>6, <1>7, <1>8, <1>9, <1>10, <1>11, <1>12 DEF Verifiable!Next

-------------------------------------------------------------------------------
(* ApiKeys.                                                                   *)

\* At first there is neither a client nor a key.
LEMMA ApiKeysInit == ApiKeys!Init => ApiKeysInv
<1> SUFFICES ASSUME ApiKeys!Init PROVE ApiKeysInv
  OBVIOUS
<1>1. ApiTypes
  <2>1. 0 \in 0 .. MaxApiNow
    BY AccessAssumption
  <2>2. ApiKeys!TypeOK
    BY <2>1 DEF ApiKeys!Init, ApiKeys!TypeOK
  <2> QED
    BY <2>2 DEF ApiKeys!Init, ApiTypes
<1>2. TokensEnd /\ KeyEnds
  BY DEF ApiKeys!Init, TokensEnd, KeyEnds
<1> QED
  BY <1>1, <1>2 DEF ApiKeysInv

\* Every request keeps its type, and what it does not touch.
LEMMA ApiRequest ==
    ASSUME ApiKeysInv, NEW r \in Request, NEW j \in ApiJob \cup {None},
           akWork' = [akWork EXCEPT ![r] = j], akNow' = akNow,
           j # None => j.at <= akNow
    PROVE  /\ akWork' \in [Request -> ApiJob \cup {None}] /\ akWork'[r] = j
           /\ \A q \in Request : q # r => akWork'[q] = akWork[q]
           /\ \A q \in Request : akWork'[q] # None =>
                 akWork'[q].at <= akNow' /\ akWork'[q].pc \in {"exchange", "mint", "token", "key", "touch"}
<1>1. akWork \in [Request -> ApiJob \cup {None}]
  BY DEF ApiKeysInv, ApiTypes
<1>2. /\ akWork' \in [Request -> ApiJob \cup {None}] /\ akWork'[r] = j
      /\ \A q \in Request : q # r => akWork'[q] = akWork[q]
  BY <1>1
<1>3. \A q \in Request : akWork'[q] # None => akWork'[q].at <= akNow'
  BY <1>2 DEF ApiKeysInv, ApiTypes
<1>4. \A x \in ApiJob : x.pc \in {"exchange", "mint", "token", "key", "touch"}
  BY DEF ApiJob
<1> QED
  BY <1>2, <1>3, <1>4

\* Every step of the credentials keeps the invariant.
LEMMA ApiKeysNext == ApiKeysInv /\ [ApiKeys!Next]_akVars => ApiKeysInv'
<1> SUFFICES ASSUME ApiKeysInv, [ApiKeys!Next]_akVars PROVE ApiKeysInv'
  OBVIOUS
<1>0. /\ ApiTypes /\ ApiKeys!TypeOK /\ TokensEnd /\ KeyEnds
      /\ akNow \in 0 .. MaxApiNow /\ akNow \in Nat /\ Ttl \in Nat
      /\ clientDeleted = None \/ clientDeleted \in Nat
      /\ akAccepted = None \/ akAccepted \in Nat
      /\ akTokens \subseteq ApiKeys!Token /\ \A t \in ApiKeys!Token : t.expires \in Nat
      /\ Deadline \in Nat
      /\ akWork \in [Request -> ApiJob \cup {None}]
  <2>1. ApiKeys!TypeOK /\ ApiTypes
    BY DEF ApiKeysInv, ApiTypes
  <2>2. akNow \in 0 .. MaxApiNow /\ akNow \in Nat /\ Ttl \in Nat
    BY <2>1, AccessAssumption DEF ApiKeys!TypeOK
  <2>3. (clientDeleted = None \/ clientDeleted \in Nat) /\ (akAccepted = None \/ akAccepted \in Nat)
    BY <2>1, AccessAssumption DEF ApiKeys!TypeOK
  <2> QED
    BY <2>1, <2>2, <2>3 DEF ApiKeysInv, ApiTypes, ApiKeys!TypeOK, ApiKeys!Token, Deadline
<1>1. ASSUME akWork' = akWork, akNow' = akNow \/ (akNow < MaxApiNow /\ akNow' = akNow + 1),
             akStore' = akStore, client' \in BOOLEAN, key' \in ApiKeys!Key \cup {None},
             akTokens' \subseteq akTokens, keyDeleted' \in BOOLEAN,
             \/ clientDeleted' = clientDeleted
             \/ clientDeleted = None /\ clientDeleted' = akNow /\ akNow' = akNow,
             akAccepted' = akAccepted, revived' = revived,
             client' => clientDeleted' = None, keyDeleted' => key' = None, keyDeleted => keyDeleted'
      PROVE  ApiKeysInv'
  <2>1. akNow' \in 0 .. MaxApiNow /\ akNow' >= akNow /\ akNow' \in Nat
    BY <1>0, <1>1, AccessAssumption
  <2>2. Deadline' >= Deadline /\ Deadline' \in Nat
    <3>1. CASE clientDeleted' = clientDeleted /\ clientDeleted # None
      BY <1>0, <3>1 DEF Deadline
    <3>2. CASE clientDeleted' = clientDeleted /\ clientDeleted = None
      <4>1. Deadline = akNow + Ttl /\ Deadline' = akNow' + Ttl
        BY <3>2 DEF Deadline
      <4>2. akNow \in Nat /\ Ttl \in Nat
        BY <1>0
      <4>3. \A m, n, k \in Nat : n >= m => n + k >= m + k /\ n + k \in Nat
        OBVIOUS
      <4> QED
        BY <2>1, <4>1, <4>2, <4>3
    <3>3. CASE clientDeleted = None /\ clientDeleted' = akNow /\ akNow' = akNow
      BY <1>0, <3>3 DEF Deadline
    <3> QED
      BY <1>1, <3>1, <3>2, <3>3
  <2>3. ApiKeys!TypeOK'
    <3>1. clientDeleted' \in 0 .. MaxApiNow \cup {None}
      BY <1>0, <1>1 DEF ApiKeys!TypeOK
    <3> QED
      BY <1>0, <1>1, <2>1, <3>1 DEF ApiKeys!TypeOK
  <2>4. ApiTypes'
    <3>1. \A r \in Request : akWork[r] # None => akWork[r].at \in Nat
      BY <1>0 DEF ApiJob
    <3>2. \A r \in Request : akWork'[r] # None => akWork'[r].at <= akNow'
      BY <1>0, <1>1, <2>1, <3>1 DEF ApiTypes
    <3>3. clientDeleted' # None => clientDeleted' <= akNow'
      BY <1>0, <1>1, <2>1 DEF ApiTypes
    <3> QED
      BY <1>0, <1>1, <2>3, <3>2, <3>3 DEF ApiTypes
  <2>5. TokensEnd'
    <3>1. \A r \in Request : akWork[r] # None => akWork[r].at \in Nat
      BY <1>0 DEF ApiJob
    <3>2. \A t \in akTokens' : t.expires <= Deadline'
      BY <1>0, <1>1, <2>2 DEF TokensEnd
    <3>3. \A r \in Request :
              akWork'[r] # None /\ akWork'[r].pc = "mint" => akWork'[r].at + Ttl <= Deadline'
      BY <1>0, <1>1, <2>2, <3>1 DEF TokensEnd
    <3>4. akAccepted' # None => akAccepted' < Deadline'
      BY <1>0, <1>1, <2>2 DEF TokensEnd
    <3> QED
      BY <1>1, <3>2, <3>3, <3>4 DEF TokensEnd
  <2>6. KeyEnds'
    BY <1>0, <1>1 DEF KeyEnds
  <2> QED
    BY <2>4, <2>5, <2>6 DEF ApiKeysInv
<1>2. CASE \/ ApiKeys!CreateClient \/ ApiKeys!DeleteClient \/ ApiKeys!DeleteToken
           \/ ApiKeys!DeleteExpired \/ ApiKeys!Tick \/ UNCHANGED akVars
  <2>1. client \in BOOLEAN /\ key \in ApiKeys!Key \cup {None} /\ keyDeleted \in BOOLEAN
    BY <1>0 DEF ApiKeys!TypeOK
  <2> QED
    <3>0. /\ client => clientDeleted = None
          /\ keyDeleted => key = None
      BY <1>0 DEF TokensEnd, KeyEnds
    <3>1. CASE ApiKeys!CreateClient
      BY <1>0, <1>1, <2>1, <3>0, <3>1 DEF ApiKeys!CreateClient
    <3>2. CASE ApiKeys!DeleteClient
      BY <1>0, <1>1, <2>1, <3>0, <3>2 DEF ApiKeys!DeleteClient
    <3>3. CASE ApiKeys!DeleteToken
      BY <1>0, <1>1, <2>1, <3>0, <3>3 DEF ApiKeys!DeleteToken
    <3>4. CASE ApiKeys!DeleteExpired
      BY <1>0, <1>1, <2>1, <3>0, <3>4 DEF ApiKeys!DeleteExpired
    <3>5. CASE ApiKeys!Tick
      BY <1>0, <1>1, <2>1, <3>0, <3>5 DEF ApiKeys!Tick
    <3>6. CASE UNCHANGED akVars
      BY <1>0, <1>1, <2>1, <3>0, <3>6 DEF akVars
    <3> QED
      BY <1>2, <3>1, <3>2, <3>3, <3>4, <3>5, <3>6
<1>3. CASE ApiKeys!CreateKey \/ ApiKeys!DeleteKey
  <2>1. key' \in ApiKeys!Key \cup {None} /\ keyDeleted' \in BOOLEAN
    <3>1. key \in ApiKeys!Key \cup {None} /\ keyDeleted \in BOOLEAN
      BY <1>0 DEF ApiKeys!TypeOK
    <3>2. \A e \in {0, KeyLife} : [expires |-> e, used |-> 0] \in ApiKeys!Key
      BY AccessAssumption DEF ApiKeys!Key
    <3> QED
      BY <1>3, <3>1, <3>2 DEF ApiKeys!CreateKey, ApiKeys!DeleteKey
  <2>2. client \in BOOLEAN
    BY <1>0 DEF ApiKeys!TypeOK
  <2> QED
    BY <1>0, <1>1, <1>3, <2>1, <2>2 DEF ApiKeys!CreateKey, ApiKeys!DeleteKey, TokensEnd
<1>4. ASSUME NEW r \in Request, NEW j \in ApiJob \cup {None}, akWork' = [akWork EXCEPT ![r] = j],
             j # None => j.at <= akNow, akNow' = akNow, akStore' = akStore, client' = client,
             key' \in ApiKeys!Key \cup {None}, key = None => key' = None,
             akTokens' \subseteq ApiKeys!Token, \A t \in akTokens' : t.expires <= Deadline,
             keyDeleted' = keyDeleted, clientDeleted' = clientDeleted,
             \/ akAccepted' = akAccepted
             \/ akAccepted' \in 0 .. MaxApiNow /\ akAccepted' < Deadline,
             revived' = revived,
             j # None => /\ j.pc = "mint" => j.at + Ttl <= Deadline
                         /\ j.pc = "key" => (j.after => keyDeleted)
                         /\ j.pc = "touch" => ~j.after
      PROVE  ApiKeysInv'
  <2>1. /\ akWork' \in [Request -> ApiJob \cup {None}] /\ akWork'[r] = j
        /\ \A q \in Request : q # r => akWork'[q] = akWork[q]
        /\ \A q \in Request : akWork'[q] # None =>
              akWork'[q].at <= akNow' /\ akWork'[q].pc \in {"exchange", "mint", "token", "key", "touch"}
    BY <1>4, ApiRequest
  <2>2. Deadline' = Deadline
    BY <1>4 DEF Deadline
  <2>3. ApiKeys!TypeOK'
    <3>1. akAccepted' \in 0 .. MaxApiNow \cup {None}
      BY <1>0, <1>4 DEF ApiKeys!TypeOK
    <3> QED
      BY <1>0, <1>4, <2>1, <3>1 DEF ApiKeys!TypeOK
  <2>4. ApiTypes'
    BY <1>0, <1>4, <2>1, <2>3 DEF ApiTypes
  <2>5. TokensEnd'
    BY <1>0, <1>4, <2>1, <2>2 DEF TokensEnd
  <2>6. KeyEnds'
    BY <1>0, <1>4, <2>1 DEF KeyEnds
  <2> QED
    BY <2>4, <2>5, <2>6 DEF ApiKeysInv
<1>5. key \in ApiKeys!Key \cup {None} /\ \A t \in akTokens : t.expires <= Deadline
  BY <1>0 DEF ApiKeys!TypeOK, TokensEnd
<1>6. ASSUME NEW r \in Request, ApiKeys!Exchange(r) \/ ApiKeys!PresentToken(r) \/ ApiKeys!PresentKey(r)
      PROVE  ApiKeysInv'
  <2>1. PICK j \in ApiJob :
            /\ akWork' = [akWork EXCEPT ![r] = j] /\ j.at = akNow /\ j.pc \in {"exchange", "token", "key"}
            /\ j.pc = "key" => j.after = keyDeleted
    <3>1. keyDeleted \in BOOLEAN
      BY <1>0 DEF ApiKeys!TypeOK
    <3> QED
      BY <1>0, <1>6, <3>1 DEF ApiKeys!Exchange, ApiKeys!PresentToken, ApiKeys!PresentKey, ApiJob
  <2> QED
    <3>1. /\ akStore' = akStore /\ akNow' = akNow /\ client' = client /\ key' = key
          /\ akTokens' = akTokens /\ clientDeleted' = clientDeleted /\ keyDeleted' = keyDeleted
          /\ akAccepted' = akAccepted /\ revived' = revived
      BY <1>6 DEF ApiKeys!Exchange, ApiKeys!PresentToken, ApiKeys!PresentKey
    <3>2. /\ j.pc # "mint" /\ j.pc # "touch" /\ j.at <= akNow
          /\ j.pc = "key" => (j.after => keyDeleted)
      BY <1>0, <2>1
    <3>3. akTokens' \subseteq ApiKeys!Token /\ \A t \in akTokens' : t.expires <= Deadline
      BY <1>0, <1>5, <3>1
    <3> QED
      BY <1>4, <1>5, <2>1, <3>1, <3>2, <3>3
<1>7. ASSUME NEW r \in Request, ApiKeys!FindClient(r) PROVE ApiKeysInv'
  <2>1. akWork[r] \in ApiJob /\ akWork[r].at \in Nat /\ akWork[r].at <= akNow
    BY <1>0, <1>7 DEF ApiKeys!FindClient, ApiTypes, ApiJob
  <2>2. CASE akWork' = [akWork EXCEPT ![r] = None]
    BY <1>0, <1>4, <1>5, <1>7, <2>2 DEF ApiKeys!FindClient
  <2>3. CASE client /\ akWork' = [akWork EXCEPT ![r].pc = "mint"]
    <3>1. [akWork[r] EXCEPT !.pc = "mint"] \in ApiJob
      BY <1>7, <2>1 DEF ApiKeys!FindClient, ApiJob
    <3>2. PICK j \in ApiJob : j = [akWork[r] EXCEPT !.pc = "mint"]
      BY <3>1
    <3>3. akWork' = [akWork EXCEPT ![r] = j]
      BY <2>3, <3>2
    <3>4. j.pc = "mint" /\ j.at = akWork[r].at
      BY <2>1, <3>2 DEF ApiJob
    <3>5. j.at + Ttl <= Deadline
      BY <1>0, <2>1, <2>3, <3>4 DEF Deadline, TokensEnd
    <3> QED
      BY <1>0, <1>4, <1>5, <1>7, <2>1, <3>3, <3>4, <3>5 DEF ApiKeys!FindClient
  <2> QED
    BY <1>7, <2>2, <2>3 DEF ApiKeys!FindClient
<1>8. ASSUME NEW r \in Request, ApiKeys!MintToken(r) PROVE ApiKeysInv'
  <2>1. akWork[r] \in ApiJob /\ akWork[r].at \in Nat /\ akWork[r].at + Ttl <= Deadline
    BY <1>0, <1>8 DEF ApiKeys!MintToken, ApiJob, TokensEnd
  <2>2. PICK t \in ApiKeys!Token : t.expires = akWork[r].at + Ttl /\ akTokens' = akTokens \cup {t}
    <3>1. [expires |-> akWork[r].at + Ttl] \in ApiKeys!Token
      BY <1>0, <2>1 DEF ApiKeys!Token
    <3> QED
      BY <1>8, <3>1 DEF ApiKeys!MintToken, ApiKeys!Expiry
  <2> QED
    BY <1>0, <1>4, <1>5, <1>8, <2>1, <2>2 DEF ApiKeys!MintToken
<1>9. ASSUME NEW r \in Request, ApiKeys!VerifyAccessToken(r) PROVE ApiKeysInv'
  <2>1. akWork[r] \in ApiJob /\ akWork[r].at \in Nat /\ akWork[r].at <= akNow
    BY <1>0, <1>9 DEF ApiKeys!VerifyAccessToken, ApiTypes, ApiJob
  <2>2. akAccepted' = akAccepted \/ (akAccepted' \in 0 .. MaxApiNow /\ akAccepted' < Deadline)
    <3>1. CASE akAccepted' = akAccepted
      BY <3>1
    <3>2. CASE /\ akAccepted' = akWork[r].at
               /\ akWork[r].token \in akTokens /\ akWork[r].token.expires > akWork[r].at
      <4>1. akWork[r].token.expires <= Deadline /\ akWork[r].token.expires \in Nat
        BY <1>0, <1>5, <3>2
      <4>2. akWork[r].at \in 0 .. MaxApiNow
        BY <1>0, <2>1, AccessAssumption
      <4> QED
        BY <1>0, <2>1, <3>2, <4>1, <4>2
    <3> QED
      BY <1>9, <3>1, <3>2 DEF ApiKeys!VerifyAccessToken
  <2> QED
    BY <1>0, <1>4, <1>5, <1>9, <2>2 DEF ApiKeys!VerifyAccessToken
<1>10. ASSUME NEW r \in Request, ApiKeys!FindKey(r) PROVE ApiKeysInv'
  <2>1. /\ akWork[r] \in ApiJob /\ akWork[r].at \in Nat /\ akWork[r].at <= akNow
        /\ akWork[r].after \in BOOLEAN /\ akWork[r].after => keyDeleted
    BY <1>0, <1>10 DEF ApiKeys!FindKey, ApiTypes, ApiJob, KeyEnds
  <2>2. CASE akWork' = [akWork EXCEPT ![r] = None]
    BY <1>0, <1>4, <1>5, <1>10, <2>2 DEF ApiKeys!FindKey
  <2>3. CASE /\ key # None
             /\ akWork' = [akWork EXCEPT ![r] = [pc |-> "touch", at |-> akWork[r].at,
                                                 after |-> akWork[r].after, row |-> key]]
    <3>1. PICK j \in ApiJob : j = [pc |-> "touch", at |-> akWork[r].at,
                                   after |-> akWork[r].after, row |-> key]
      <4>1. key \in ApiKeys!Key /\ akWork[r] \in [pc : {"key"}, at : Nat, after : BOOLEAN]
        BY <1>5, <1>10, <2>1, <2>3 DEF ApiJob, ApiKeys!FindKey
      <4>2. [pc |-> "touch", at |-> akWork[r].at, after |-> akWork[r].after, row |-> key]
              \in [pc : {"touch"}, at : Nat, after : BOOLEAN, row : ApiKeys!Key]
        BY <4>1
      <4> QED
        BY <4>2 DEF ApiJob
    <3>2. akWork' = [akWork EXCEPT ![r] = j] /\ j.pc = "touch" /\ j.at = akWork[r].at
          /\ j.after = akWork[r].after
      BY <2>3, <3>1
    <3>3. ~j.after
      BY <1>0, <2>1, <2>3, <3>2 DEF KeyEnds
    <3> QED
      BY <1>0, <1>4, <1>5, <1>10, <2>1, <3>2, <3>3 DEF ApiKeys!FindKey
  <2> QED
    BY <1>10, <2>2, <2>3 DEF ApiKeys!FindKey
<1>11. ASSUME NEW r \in Request, ApiKeys!TouchKey(r) PROVE ApiKeysInv'
  <2>1. akWork[r] \in ApiJob /\ akWork[r].at \in Nat /\ ~akWork[r].after
    BY <1>0, <1>11 DEF ApiKeys!TouchKey, ApiJob, KeyEnds
  <2>2. key' \in ApiKeys!Key \cup {None} /\ (key = None => key' = None)
    BY <1>5, <1>11, <2>1 DEF ApiKeys!TouchKey, ApiKeys!Touched, ApiKeys!Key
  <2>3. revived' = revived
    BY <1>0, <1>11, <2>1 DEF ApiKeys!TouchKey, ApiKeys!TypeOK
  <2> QED
    BY <1>0, <1>4, <1>5, <1>11, <2>2, <2>3 DEF ApiKeys!TouchKey
<1> QED
  BY <1>2, <1>3, <1>6, <1>7, <1>8, <1>9, <1>10, <1>11 DEF ApiKeys!Next


-------------------------------------------------------------------------------
(* Organizations.                                                             *)

\* At first there is no organization.
LEMMA OrganizationsInit == Organizations!Init => OrganizationsInv
<1> SUFFICES ASSUME Organizations!Init PROVE OrganizationsInv
  OBVIOUS
<1>1. invitations \in Seq(Organizations!Invitation) /\ Len(invitations) <= MaxInvitation
      /\ DOMAIN invitations = {}
  BY AccessAssumption DEF Organizations!Init
<1>2. OrgTypes
  BY <1>1 DEF Organizations!Init, OrgTypes
<1> QED
  BY <1>2 DEF Organizations!Init, OrganizationsInv, Unfounded, Standing

\* What is written to an invitation leaves it one.
LEMMA InvitationsTyped ==
    ASSUME OrgTypes,
           \/ invitations' = invitations
           \/ \E i : invitations' = [invitations EXCEPT ![i].state = "revoked"]
           \/ \E i : invitations' = [invitations EXCEPT ![i].state = "accepted"]
           \/ \E i : invitations' = [invitations EXCEPT ![i].expired = TRUE]
    PROVE  /\ invitations' \in Seq(Organizations!Invitation) /\ Len(invitations') <= MaxInvitation
<1>1. /\ invitations \in Seq(Organizations!Invitation) /\ Len(invitations) <= MaxInvitation
      /\ DOMAIN invitations = 1 .. Len(invitations) /\ Len(invitations) \in Nat
      /\ \A i \in DOMAIN invitations : invitations[i] \in Organizations!Invitation
  BY DEF OrgTypes
<1>2. \A x \in Organizations!Invitation :
          /\ [x EXCEPT !.state = "revoked"] \in Organizations!Invitation
          /\ [x EXCEPT !.state = "accepted"] \in Organizations!Invitation
          /\ [x EXCEPT !.expired = TRUE] \in Organizations!Invitation
  BY DEF Organizations!Invitation
<1>3. ASSUME DOMAIN invitations' = DOMAIN invitations,
             \A i \in DOMAIN invitations : invitations'[i] \in Organizations!Invitation,
             invitations' = [i \in DOMAIN invitations |-> invitations'[i]]
      PROVE  invitations' \in Seq(Organizations!Invitation) /\ Len(invitations') <= MaxInvitation
  BY <1>1, <1>3
<1>4. ASSUME NEW k, invitations' = [invitations EXCEPT ![k].state = "revoked"]
      PROVE  invitations' \in Seq(Organizations!Invitation) /\ Len(invitations') <= MaxInvitation
  BY <1>1, <1>2, <1>3, <1>4
<1>5. ASSUME NEW k, invitations' = [invitations EXCEPT ![k].state = "accepted"]
      PROVE  invitations' \in Seq(Organizations!Invitation) /\ Len(invitations') <= MaxInvitation
  BY <1>1, <1>2, <1>3, <1>5
<1>6. ASSUME NEW k, invitations' = [invitations EXCEPT ![k].expired = TRUE]
      PROVE  invitations' \in Seq(Organizations!Invitation) /\ Len(invitations') <= MaxInvitation
  BY <1>1, <1>2, <1>3, <1>6
<1> QED
  BY <1>1, <1>4, <1>5, <1>6

\* A request that reads, invites or revokes keeps the invariant, if what it read does.
LEMMA OrgMoves ==
    ASSUME OrganizationsInv, NEW r \in Request, NEW j \in OrgJob \cup {None}, j # None => Heeds(j),
           orWork' = [orWork EXCEPT ![r] = j], organization' \in {"live", "deleted"},
           members' = members, ended' = ended, overtaken' = overtaken,
           invitations' \in Seq(Organizations!Invitation), Len(invitations') <= MaxInvitation
    PROVE  OrganizationsInv'
<1>1. /\ members \in [Pair -> Organizations!Membership \cup {None}]
      /\ ended \in [Pair -> {"no", "removed", "suspended"}] /\ overtaken \subseteq Pair
      /\ orWork \in [Request -> OrgJob \cup {None}]
  BY DEF OrganizationsInv, OrgTypes
<1>2. /\ orWork' \in [Request -> OrgJob \cup {None}] /\ orWork'[r] = j
      /\ \A q \in Request : q # r => orWork'[q] = orWork[q]
  BY <1>1
<1>3. OrgTypes'
  BY <1>1, <1>2 DEF OrgTypes
<1>4. \A u \in Pair : Standing(u)'
  BY DEF OrganizationsInv, Standing
<1>5. \A q \in Request : orWork'[q] # None => Heeds(orWork[q])' 
  BY <1>2 DEF OrganizationsInv, Heeds
<1> QED
  BY <1>3, <1>4, <1>5 DEF OrganizationsInv, Unfounded

\* A row that is saved ends no membership's end, unless the request was overtaken.
LEMMA OrgSaves ==
    ASSUME OrganizationsInv, NEW r \in Request, orWork[r] # None,
           NEW u \in Pair, u = orWork[r].user, NEW row \in Organizations!Membership,
           Organizations!SaveMembership(r, row),
           ended' = ended \/ (~orWork[r].late /\ ended' = [ended EXCEPT ![u] = "no"]),
           orWork[r].late \/ ended'[u] = "no" \/ u \in overtaken
               \/ (ended'[u] = "suspended" /\ row.status = "suspended"),
           organization' = organization, invitations' = invitations
    PROVE  OrganizationsInv'
<1>1. /\ members \in [Pair -> Organizations!Membership \cup {None}]
      /\ ended \in [Pair -> {"no", "removed", "suspended"}] /\ overtaken \subseteq Pair
      /\ orWork \in [Request -> OrgJob \cup {None}]
      /\ invitations \in Seq(Organizations!Invitation) /\ Len(invitations) <= MaxInvitation
      /\ organization \in {"live", "deleted"}
  BY DEF OrganizationsInv, OrgTypes, Unfounded
<1>2. /\ members' = [members EXCEPT ![u] = row] /\ orWork' = [orWork EXCEPT ![r] = None]
      /\ orWork[r].late => u \in overtaken'
      /\ overtaken \subseteq overtaken' /\ overtaken' \subseteq overtaken \cup {u}
  BY DEF Organizations!SaveMembership, Organizations!Done
<1>3. /\ orWork' \in [Request -> OrgJob \cup {None}] /\ orWork'[r] = None
      /\ \A q \in Request : q # r => orWork'[q] = orWork[q]
  BY <1>1, <1>2
<1>4. /\ ended' \in [Pair -> {"no", "removed", "suspended"}]
      /\ \A v \in Pair : ended'[v] = ended[v] \/ ended'[v] = "no"
      /\ \A v \in Pair : v # u => ended'[v] = ended[v]
  BY <1>1
<1>5. OrgTypes'
  BY <1>1, <1>2, <1>3, <1>4 DEF OrgTypes
<1>6. ASSUME NEW v \in Pair PROVE Standing(v)'
  <2>1. CASE v # u
    BY <1>1, <1>2, <1>4, <2>1 DEF OrganizationsInv, Standing
  <2>2. CASE v = u
    <3>1. members'[u] = row /\ row # None
      BY <1>1, <1>2, AccessAssumption
    <3> QED
      BY <1>2, <2>2, <3>1 DEF Standing
  <2> QED
    BY <2>1, <2>2
<1>7. ASSUME NEW q \in Request, orWork'[q] # None PROVE Heeds(orWork[q])'
  <2>1. orWork'[q] = orWork[q] /\ Heeds(orWork[q])
    BY <1>3, <1>7 DEF OrganizationsInv
  <2> QED
    BY <1>2, <1>4, <2>1 DEF Heeds
<1> QED
  BY <1>1, <1>5, <1>6, <1>7 DEF OrganizationsInv, Unfounded

-------------------------------------------------------------------------------
\* Whoever is removed or suspended overtakes the requests that read their row.
LEMMA OrgEnds ==
    ASSUME OrganizationsInv, NEW u \in Pair,
           \/ orWork' = Organizations!Overtaken(u)
           \/ \E r \in Request : orWork' = [Organizations!Overtaken(u) EXCEPT ![r] = None],
           members' \in [Pair -> Organizations!Membership \cup {None}],
           ended' \in [Pair -> {"no", "removed", "suspended"}],
           \A v \in Pair : v # u => members'[v] = members[v] /\ ended'[v] = ended[v],
           ended'[u] = "removed" => members'[u] = None,
           ended'[u] = "suspended" => members'[u] # None /\ members'[u].status = "suspended",
           members[u] # None \/ ended'[u] = ended[u],
           members[u] = None => members'[u] = None,
           overtaken' = overtaken \ {u}, organization' = organization, invitations' = invitations
    PROVE  OrganizationsInv'
<1>1. /\ overtaken \subseteq Pair /\ orWork \in [Request -> OrgJob \cup {None}]
      /\ invitations \in Seq(Organizations!Invitation) /\ Len(invitations) <= MaxInvitation
      /\ organization \in {"none", "live", "deleted"}
  BY DEF OrganizationsInv, OrgTypes
<1>2. \A j \in OrgJob : /\ [j EXCEPT !.late = TRUE] \in OrgJob
                        /\ [j EXCEPT !.late = TRUE].late = TRUE
                        /\ [j EXCEPT !.late = TRUE].pc = j.pc /\ [j EXCEPT !.late = TRUE].user = j.user
                        /\ [j EXCEPT !.late = TRUE].row = j.row
  BY DEF OrgJob
<1>3. \A q \in Request :
          \/ orWork'[q] = None
          \/ /\ orWork'[q] = orWork[q]
             /\ orWork[q].user # u \/ orWork[q].pc \notin {"owner", "roles", "assign"}
          \/ orWork[q] # None /\ orWork'[q] = [orWork[q] EXCEPT !.late = TRUE]
  <2> DEFINE after == Organizations!Overtaken(u)
  <2>1. DOMAIN after = Request
    BY DEF Organizations!Overtaken
  <2>2. ASSUME NEW q \in Request
        PROVE  \/ orWork[q] = None /\ after[q] = None
               \/ /\ after[q] = orWork[q]
                  /\ orWork[q].user # u \/ orWork[q].pc \notin {"owner", "roles", "assign"}
               \/ orWork[q] # None /\ after[q] = [orWork[q] EXCEPT !.late = TRUE]
    BY DEF Organizations!Overtaken
  <2>3. ASSUME NEW q \in Request PROVE orWork'[q] = None \/ orWork'[q] = after[q]
    <3>1. orWork' = after \/ \E r \in Request : orWork' = [after EXCEPT ![r] = None]
      OBVIOUS
    <3> HIDE DEF after
    <3> QED
      BY <2>1, <3>1
  <2> HIDE DEF after
  <2> QED
    BY <2>2, <2>3
<1>4. DOMAIN orWork' = Request /\ orWork' = [q \in Request |-> orWork'[q]]
  BY DEF Organizations!Overtaken
<1>5. ASSUME NEW q \in Request PROVE orWork'[q] \in OrgJob \cup {None}
  <2>1. orWork[q] \in OrgJob \cup {None}
    BY <1>1
  <2>2. CASE orWork[q] # None /\ orWork'[q] = [orWork[q] EXCEPT !.late = TRUE]
    BY <1>2, <2>1, <2>2
  <2> QED
    BY <1>3, <2>1, <2>2
<1>6. OrgTypes'
  BY <1>1, <1>4, <1>5 DEF OrgTypes
<1>7. ASSUME NEW v \in Pair PROVE Standing(v)'
  BY <1>1, <1>7 DEF OrganizationsInv, Standing
<1>8. ASSUME NEW q \in Request, orWork'[q] # None PROVE Heeds(orWork[q])'
  <2>1. CASE /\ orWork'[q] = orWork[q]
             /\ orWork[q].user # u \/ orWork[q].pc \notin {"owner", "roles", "assign"}
    <3>1. Heeds(orWork[q])
      BY <1>8, <2>1 DEF OrganizationsInv
    <3> QED
      BY <1>1, <2>1, <3>1 DEF Heeds
  <2>2. CASE orWork[q] # None /\ orWork'[q] = [orWork[q] EXCEPT !.late = TRUE]
    <3>1. Heeds(orWork[q]) /\ orWork[q] \in OrgJob
      BY <1>1, <2>2 DEF OrganizationsInv
    <3> QED
      BY <1>2, <2>2, <3>1 DEF Heeds
  <2> QED
    BY <1>3, <1>8, <2>1, <2>2
<1>9. Unfounded'
  BY <1>3 DEF OrganizationsInv, Unfounded
<1> QED
  BY <1>6, <1>7, <1>8, <1>9 DEF OrganizationsInv

\* An invitation brings back who was removed, and neither adds to nor revives what is suspended.
LEMMA OrgAccepts ==
    ASSUME OrganizationsInv, NEW i \in Organizations!Sent, Organizations!AcceptInvitation(i)
    PROVE  OrganizationsInv'
<1>1. /\ members \in [Pair -> Organizations!Membership \cup {None}]
      /\ ended \in [Pair -> {"no", "removed", "suspended"}] /\ overtaken \subseteq Pair
      /\ orWork \in [Request -> OrgJob \cup {None}]
      /\ organization = "live" /\ organization' = organization /\ orWork' = orWork
      /\ overtaken' = overtaken
  BY DEF OrganizationsInv, OrgTypes, Organizations!AcceptInvitation,
     Organizations!Acceptable
<1>2. PICK u \in Pair : u = invitations[i].user
  <2>1. invitations[i] \in Organizations!Invitation
    BY DEF OrganizationsInv, OrgTypes, Organizations!Sent
  <2> QED
    BY <2>1 DEF Organizations!Invitation
<1>3. members[u] # None => members[u].status # "suspended"
  BY <1>2 DEF Organizations!AcceptInvitation, Organizations!Acceptable
<1>4. PICK row \in Organizations!Membership :
        members' = [members EXCEPT ![u] = row]
  <2>1. Organizations!Active("joined") \in Organizations!Membership
    BY DEF Organizations!Active, Organizations!Membership, Organizations!Roles
  <2>2. members' = [members EXCEPT ![u] =
           IF members[u] # None /\ members[u] \in {Organizations!Active(x) : x \in Organizations!Roles}
           THEN members[u] ELSE Organizations!Active("joined")]
    BY <1>2 DEF Organizations!AcceptInvitation
  <2>3. members[u] \in Organizations!Membership \cup {None}
    BY <1>1
  <2> QED
    BY <2>1, <2>2, <2>3
<1>5. ended' = [ended EXCEPT ![u] = IF ended[u] = "removed" THEN "no" ELSE ended[u]]
  BY <1>2 DEF Organizations!AcceptInvitation
<1>6. /\ invitations' \in Seq(Organizations!Invitation) /\ Len(invitations') <= MaxInvitation
  <2>1. invitations' = [invitations EXCEPT ![i].state = "accepted"]
    BY DEF Organizations!AcceptInvitation
  <2> QED
    BY <2>1, InvitationsTyped DEF OrganizationsInv
<1>7. /\ ended' \in [Pair -> {"no", "removed", "suspended"}]
      /\ \A v \in Pair : ended'[v] = ended[v] \/ ended'[v] = "no"
      /\ \A v \in Pair : v # u => ended'[v] = ended[v]
      /\ ended'[u] # "removed" /\ (ended'[u] = "suspended" => ended[u] = "suspended")
  BY <1>1, <1>5
<1>8. OrgTypes'
  BY <1>1, <1>4, <1>6, <1>7 DEF OrgTypes
<1>9. ASSUME NEW v \in Pair PROVE Standing(v)'
  <2>1. CASE v # u
    BY <1>1, <1>4, <1>7, <2>1 DEF OrganizationsInv, Standing
  <2>2. CASE v = u
    <3>1. members'[u] = row /\ row # None
      BY <1>1, <1>4, AccessAssumption
    <3>2. ended'[u] = "suspended" => u \in overtaken
      BY <1>3, <1>7 DEF OrganizationsInv, Standing
    <3> QED
      BY <1>1, <1>7, <2>2, <3>1, <3>2 DEF Standing
  <2> QED
    BY <2>1, <2>2
<1>10. ASSUME NEW q \in Request, orWork'[q] # None PROVE Heeds(orWork[q])'
  <2>1. Heeds(orWork[q])
    BY <1>1, <1>10 DEF OrganizationsInv
  <2> QED
    BY <1>1, <1>7, <2>1 DEF Heeds
<1> QED
  BY <1>1, <1>8, <1>9, <1>10 DEF OrganizationsInv, Unfounded

-------------------------------------------------------------------------------
\* The cardinality that the module counts invitations with is that of FiniteSets.
LEMMA SameCount == \A S : Organizations!Cardinality(S) = Cardinality(S)
BY DEF Organizations!Cardinality, Cardinality

\* Every step of an organization keeps the invariant.
LEMMA OrganizationsNext == OrganizationsInv /\ [Organizations!Next]_orVars => OrganizationsInv'
<1> SUFFICES ASSUME OrganizationsInv, [Organizations!Next]_orVars PROVE OrganizationsInv'
  OBVIOUS
<1>0. /\ OrgTypes
      /\ members \in [Pair -> Organizations!Membership \cup {None}]
      /\ ended \in [Pair -> {"no", "removed", "suspended"}] /\ overtaken \subseteq Pair
      /\ orWork \in [Request -> OrgJob \cup {None}]
      /\ invitations \in Seq(Organizations!Invitation) /\ Len(invitations) <= MaxInvitation
      /\ organization \in {"none", "live", "deleted"}
  BY DEF OrganizationsInv, OrgTypes
<1>1. ASSUME NEW r \in Request, orWork[r] # None
      PROVE  /\ orWork[r] \in OrgJob /\ Heeds(orWork[r]) /\ organization \in {"live", "deleted"}
  BY <1>0, <1>1 DEF OrganizationsInv, Unfounded
<1>2. \A row \in {None} \cup Organizations!Membership \cup Nat, u \in Pair \cup {None} :
      \A pc \in {"owner", "managing", "send", "revoke", "roles", "assign"} :
          [pc |-> pc, user |-> u, row |-> row, late |-> FALSE] \in OrgJob
  BY DEF OrgJob
<1>3. ASSUME NEW r \in Request, NEW pc \in {"owner", "managing", "roles", "assign"},
             NEW u \in Pair \cup {None}, NEW row \in {None} \cup Organizations!Membership,
             Organizations!Hold(r, pc, u, row), organization' \in {"live", "deleted"},
             members' = members, ended' = ended, overtaken' = overtaken, invitations' = invitations,
             pc # "managing" => u \in Pair,
             pc = "owner" => ended[u] = "no",
             pc = "roles" => row \in Organizations!Membership,
             pc = "roles" /\ u \notin overtaken =>
                 ended[u] # "removed" /\ (ended[u] = "suspended" => row.status = "suspended")
      PROVE  OrganizationsInv'
  <2>1. PICK j \in OrgJob : j = [pc |-> pc, user |-> u, row |-> row, late |-> FALSE]
    BY <1>2
  <2>2. orWork' = [orWork EXCEPT ![r] = j]
    BY <1>3, <2>1 DEF Organizations!Hold
  <2>3. Heeds(j)
    BY <1>3, <2>1 DEF Heeds
  <2> QED
    BY <1>0, <1>3, <2>2, <2>3, OrgMoves
<1>4. ASSUME NEW r \in Request, NEW u \in Pair,
             Organizations!CreateOrganization(r, u) \/ Organizations!MayManage(r, u)
               \/ Organizations!AssignByDomain(r, u)
      PROVE  OrganizationsInv'
  <2>1. CASE Organizations!CreateOrganization(r, u)
    <3>1. ended[u] = "no"
      BY <2>1 DEF Organizations!CreateOrganization, OrganizationsInv, Unfounded
    <3> QED
      BY <1>3, <2>1, <3>1 DEF Organizations!CreateOrganization
  <2>2. CASE Organizations!MayManage(r, u)
    <3>1. organization # "none"
      BY <2>2 DEF Organizations!MayManage, OrganizationsInv, Unfounded
    <3> QED
      BY <1>0, <1>3, <2>2, <3>1 DEF Organizations!MayManage
  <2>3. CASE Organizations!AssignByDomain(r, u)
    BY <1>0, <1>3, <2>3 DEF Organizations!AssignByDomain
  <2> QED
    BY <1>4, <2>1, <2>2, <2>3
<1>5. ASSUME NEW r \in Request, NEW u \in Pair, Organizations!ReadMember(r, u) PROVE OrganizationsInv'
  <2>0. /\ organization' \in {"live", "deleted"} /\ members' = members /\ ended' = ended
        /\ overtaken' = overtaken /\ invitations' = invitations /\ orWork[r] # None
    BY <1>1, <1>5 DEF Organizations!ReadMember, Organizations!At
  <2>1. CASE members[u] # None /\ Organizations!Hold(r, "roles", u, members[u])
    <3>1. members[u] \in Organizations!Membership
      BY <1>0, <2>1
    <3>2. u \notin overtaken =>
              ended[u] # "removed" /\ (ended[u] = "suspended" => members[u].status = "suspended")
      BY <2>1 DEF OrganizationsInv, Standing
    <3> QED
      BY <1>3, <2>0, <2>1, <3>1, <3>2
  <2>2. CASE orWork' = [orWork EXCEPT ![r] = None]
    BY <1>0, <2>0, <2>2, OrgMoves
  <2> QED
    BY <1>5, <2>1, <2>2 DEF Organizations!ReadMember, Organizations!Known, Organizations!Done
<1>6. ASSUME NEW r \in Request, NEW u \in Pair, Organizations!Invite(r, u) PROVE OrganizationsInv'
  <2>1. /\ orWork[r] # None /\ orWork[r].pc = "managing" /\ organization' \in {"live", "deleted"}
        /\ members' = members /\ ended' = ended /\ overtaken' = overtaken
    BY <1>1, <1>6 DEF Organizations!Invite, Organizations!At
  <2>2. Cardinality(DOMAIN invitations) = Len(invitations) /\ Len(invitations) \in Nat
    <3>1. DOMAIN invitations = 1 .. Len(invitations) /\ Len(invitations) \in Nat
      BY <1>0
    <3>2. \A n \in Nat : Cardinality(1 .. n) = n
      BY FS_Interval
    <3> QED
      BY <3>1, <3>2
  <2>3. /\ invitations' = Append(invitations, Organizations!Pending(u))
        /\ Len(invitations) + 1 <= MaxInvitation
        /\ orWork' = [orWork EXCEPT ![r] = [orWork[r] EXCEPT !.pc = "send", !.row = Len(invitations) + 1]]
    BY <1>6, <2>2, SameCount DEF Organizations!Invite, Organizations!Sent
  <2>4. Organizations!Pending(u) \in Organizations!Invitation
    BY DEF Organizations!Pending, Organizations!Invitation
  <2>5. invitations' \in Seq(Organizations!Invitation) /\ Len(invitations') <= MaxInvitation
    BY <1>0, <2>3, <2>4
  <2>6. PICK j \in OrgJob : j = [orWork[r] EXCEPT !.pc = "send", !.row = Len(invitations) + 1]
    <3>1. \A x \in OrgJob, n \in Nat : [x EXCEPT !.pc = "send", !.row = n] \in OrgJob
      BY DEF OrgJob
    <3>2. orWork[r] \in OrgJob /\ Len(invitations) + 1 \in Nat
      BY <1>1, <2>1, <2>2
    <3> QED
      BY <3>1, <3>2
  <2>7. j.pc = "send"
    BY <1>1, <2>1, <2>6 DEF OrgJob
  <2>8. Heeds(j)
    BY <2>7 DEF Heeds
  <2> QED
    BY <1>0, <2>1, <2>3, <2>5, <2>6, <2>8, OrgMoves
<1>7. ASSUME NEW r \in Request, Organizations!ReadInvitation(r) PROVE OrganizationsInv'
  <2>1. /\ orWork[r] # None /\ orWork[r].pc = "managing" /\ organization' \in {"live", "deleted"}
        /\ members' = members /\ ended' = ended /\ overtaken' = overtaken /\ invitations' = invitations
    BY <1>1, <1>7 DEF Organizations!ReadInvitation, Organizations!At
  <2>2. PICK i \in DOMAIN invitations :
            orWork' = [orWork EXCEPT ![r] = [orWork[r] EXCEPT !.pc = "revoke", !.row = i]]
    BY <1>7 DEF Organizations!ReadInvitation, Organizations!Sent
  <2>3. i \in Nat
    BY <1>0, <2>2
  <2>4. PICK j \in OrgJob : j = [orWork[r] EXCEPT !.pc = "revoke", !.row = i]
    BY <1>1, <2>1, <2>3 DEF OrgJob
  <2>5. j.pc = "revoke"
    BY <1>1, <2>1, <2>4 DEF OrgJob
  <2>6. Heeds(j)
    BY <2>5 DEF Heeds
  <2> QED
    BY <1>0, <2>1, <2>2, <2>4, <2>6, OrgMoves
<1>8. ASSUME NEW r \in Request, Organizations!SendInvitation(r) \/ Organizations!RevokeInvitation(r)
      PROVE  OrganizationsInv'
  <2>1. /\ orWork[r] # None /\ orWork' = [orWork EXCEPT ![r] = None]
        /\ organization' \in {"live", "deleted"}
        /\ members' = members /\ ended' = ended /\ overtaken' = overtaken
        /\ \/ invitations' = invitations
           \/ invitations' = [invitations EXCEPT ![orWork[r].row].state = "revoked"]
    BY <1>1, <1>8 DEF Organizations!SendInvitation, Organizations!RevokeInvitation, Organizations!At,
       Organizations!Done, Organizations!Revoke, Organizations!Revoked
  <2>2. invitations' \in Seq(Organizations!Invitation) /\ Len(invitations') <= MaxInvitation
    BY <1>0, <2>1, InvitationsTyped
  <2> QED
    BY <1>0, <2>1, <2>2, OrgMoves
<1>9. ASSUME NEW r \in Request, Organizations!SaveOwner(r) \/ Organizations!SaveAssigned(r)
      PROVE  OrganizationsInv'
  <2>1. PICK row \in Organizations!Membership : row = Organizations!Active("joined")
    BY DEF Organizations!Active, Organizations!Membership, Organizations!Roles
  <2>2. /\ orWork[r] # None /\ orWork[r].pc \in {"owner", "assign"}
        /\ Organizations!SaveMembership(r, row)
        /\ organization' = organization /\ invitations' = invitations
    BY <1>9, <2>1 DEF Organizations!SaveOwner, Organizations!SaveAssigned, Organizations!At
  <2>3. PICK u \in Pair : u = orWork[r].user
    BY <1>1, <2>2 DEF Heeds
  <2>4. CASE Organizations!SaveOwner(r)
    <3>1. ended' = ended /\ orWork[r].pc = "owner"
      BY <2>4 DEF Organizations!SaveOwner, Organizations!At
    <3>2. orWork[r].late \/ ended[u] = "no"
      BY <1>1, <2>2, <2>3, <3>1 DEF Heeds
    <3> QED
      BY <2>2, <2>3, <3>1, <3>2, OrgSaves
  <2>5. CASE Organizations!SaveAssigned(r)
    <3>1. ended' = [ended EXCEPT ![u] = IF orWork[r].late THEN ended[u] ELSE "no"]
      BY <2>3, <2>5 DEF Organizations!SaveAssigned
    <3>2. orWork[r].late => ended' = ended
      BY <1>0, <3>1
    <3>3. ~orWork[r].late => ended' = [ended EXCEPT ![u] = "no"] /\ ended'[u] = "no"
      BY <1>0, <3>1
    <3> QED
      BY <2>2, <2>3, <3>2, <3>3, OrgSaves
  <2> QED
    BY <1>9, <2>4, <2>5
<1>10. ASSUME NEW r \in Request, Organizations!SetMemberRoles(r) PROVE OrganizationsInv'
  <2>1. /\ orWork[r] # None /\ orWork[r].pc = "roles"
        /\ Organizations!SaveMembership(r, [orWork[r].row EXCEPT !.roles = "assigned"])
        /\ organization' = organization /\ invitations' = invitations /\ ended' = ended
    BY <1>10 DEF Organizations!SetMemberRoles, Organizations!At
  <2>2. Heeds(orWork[r]) /\ orWork[r].row \in Organizations!Membership
    BY <1>1, <2>1 DEF Heeds
  <2>3. PICK u \in Pair : u = orWork[r].user
    BY <2>1, <2>2 DEF Heeds
  <2>4. PICK row \in Organizations!Membership :
            row = [orWork[r].row EXCEPT !.roles = "assigned"] /\ row.status = orWork[r].row.status
    <3>1. \A x \in Organizations!Membership :
              /\ [x EXCEPT !.roles = "assigned"] \in Organizations!Membership
              /\ [x EXCEPT !.roles = "assigned"].status = x.status
      BY DEF Organizations!Membership, Organizations!Roles
    <3> QED
      BY <2>2, <3>1
  <2>5. \/ orWork[r].late \/ ended[u] = "no" \/ u \in overtaken
        \/ (ended[u] = "suspended" /\ row.status = "suspended")
    BY <1>0, <2>1, <2>2, <2>3, <2>4 DEF Heeds
  <2> QED
    BY <2>1, <2>3, <2>4, <2>5, OrgSaves
<1>11. ASSUME NEW r \in Request, NEW u \in Pair, Organizations!RemoveMember(r, u)
       PROVE  OrganizationsInv'
  <2>1. /\ members' = [members EXCEPT ![u] = None]
        /\ ended' = [ended EXCEPT ![u] = IF members[u] # None THEN "removed" ELSE ended[u]]
        /\ overtaken' = overtaken \ {u} /\ organization' = organization /\ invitations' = invitations
        /\ orWork' = [Organizations!Overtaken(u) EXCEPT ![r] = None]
    BY <1>11 DEF Organizations!RemoveMember
  <2>2. /\ members' \in [Pair -> Organizations!Membership \cup {None}] /\ members'[u] = None
        /\ ended' \in [Pair -> {"no", "removed", "suspended"}]
        /\ \A v \in Pair : v # u => members'[v] = members[v] /\ ended'[v] = ended[v]
        /\ ended'[u] = IF members[u] # None THEN "removed" ELSE ended[u]
    BY <1>0, <2>1
  <2>3. members[u] = None => ended'[u] = ended[u] /\ ended[u] # "suspended"
    BY <2>2 DEF OrganizationsInv, Standing
  <2>4. ended'[u] # "suspended"
    BY <2>2, <2>3
  <2> QED
    BY <2>1, <2>2, <2>3, <2>4, OrgEnds
<1>12. ASSUME NEW u \in Pair, Organizations!Suspend(u) PROVE OrganizationsInv'
  <2>1. /\ members[u] # None
        /\ members' = [members EXCEPT ![u] = [members[u] EXCEPT !.status = "suspended"]]
        /\ ended' = [ended EXCEPT ![u] = "suspended"]
        /\ overtaken' = overtaken \ {u} /\ organization' = organization /\ invitations' = invitations
        /\ orWork' = Organizations!Overtaken(u)
    BY <1>12 DEF Organizations!Suspend, Organizations!Known
  <2>2. PICK row \in Organizations!Membership :
            row = [members[u] EXCEPT !.status = "suspended"] /\ row.status = "suspended"
    BY <1>0, <2>1 DEF Organizations!Membership
  <2>3. /\ members' \in [Pair -> Organizations!Membership \cup {None}] /\ members'[u] = row
        /\ ended' \in [Pair -> {"no", "removed", "suspended"}]
        /\ \A v \in Pair : v # u => members'[v] = members[v] /\ ended'[v] = ended[v]
        /\ ended'[u] = "suspended" /\ row # None
    BY <1>0, <2>1, <2>2, AccessAssumption
  <2> QED
    BY <2>1, <2>2, <2>3, OrgEnds
<1>13. ASSUME NEW i \in Organizations!Sent, Organizations!ExpireInvitation(i) PROVE OrganizationsInv'
  <2>1. /\ invitations' = [invitations EXCEPT ![i].expired = TRUE] /\ organization' = organization
        /\ members' = members /\ ended' = ended /\ overtaken' = overtaken /\ orWork' = orWork
    BY <1>13 DEF Organizations!ExpireInvitation
  <2>2. invitations' \in Seq(Organizations!Invitation) /\ Len(invitations') <= MaxInvitation
    BY <1>0, <2>1, InvitationsTyped
  <2>3. OrgTypes'
    BY <1>0, <2>1, <2>2 DEF OrgTypes
  <2> QED
    BY <2>1, <2>3 DEF OrganizationsInv, Unfounded, Standing, Heeds
<1>14. CASE Organizations!DeleteOrganization \/ UNCHANGED orVars
  <2>1. /\ invitations' = invitations /\ organization' \in {"none", "live", "deleted"}
        /\ organization' = "none" => organization = "none"
        /\ members' = members /\ ended' = ended /\ overtaken' = overtaken /\ orWork' = orWork
    BY <1>0, <1>14 DEF Organizations!DeleteOrganization, orVars
  <2>2. OrgTypes'
    BY <1>0, <2>1 DEF OrgTypes
  <2> QED
    BY <2>1, <2>2 DEF OrganizationsInv, Unfounded, Standing, Heeds
<1> QED
  BY <1>4, <1>5, <1>6, <1>7, <1>8, <1>9, <1>10, <1>11, <1>12, <1>13, <1>14, OrgAccepts
  DEF Organizations!Next

-------------------------------------------------------------------------------
\* At first no invitation is sent.
LEMMA InvitationsInit == Organizations!Init => InvitationsInv
BY DEF Organizations!Init, InvitationsInv

\* A request that goes on leaves the invitations alone, if it holds one of their rows.
LEMMA HoldsOn ==
    ASSUME OrganizationsInv, InvitationsInv, NEW r \in Request, NEW j, j # None => HoldsARow(j)',
           orWork' = [orWork EXCEPT ![r] = j], DOMAIN invitations \subseteq DOMAIN invitations'
    PROVE  \A q \in Request : orWork'[q] # None => HoldsARow(orWork[q])'
<1> SUFFICES ASSUME NEW q \in Request, orWork'[q] # None PROVE HoldsARow(orWork[q])'
  OBVIOUS
<1>1. DOMAIN orWork = Request
  BY DEF OrganizationsInv, OrgTypes
<1>2. CASE q = r
  BY <1>1, <1>2 DEF HoldsARow
<1>3. CASE q # r
  BY <1>1, <1>3 DEF InvitationsInv, HoldsARow
<1> QED
  BY <1>2, <1>3

\* A row that was closed stays closed, although revocations write back rows they read before.
LEMMA InvitationsNext == OrganizationsInv /\ InvitationsInv /\ [Organizations!Next]_orVars => InvitationsInv'
<1> SUFFICES ASSUME OrganizationsInv, InvitationsInv, [Organizations!Next]_orVars PROVE InvitationsInv'
  OBVIOUS
<1>0. /\ invitations \in Seq(Organizations!Invitation) /\ orWork \in [Request -> OrgJob \cup {None}]
      /\ \A i \in DOMAIN invitations : invitations[i] \in Organizations!Invitation
      /\ DOMAIN invitations = 1 .. Len(invitations) /\ Len(invitations) \in Nat
  <2>1. invitations \in Seq(Organizations!Invitation) /\ orWork \in [Request -> OrgJob \cup {None}]
    BY DEF OrganizationsInv, OrgTypes
  <2> QED
    BY <2>1
<1>1. ASSUME NEW r \in Request, NEW j, j # None => HoldsARow(j), orWork' = [orWork EXCEPT ![r] = j],
             invitations' = invitations, closed' = closed, reopened' = reopened
      PROVE  InvitationsInv'
  <2>1. j # None => HoldsARow(j)'
    BY <1>1 DEF HoldsARow
  <2> QED
    BY <1>1, <2>1, HoldsOn DEF InvitationsInv, Over
<1>2. ASSUME NEW r \in Request, NEW pc \in {"owner", "managing", "roles", "assign"}, NEW u, NEW row,
             Organizations!Hold(r, pc, u, row),
             invitations' = invitations, closed' = closed, reopened' = reopened
      PROVE  InvitationsInv'
  <2>1. PICK j : j = [pc |-> pc, user |-> u, row |-> row, late |-> FALSE]
    OBVIOUS
  <2>2. HoldsARow(j)
    BY <2>1 DEF HoldsARow
  <2> QED
    BY <1>1, <1>2, <2>1, <2>2 DEF Organizations!Hold
<1>3. ASSUME NEW r \in Request, Organizations!Done(r),
             invitations' = invitations, closed' = closed, reopened' = reopened
      PROVE  InvitationsInv'
  <2>1. PICK j : j = None
    OBVIOUS
  <2> QED
    BY <1>1, <1>3, <2>1 DEF Organizations!Done
<1>4. ASSUME NEW r \in Request, NEW u \in Pair,
             Organizations!CreateOrganization(r, u) \/ Organizations!MayManage(r, u)
               \/ Organizations!AssignByDomain(r, u) \/ Organizations!ReadMember(r, u)
      PROVE  InvitationsInv'
  BY <1>2, <1>3, <1>4 DEF Organizations!CreateOrganization, Organizations!MayManage,
     Organizations!AssignByDomain, Organizations!ReadMember, Organizations!passes
<1>5. ASSUME NEW r \in Request, Organizations!SaveOwner(r) \/ Organizations!SaveAssigned(r)
               \/ Organizations!SetMemberRoles(r)
      PROVE  InvitationsInv'
  BY <1>3, <1>5 DEF Organizations!SaveOwner, Organizations!SaveAssigned,
     Organizations!SetMemberRoles, Organizations!SaveMembership, Organizations!passes
<1>6. ASSUME NEW u \in Pair, invitations' = invitations, closed' = closed, reopened' = reopened,
             \/ orWork' = Organizations!Overtaken(u)
             \/ \E r \in Request : orWork' = [Organizations!Overtaken(u) EXCEPT ![r] = None]
      PROVE  InvitationsInv'
  <2>1. ASSUME NEW q \in Request, orWork'[q] # None
        PROVE  orWork[q] # None /\ orWork'[q].pc = orWork[q].pc /\ orWork'[q].row = orWork[q].row
    <3>1. orWork'[q] = Organizations!Overtaken(u)[q]
      BY <1>6, <2>1 DEF Organizations!Overtaken
    <3>2. orWork[q] # None
      BY <2>1, <3>1 DEF Organizations!Overtaken
    <3>3. orWork[q] \in OrgJob
      BY <1>0, <3>2
    <3>4. \A x \in OrgJob : [x EXCEPT !.late = TRUE].pc = x.pc /\ [x EXCEPT !.late = TRUE].row = x.row
      BY DEF OrgJob
    <3> QED
      BY <3>1, <3>2, <3>3, <3>4 DEF Organizations!Overtaken
  <2> QED
    BY <1>6, <2>1 DEF InvitationsInv, HoldsARow, Over
<1>7. CASE \/ \E u \in Pair : Organizations!Suspend(u)
           \/ \E r \in Request, u \in Pair : Organizations!RemoveMember(r, u)
  BY <1>6, <1>7 DEF Organizations!Suspend, Organizations!RemoveMember, Organizations!passes
<1>8. CASE Organizations!DeleteOrganization \/ UNCHANGED orVars
  BY <1>8 DEF Organizations!DeleteOrganization, Organizations!passes, orVars, InvitationsInv, HoldsARow, Over
<1>9. ASSUME NEW r \in Request, Organizations!ReadInvitation(r) PROVE InvitationsInv'
  <2>1. PICK i \in DOMAIN invitations :
            orWork' = [orWork EXCEPT ![r] = [orWork[r] EXCEPT !.pc = "revoke", !.row = i]]
    BY <1>9 DEF Organizations!ReadInvitation, Organizations!Sent
  <2>2. PICK j : j = [orWork[r] EXCEPT !.pc = "revoke", !.row = i]
    OBVIOUS
  <2>3. orWork[r] \in OrgJob
    BY <1>0, <1>9 DEF Organizations!ReadInvitation, Organizations!At
  <2>4. HoldsARow(j)
    BY <2>1, <2>2, <2>3 DEF HoldsARow, OrgJob
  <2> QED
    BY <1>1, <1>9, <2>1, <2>2, <2>4 DEF Organizations!ReadInvitation, Organizations!passes
<1>10. ASSUME NEW r \in Request, NEW u \in Pair, Organizations!Invite(r, u) PROVE InvitationsInv'
  <2>1. \A n \in Nat : Cardinality(1 .. n) = n
    BY FS_Interval
  <2>2. Organizations!Cardinality(DOMAIN invitations) = Len(invitations)
    BY <1>0, <2>1, SameCount
  <2>3. /\ invitations' = Append(invitations, Organizations!Pending(u))
        /\ orWork' = [orWork EXCEPT ![r] = [orWork[r] EXCEPT !.pc = "send", !.row = Len(invitations) + 1]]
        /\ closed' = closed /\ reopened' = reopened /\ orWork[r] # None
    BY <1>10, <2>2 DEF Organizations!Invite, Organizations!Sent, Organizations!At, Organizations!passes
  <2>4. /\ DOMAIN invitations' = 1 .. Len(invitations) + 1
        /\ \A i \in DOMAIN invitations : invitations'[i] = invitations[i]
    BY <1>0, <2>3
  <2>5. DOMAIN invitations \subseteq DOMAIN invitations'
    BY <1>0, <2>4
  <2>6. PICK j : j = [orWork[r] EXCEPT !.pc = "send", !.row = Len(invitations) + 1]
    OBVIOUS
  <2>7. orWork[r] \in OrgJob /\ Len(invitations) + 1 \in DOMAIN invitations'
    BY <1>0, <2>3, <2>4
  <2>8. HoldsARow(j)'
    BY <2>6, <2>7 DEF HoldsARow, OrgJob
  <2>9. \A q \in Request : orWork'[q] # None => HoldsARow(orWork[q])'
    BY <2>3, <2>5, <2>6, <2>8, HoldsOn
  <2> QED
    BY <2>3, <2>4, <2>5, <2>9 DEF InvitationsInv, Over
\* Whatever is written to a row that there is leaves those there are, and those that are over.
<1>11. ASSUME NEW i \in DOMAIN invitations, NEW row \in Organizations!Invitation,
              invitations' = [invitations EXCEPT ![i] = row], row.state # "pending" \/ row.expired,
              closed' = closed \cup {i}, reopened' = {},
              orWork' = orWork \/ \E r \in Request : Organizations!Done(r)
       PROVE  InvitationsInv'
  <2>1. /\ DOMAIN invitations' = DOMAIN invitations /\ invitations'[i] = row
        /\ \A k \in DOMAIN invitations : k # i => invitations'[k] = invitations[k]
    BY <1>11
  <2>2. \A q \in Request : orWork'[q] # None => orWork'[q] = orWork[q]
    BY <1>0, <1>11 DEF Organizations!Done
  <2>3. \A q \in Request : orWork'[q] # None => HoldsARow(orWork[q])'
    BY <2>1, <2>2 DEF InvitationsInv, HoldsARow
  <2>4. \A k \in closed' : Over(k)'
    BY <1>11, <2>1 DEF InvitationsInv, Over
  <2> QED
    BY <1>11, <2>1, <2>3, <2>4 DEF InvitationsInv
<1>12. \A x \in Organizations!Invitation :
           /\ [x EXCEPT !.state = "revoked"] \in Organizations!Invitation
           /\ [x EXCEPT !.state = "revoked"].state = "revoked"
           /\ [x EXCEPT !.state = "accepted"] \in Organizations!Invitation
           /\ [x EXCEPT !.state = "accepted"].state = "accepted"
           /\ [x EXCEPT !.expired = TRUE] \in Organizations!Invitation
           /\ [x EXCEPT !.expired = TRUE].expired
  BY DEF Organizations!Invitation
<1>13. ASSUME NEW r \in Request, Organizations!SendInvitation(r) \/ Organizations!RevokeInvitation(r)
       PROVE  InvitationsInv'
  <2>1. PICK i : i = orWork[r].row
    OBVIOUS
  <2>2. i \in DOMAIN invitations
    BY <1>13, <2>1 DEF Organizations!SendInvitation, Organizations!RevokeInvitation, Organizations!At,
       InvitationsInv, HoldsARow
  <2>3. CASE Organizations!Done(r) /\ Organizations!Revoke(i)
    <3>1. PICK row \in Organizations!Invitation :
              row = [invitations[i] EXCEPT !.state = "revoked"] /\ row.state = "revoked"
      BY <1>0, <1>12, <2>2
    <3>2. /\ invitations' = [invitations EXCEPT ![i] = row] /\ closed' = closed \cup {i}
          /\ reopened' = {}
      BY <2>3, <3>1 DEF Organizations!Revoke, Organizations!Revoked, InvitationsInv
    <3> QED
      BY <1>11, <2>2, <2>3, <3>1, <3>2
  <2> QED
    BY <1>3, <1>13, <2>1, <2>3 DEF Organizations!SendInvitation, Organizations!RevokeInvitation,
       Organizations!passes
<1>14. ASSUME NEW i \in Organizations!Sent,
              Organizations!ExpireInvitation(i) \/ Organizations!AcceptInvitation(i)
       PROVE  InvitationsInv'
  <2>1. i \in DOMAIN invitations
    BY DEF Organizations!Sent
  <2>2. CASE Organizations!ExpireInvitation(i)
    <3>1. PICK row \in Organizations!Invitation :
              row = [invitations[i] EXCEPT !.expired = TRUE] /\ row.expired
      BY <1>0, <1>12, <2>1
    <3> QED
      BY <1>11, <2>1, <2>2, <3>1 DEF Organizations!ExpireInvitation, InvitationsInv
  <2>3. CASE Organizations!AcceptInvitation(i)
    <3>1. PICK row \in Organizations!Invitation :
              row = [invitations[i] EXCEPT !.state = "accepted"] /\ row.state = "accepted"
      BY <1>0, <1>12, <2>1
    <3>2. i \notin closed
      BY <2>3 DEF Organizations!AcceptInvitation, Organizations!Acceptable, InvitationsInv, Over
    <3>3. /\ invitations' = [invitations EXCEPT ![i] = row] /\ closed' = closed \cup {i}
          /\ reopened' = {} /\ orWork' = orWork
      BY <2>3, <3>1, <3>2 DEF Organizations!AcceptInvitation, InvitationsInv
    <3> QED
      BY <1>11, <2>1, <3>1, <3>3
  <2> QED
    BY <1>14, <2>2, <2>3
<1> QED
  BY <1>4, <1>5, <1>7, <1>8, <1>9, <1>10, <1>13, <1>14 DEF Organizations!Next

-------------------------------------------------------------------------------
(* ClientRegistration.                                                        *)

\* At first no client is registered.
LEMMA ClientsInit == Clients!Init => ClientsInv
<1> SUFFICES ASSUME Clients!Init PROVE ClientsInv
  OBVIOUS
<1>1. DOMAIN owner = {}
  BY DEF Clients!Init
<1>2. Clients!TypeOK
  BY <1>1 DEF Clients!Init, Clients!TypeOK
<1> QED
  BY <1>2 DEF Clients!Init, ClientsInv, AllMind, RevokedHoldNothing, DeletedStayOut, TokensForgotten

\* A request that goes on with a job that minds the invariant keeps what the requests mind.
LEMMA ClMoves ==
    ASSUME ClientsInv, NEW r \in Request, NEW j \in ClJob \cup {None},
           clWork' = [clWork EXCEPT ![r] = j], j # None => Minds(j)',
           clStore' = clStore, retired' = retired, deleted' = deleted,
           minted \subseteq minted', codes' \subseteq codes, clDevices' \subseteq clDevices,
           \A c \in clients' : c \in clients \/ c \notin minted \/ clStore = "memory",
           \A c \in families' \ escaped' : c \in families \ escaped \/ ~AllDry(c),
           j # None => (j.op \in FamilyOps => j.late \/ ~Dry(j.op, j.client))
    PROVE  AllMind' /\ RevokedHoldNothing'
<1>1. clWork \in [Request -> {None} \cup ClJob]
  BY DEF ClientsInv, Clients!TypeOK, ClJob
<1>2. clWork'[r] = j /\ \A q \in Request : q # r => clWork'[q] = clWork[q]
  BY <1>1
<1>3. ASSUME NEW op \in FamilyOps, NEW c, Dry(op, c) PROVE Dry(op, c)'
  <2>1. c \notin Source(op)'
    BY <1>3 DEF Dry, Source
  <2>2. ASSUME NEW q \in Request, clWork'[q] # None, clWork'[q].op = op, clWork'[q].client = c
        PROVE  clWork'[q].late
    <3>1. CASE q = r
      <4>1. j # None /\ j.op = op /\ j.client = c
        BY <1>2, <2>2, <3>1
      <4>2. j.late
        BY <1>3, <4>1
      <4> QED
        BY <1>2, <3>1, <4>2
    <3>2. CASE q # r
      BY <1>2, <1>3, <2>2, <3>2 DEF Dry
    <3> QED
      BY <3>1, <3>2
  <2> QED
    BY <2>1, <2>2 DEF Dry
<1>4. ASSUME NEW q \in Request, clWork'[q] # None PROVE Minds(clWork[q])'
  <2>1. CASE q = r
    <3>1. j # None /\ Minds(j)'
      BY <1>2, <1>4, <2>1
    <3> QED
      BY <1>2, <2>1, <3>1 DEF Minds, OfItsKind, Swept, Dry, Source
  <2>2. CASE q # r
    <3>1. PICK k : k = clWork[q] /\ clWork'[q] = k
      BY <1>2, <2>2
    <3>2. Minds(k)
      BY <1>4, <3>1 DEF ClientsInv, AllMind
    <3>3. OfItsKind(k)'
      BY <3>2 DEF Minds, OfItsKind
    <3>4. clStore' = "postgres" /\ k.op = "delete" /\ k.pc = "forget" => k.client \notin clients'
      <4> SUFFICES ASSUME clStore = "postgres", k.op = "delete", k.pc = "forget" PROVE k.client \notin clients'
        OBVIOUS
      <4>1. k.client \in minted /\ k.client \notin clients
        BY <3>2 DEF Minds, OfItsKind
      <4> QED
        BY <4>1
    <3>5. ASSUME NEW op \in Swept(k.pc), k.op = "revoke" PROVE Dry(op, k.client) /\ Dry(op, k.client)'
      <4>1. Dry(op, k.client) /\ op \in FamilyOps
        BY <3>2, <3>5 DEF Minds, Swept
      <4> QED
        BY <4>1, <1>3
    <3>6. k.op = "revoke" /\ k.pc = "forget" => k.client \notin families' \ escaped'
      BY <3>2, <3>5 DEF Minds, Swept, AllDry
    <3>7. k.op \in {"register", "update"} /\ ~k.late => k.client \notin retired'
      BY <3>2 DEF Minds
    <3>8. Minds(k)'
      BY <3>3, <3>4, <3>5, <3>6, <3>7 DEF Minds
    <3> QED
      BY <3>1, <3>8 DEF Minds, OfItsKind, Swept, Dry, Source
  <2> QED
    BY <2>1, <2>2
<1>5. ASSUME NEW c \in retired \ deleted PROVE AllDry(c)' /\ c \notin families' \ escaped'
  <2>1. AllDry(c) /\ c \notin families \ escaped
    BY <1>5 DEF ClientsInv, RevokedHoldNothing
  <2> QED
    BY <1>3, <2>1 DEF AllDry
<1>6. AllMind'
  BY <1>4 DEF AllMind
<1> QED
  BY <1>5, <1>6 DEF RevokedHoldNothing

-------------------------------------------------------------------------------
\* What the types say of a request that works.
LEMMA ClAt ==
    ASSUME ClientsInv, NEW r \in Request, clWork[r] # None
    PROVE  /\ clWork[r] \in ClJob /\ Minds(clWork[r]) /\ OfItsKind(clWork[r])
           /\ clWork \in [Request -> {None} \cup ClJob]
           /\ \A pc \in Clients!Steps : /\ [clWork[r] EXCEPT !.pc = pc] \in ClJob
                                        /\ [clWork[r] EXCEPT !.pc = pc].pc = pc
                                        /\ [clWork[r] EXCEPT !.pc = pc].op = clWork[r].op
                                        /\ [clWork[r] EXCEPT !.pc = pc].client = clWork[r].client
                                        /\ [clWork[r] EXCEPT !.pc = pc].late = clWork[r].late
<1>1. clWork \in [Request -> {None} \cup ClJob]
  BY DEF ClientsInv, Clients!TypeOK, ClJob
<1>2. clWork[r] \in ClJob
  BY <1>1
<1>3. \A j \in ClJob, pc \in Clients!Steps :
          /\ [j EXCEPT !.pc = pc] \in ClJob /\ [j EXCEPT !.pc = pc].pc = pc
          /\ [j EXCEPT !.pc = pc].op = j.op /\ [j EXCEPT !.pc = pc].client = j.client
          /\ [j EXCEPT !.pc = pc].late = j.late
  BY DEF ClJob
<1> QED
  BY <1>1, <1>2, <1>3 DEF ClientsInv, AllMind, Minds

\* A request that begins, goes on or ends and leaves clients, tokens and grants alone.
LEMMA ClOnly ==
    ASSUME ClientsInv, NEW r \in Request, NEW j \in ClJob \cup {None},
           clWork' = [clWork EXCEPT ![r] = j], j # None => Minds(j)',
           j # None => (j.op \in FamilyOps => j.late \/ ~Dry(j.op, j.client)),
           initial' \in BOOLEAN, clHeld' \subseteq DOMAIN owner,
           clStore' = clStore, gated' = gated, minted' = minted, clients' = clients,
           clTokens' \subseteq clTokens, owner' = owner, codes' \subseteq codes, clDevices' \subseteq clDevices,
           families' \subseteq families, families' \ escaped' \subseteq families \ escaped,
           escaped' = escaped, retired' = retired, deleted' = deleted, excused' = excused
    PROVE  ClientsInv'
<1>1. AllMind' /\ RevokedHoldNothing'
  BY ClMoves
<1>2. clWork' \in [Request -> {None} \cup ClJob]
  BY DEF ClientsInv, Clients!TypeOK, ClJob
<1>3. Clients!TypeOK'
  BY <1>2 DEF ClientsInv, Clients!TypeOK, ClJob
<1>4. DeletedStayOut' /\ TokensForgotten'
  BY DEF ClientsInv, DeletedStayOut, TokensForgotten
<1> QED
  BY <1>1, <1>3, <1>4 DEF ClientsInv

\* A token that is minted belongs to a client that is not retired, or its request was late.
LEMMA ClMints ==
    ASSUME ClientsInv, NEW r \in Request, clWork[r] # None, clWork[r].pc \in {"token", "insert"},
           NEW others, others \subseteq clTokens, Clients!Mint(r, others),
           clStore' = clStore, gated' = gated, initial' = initial, minted' = minted,
           clients' = clients, codes' = codes, clDevices' = clDevices, families' = families,
           retired' = retired,
           deleted' = deleted, escaped' = escaped
    PROVE  ClientsInv'
<1>0. /\ clWork[r] \in ClJob /\ Minds(clWork[r]) /\ OfItsKind(clWork[r])
      /\ clWork \in [Request -> {None} \cup ClJob]
      /\ clWork[r].op \in {"register", "update"} /\ clWork[r].client \in minted
  BY ClAt DEF OfItsKind
<1>1. PICK t \in Clients!Token :
        /\ owner' = [u \in DOMAIN owner \cup {t} |-> IF u = t THEN clWork[r].client ELSE owner[u]]
        /\ clTokens' = others \cup {t}
        /\ excused' = IF clWork[r].late THEN excused \cup {t} ELSE excused
        /\ IF clWork[r].op = "register"
           THEN clWork' = [clWork EXCEPT ![r].pc = "notify"] /\ clHeld' = clHeld
           ELSE clWork' = [clWork EXCEPT ![r] = None] /\ clHeld' = clHeld \cup {t}
  BY DEF Clients!Mint, Clients!Go, Clients!Done
<1>2. PICK j \in ClJob \cup {None} :
        /\ clWork' = [clWork EXCEPT ![r] = j]
        /\ j # None => /\ j.op = "register" /\ j.pc = "notify" /\ j.client = clWork[r].client
                       /\ j.late = clWork[r].late
  <2>1. CASE clWork' = [clWork EXCEPT ![r] = None]
    BY <2>1
  <2>2. CASE clWork[r].op = "register" /\ clWork' = [clWork EXCEPT ![r].pc = "notify"]
    <3>1. PICK j \in ClJob : j = [clWork[r] EXCEPT !.pc = "notify"] /\ j.op = "register"
                             /\ j.pc = "notify" /\ j.client = clWork[r].client
                             /\ j.late = clWork[r].late
      <4>1. "notify" \in Clients!Steps
        BY DEF Clients!Steps
      <4>2. /\ [clWork[r] EXCEPT !.pc = "notify"] \in ClJob
            /\ [clWork[r] EXCEPT !.pc = "notify"].pc = "notify"
            /\ [clWork[r] EXCEPT !.pc = "notify"].op = clWork[r].op
            /\ [clWork[r] EXCEPT !.pc = "notify"].client = clWork[r].client
            /\ [clWork[r] EXCEPT !.pc = "notify"].late = clWork[r].late
        BY <4>1, ClAt
      <4> QED
        BY <2>2, <4>2
    <3> QED
      BY <2>2, <3>1
  <2> QED
    BY <1>1, <2>1, <2>2
<1>3. j # None => Minds(j)' /\ j.op \notin FamilyOps
  BY <1>0, <1>2 DEF Minds, OfItsKind, FamilyOps, Swept
<1>4. AllMind' /\ RevokedHoldNothing'
  BY <1>2, <1>3, ClMoves
<1>5. clWork' \in [Request -> {None} \cup ClJob]
  BY <1>0, <1>2
<1>6. /\ clTokens \subseteq DOMAIN owner /\ clHeld \subseteq DOMAIN owner
      /\ DOMAIN owner \subseteq Clients!Token /\ \A u \in DOMAIN owner : owner[u] \in minted
      /\ excused \subseteq One \cup Clients!Token
  BY DEF ClientsInv, Clients!TypeOK
<1>7. /\ DOMAIN owner' = DOMAIN owner \cup {t} /\ owner'[t] = clWork[r].client
      /\ \A u \in DOMAIN owner : u # t => owner'[u] = owner[u]
  BY <1>1
<1>8. Clients!TypeOK'
  <2>1. /\ DOMAIN owner' \subseteq Clients!Token /\ \A u \in DOMAIN owner' : owner'[u] \in minted
        /\ clTokens' \subseteq DOMAIN owner' /\ clHeld' \subseteq DOMAIN owner'
        /\ excused' \subseteq One \cup Clients!Token
    BY <1>0, <1>1, <1>6, <1>7
  <2> QED
    BY <1>5, <2>1 DEF ClientsInv, Clients!TypeOK, ClJob
<1>9. TokensForgotten'
  <2> SUFFICES ASSUME NEW u \in clTokens', owner'[u] \in retired PROVE u \in excused'
    BY DEF TokensForgotten
  <2>1. CASE u = t
    BY <1>0, <1>1, <1>7, <2>1 DEF Minds
  <2>2. CASE u # t
    BY <1>1, <1>6, <1>7, <2>2 DEF ClientsInv, TokensForgotten
  <2> QED
    BY <2>1, <2>2
<1>10. DeletedStayOut'
  BY <1>1 DEF ClientsInv, DeletedStayOut
<1> QED
  BY <1>4, <1>8, <1>9, <1>10 DEF ClientsInv

\* The end of a deletion or of a revocation retires the client and overtakes those who write.
LEMMA ClForgets ==
    ASSUME ClientsInv, NEW r \in Request, Clients!ForgetTokens(r)
    PROVE  ClientsInv'
<1>0. /\ clWork[r] # None /\ clWork[r].pc = "forget"
      /\ clWork[r] \in ClJob /\ Minds(clWork[r]) /\ OfItsKind(clWork[r])
      /\ clWork \in [Request -> {None} \cup ClJob]
  BY ClAt DEF Clients!ForgetTokens, Clients!At
<1>1. clWork[r].op \in {"delete", "revoke"}
  BY <1>0 DEF OfItsKind, ClJob, FamilyOps
<1>2. PICK c \in One : c = clWork[r].client /\ c \in minted
  BY <1>0, <1>1 DEF OfItsKind, ClJob, FamilyOps
<1>3. /\ clTokens' = clTokens \ Clients!OfClient(c) /\ retired' = retired \cup {c}
      /\ deleted' = IF clWork[r].op = "delete" THEN deleted \cup {c} ELSE deleted
      /\ excused' = IF c \in clients /\ clWork[r].op = "delete" THEN excused \cup {c} ELSE excused
      /\ clWork' = [Clients!Late(clWork, c, {"register", "update"}) EXCEPT ![r] = None]
      /\ clStore' = clStore /\ gated' = gated /\ initial' = initial /\ minted' = minted
      /\ clients' = clients /\ codes' = codes /\ clDevices' = clDevices /\ families' = families
      /\ owner' = owner /\ clHeld' = clHeld /\ escaped' = escaped
  BY <1>2 DEF Clients!ForgetTokens, Clients!Forgotten, Clients!config, Clients!registry, Clients!grants
<1>4. \A k \in ClJob : /\ [k EXCEPT !.late = TRUE] \in ClJob /\ [k EXCEPT !.late = TRUE].late
                       /\ [k EXCEPT !.late = TRUE].op = k.op /\ [k EXCEPT !.late = TRUE].pc = k.pc
                       /\ [k EXCEPT !.late = TRUE].client = k.client
  BY DEF ClJob
<1>5. \A q \in Request :
          \/ clWork'[q] = None
          \/ /\ clWork'[q] = clWork[q]
             /\ clWork[q].client # c \/ clWork[q].op \notin {"register", "update"}
          \/ /\ clWork[q] # None /\ clWork'[q] = [clWork[q] EXCEPT !.late = TRUE]
             /\ clWork[q].op \in {"register", "update"}
  BY <1>3 DEF Clients!Late
<1>6. clWork' \in [Request -> {None} \cup ClJob]
  <2>1. ASSUME NEW q \in Request PROVE clWork'[q] \in {None} \cup ClJob
    <3>1. clWork[q] \in {None} \cup ClJob
      BY <1>0
    <3>2. CASE clWork[q] # None /\ clWork'[q] = [clWork[q] EXCEPT !.late = TRUE]
      BY <1>4, <3>1, <3>2
    <3> QED
      BY <1>5, <3>1, <3>2
  <2>2. clWork' = [q \in Request |-> clWork'[q]]
    BY <1>3 DEF Clients!Late
  <2> QED
    BY <2>1, <2>2
<1>7. Clients!TypeOK'
  BY <1>2, <1>3, <1>6 DEF ClientsInv, Clients!TypeOK, ClJob
<1>8. ASSUME NEW op \in FamilyOps, NEW d, Dry(op, d) PROVE Dry(op, d)'
  <2> SUFFICES ASSUME NEW q \in Request, clWork'[q] # None, clWork'[q].op = op,
                      clWork'[q].client = d
               PROVE  clWork'[q].late
    BY <1>3, <1>8 DEF Dry, Source
  <2>1. clWork'[q] = clWork[q]
    <3>1. clWork[q] # None => clWork[q] \in ClJob
      BY <1>0
    <3>2. ASSUME clWork[q] # None, clWork'[q] = [clWork[q] EXCEPT !.late = TRUE],
                 clWork[q].op \in {"register", "update"}
          PROVE  FALSE
      <4>1. clWork'[q].op = clWork[q].op
        BY <1>4, <3>1, <3>2
      <4> QED
        BY <3>2, <4>1 DEF FamilyOps
    <3> QED
      BY <1>5, <3>2
  <2> QED
    BY <1>8, <2>1 DEF Dry
<1>9. ASSUME NEW q \in Request, clWork'[q] # None PROVE Minds(clWork[q])'
  <2>1. PICK k \in ClJob :
            /\ k = clWork[q] /\ clWork[q] # None /\ Minds(k)
            /\ clWork'[q].op = k.op /\ clWork'[q].pc = k.pc /\ clWork'[q].client = k.client
            /\ clWork'[q].late \/ (clWork'[q] = k /\ (k.client # c \/ k.op \notin {"register", "update"}))
            /\ k.op \notin {"register", "update"} => clWork'[q] = k
    <3>1. clWork[q] # None
      BY <1>5, <1>9
    <3>2. clWork[q] \in ClJob /\ Minds(clWork[q])
      BY <3>1, ClAt
    <3>3. PICK k \in ClJob : k = clWork[q]
      BY <3>2
    <3>4. CASE clWork'[q] = k /\ (k.client # c \/ k.op \notin {"register", "update"})
      BY <3>1, <3>2, <3>3, <3>4
    <3>5. CASE clWork'[q] = [k EXCEPT !.late = TRUE] /\ k.op \in {"register", "update"}
      BY <1>4, <3>1, <3>2, <3>3, <3>5
    <3> QED
      BY <1>5, <1>9, <3>3, <3>4, <3>5
  <2>2. OfItsKind(clWork[q])'
    BY <1>3, <2>1 DEF Minds, OfItsKind, FamilyOps, Swept
  <2>3. clWork'[q].op \in {"register", "update"} /\ ~clWork'[q].late => clWork'[q].client \notin retired'
    BY <1>3, <2>1 DEF Minds
  <2>4. clStore = "postgres" /\ k.op = "delete" /\ k.pc = "forget" => k.client \notin clients
    BY <2>1 DEF Minds
  <2>5. ASSUME NEW op \in Swept(k.pc), k.op = "revoke" PROVE Dry(op, k.client)'
    <3>1. Dry(op, k.client) /\ op \in FamilyOps
      BY <2>1, <2>5 DEF Minds, Swept
    <3> QED
      BY <1>8, <3>1
  <2>6. k.op = "revoke" /\ k.pc = "forget" => k.client \notin families \ escaped
    BY <2>1 DEF Minds
  <2>7. clWork'[q].op = "revoke" => \A op \in Swept(clWork'[q].pc) : Dry(op, clWork[q].client)'
    BY <2>1, <2>5 DEF Dry, Source
  <2> QED
    BY <1>3, <2>1, <2>2, <2>3, <2>4, <2>6, <2>7 DEF Minds
<1>10. ASSUME NEW d \in retired' \ deleted' PROVE AllDry(d)' /\ d \notin families \ escaped
  <2>1. AllDry(d) /\ d \notin families \ escaped
    <3>1. CASE d \in retired \ deleted
      BY <3>1 DEF ClientsInv, RevokedHoldNothing
    <3>2. CASE d = c /\ clWork[r].op = "revoke"
      BY <1>0, <1>2, <3>2 DEF Minds, Swept, AllDry
    <3> QED
      BY <1>1, <1>3, <3>1, <3>2
  <2> QED
    BY <1>8, <2>1 DEF AllDry
<1>11. DeletedStayOut'
  <2> SUFFICES ASSUME NEW d \in deleted' \cap clients PROVE clStore = "memory" /\ d \in excused'
    BY <1>3 DEF DeletedStayOut
  <2>1. CASE d \in deleted
    BY <1>3, <2>1 DEF ClientsInv, DeletedStayOut
  <2>2. CASE d = c /\ clWork[r].op = "delete"
    <3>1. clStore # "postgres" /\ clStore \in {"memory", "postgres"}
      BY <1>0, <1>2, <2>2 DEF Minds, ClientsInv, Clients!TypeOK
    <3> QED
      BY <1>3, <2>2, <3>1
  <2> QED
    BY <1>3, <2>1, <2>2
<1>12. TokensForgotten'
  <2> SUFFICES ASSUME NEW t \in clTokens', owner[t] \in retired' PROVE t \in excused'
    BY <1>3 DEF TokensForgotten
  <2>1. owner[t] # c
    BY <1>3 DEF Clients!OfClient, ClientsInv, Clients!TypeOK
  <2> QED
    BY <1>3, <2>1 DEF ClientsInv, TokensForgotten
<1>13. AllMind' /\ RevokedHoldNothing'
  BY <1>3, <1>9, <1>10 DEF AllMind, RevokedHoldNothing
<1> QED
  BY <1>7, <1>11, <1>12, <1>13 DEF ClientsInv

-------------------------------------------------------------------------------
\* A request that begins, goes on or ends where it changes no row.
LEMMA ClReads ==
    ASSUME ClientsInv, NEW r \in Request,
           \/ Clients!Register(r) \/ Clients!Decide(r) \/ Clients!Notify(r)
           \/ \E t \in Clients!Token : Clients!Manage(r, t)
           \/ \E c \in One : Clients!Revoke(r, c) \/ Clients!Exchange(r, c) \/ Clients!Redeem(r, c)
           \/ Clients!TakeDevice(r)
    PROVE  ClientsInv'
<1>0. /\ gated \in BOOLEAN /\ initial \in BOOLEAN /\ clHeld \subseteq DOMAIN owner
      /\ clTokens \subseteq DOMAIN owner /\ \A t \in DOMAIN owner : owner[t] \in minted
      /\ minted \subseteq One /\ clients \subseteq minted /\ codes \subseteq minted /\ clDevices \subseteq minted
  BY DEF ClientsInv, Clients!TypeOK
<1>1. \A op \in {"register", "update", "delete", "revoke", "exchange", "redeem"}, pc \in Clients!Steps,
         c \in One \cup {None}, late \in BOOLEAN :
             [op |-> op, pc |-> pc, client |-> c, late |-> late] \in ClJob
  BY DEF ClJob
<1>2. \A pc \in {"decide", "client", "delete", "codes", "take", "grant"} : pc \in Clients!Steps
  BY DEF Clients!Steps
<1>3. CASE Clients!Register(r)
  <2>1. PICK j \in ClJob : j = [op |-> "register", pc |-> "decide", client |-> None, late |-> FALSE]
    BY <1>1, <1>2
  <2>2. clWork' = [clWork EXCEPT ![r] = j]
    BY <1>3, <2>1 DEF Clients!Register, Clients!Start
  <2>3. Minds(j)'
    <3>1. None \notin retired'
      BY <1>3, AccessAssumption DEF Clients!Register, Clients!history, ClientsInv, Clients!TypeOK
    <3> QED
      BY <2>1, <3>1 DEF Minds, OfItsKind, FamilyOps, Swept
  <2>4. initial' \in BOOLEAN
    BY <1>0, <1>3 DEF Clients!Register, Clients!ConsumeInitial
  <2> QED
    BY <1>0, <1>3, <2>1, <2>2, <2>3, <2>4, ClOnly
    DEF FamilyOps, Clients!Register, Clients!config, Clients!registry, Clients!tokenRows, Clients!grants,
        Clients!history
<1>4. CASE Clients!Decide(r)
  <2>1. /\ clWork[r] # None /\ clWork[r].pc = "decide"
        /\ clWork' = [clWork EXCEPT ![r] = None] \/ clWork' = [clWork EXCEPT ![r].pc = "client"]
        /\ clStore' = clStore /\ gated' = gated /\ initial' = initial /\ minted' = minted
        /\ clients' = clients /\ clTokens' = clTokens /\ owner' = owner /\ clHeld' = clHeld
        /\ codes' = codes /\ clDevices' = clDevices /\ families' = families
        /\ retired' = retired /\ deleted' = deleted
        /\ excused' = excused /\ escaped' = escaped
    BY <1>4 DEF Clients!Decide, Clients!At, Clients!Done, Clients!Go, Clients!config,
       Clients!registry, Clients!tokenRows, Clients!grants, Clients!history
  <2>2. CASE clWork' = [clWork EXCEPT ![r] = None]
    BY <1>0, <2>1, <2>2, ClOnly DEF FamilyOps
  <2>3. CASE clWork' = [clWork EXCEPT ![r].pc = "client"]
    <3>1. PICK j \in ClJob :
            /\ clWork' = [clWork EXCEPT ![r] = j]
            /\ j.pc = "client" /\ j.op = clWork[r].op /\ j.client = clWork[r].client
            /\ j.late = clWork[r].late
      <4>1. "client" \in Clients!Steps
        BY <1>2
      <4>2. PICK j \in ClJob : j = [clWork[r] EXCEPT !.pc = "client"]
        BY <2>1, <4>1, ClAt
      <4>3. /\ j.pc = "client" /\ j.op = clWork[r].op /\ j.client = clWork[r].client
            /\ j.late = clWork[r].late
        BY <2>1, <4>1, <4>2, ClAt
      <4>4. clWork' = [clWork EXCEPT ![r] = j]
        BY <2>3, <4>2
      <4> QED
        BY <4>3, <4>4
    <3>2. Minds(clWork[r]) /\ clWork[r].op \in {"register", "update"}
      BY <2>1, ClAt DEF OfItsKind
    <3>3. Minds(j)' /\ j.op \notin FamilyOps
      <4>1. retired' = retired /\ minted' = minted
        BY <2>1
      <4> QED
        BY <2>1, <3>1, <3>2, <4>1 DEF Minds, OfItsKind, FamilyOps, Swept
    <3> QED
      BY <1>0, <2>1, <3>1, <3>3, ClOnly DEF FamilyOps
  <2> QED
    BY <2>1, <2>2, <2>3
<1>5. CASE Clients!Notify(r)
  <2>1. /\ clWork' = [clWork EXCEPT ![r] = None] /\ clHeld' \subseteq DOMAIN owner
    BY <1>0, <1>5 DEF Clients!Notify, Clients!Done
  <2> QED
    BY <1>0, <1>5, <2>1, ClOnly
    DEF FamilyOps, Clients!Notify, Clients!config, Clients!registry, Clients!grants, Clients!history
<1>6. ASSUME NEW t \in Clients!Token, Clients!Manage(r, t) PROVE ClientsInv'
  <2>1. t \in clTokens /\ owner[t] \in minted /\ owner[t] \in One /\ owner[t] # None
        /\ (t \in excused) \in BOOLEAN
    BY <1>0, <1>6, AccessAssumption DEF Clients!Manage
  <2>2. PICK j \in ClJob :
            /\ clWork' = [clWork EXCEPT ![r] = j]
            /\ (j.op = "update" /\ j.pc = "decide") \/ (j.op = "delete" /\ j.pc = "delete")
            /\ j.client = owner[t] /\ (j.late <=> t \in excused)
    <3>1. \A op \in {"update", "delete"}, pc \in {"decide", "delete"} :
            [op |-> op, pc |-> pc, client |-> owner[t], late |-> t \in excused] \in ClJob
      BY <1>1, <1>2, <2>1
    <3> QED
      BY <1>6, <3>1 DEF Clients!Manage, Clients!Start
  <2>3. owner[t] \in retired => t \in excused
    BY <2>1 DEF ClientsInv, TokensForgotten
  <2>4. /\ clStore' = clStore /\ gated' = gated /\ initial' = initial /\ minted' = minted
        /\ clients' = clients /\ clTokens' = clTokens /\ owner' = owner /\ clHeld' = clHeld
        /\ codes' = codes /\ clDevices' = clDevices /\ families' = families
        /\ retired' = retired /\ deleted' = deleted
        /\ excused' = excused /\ escaped' = escaped
    BY <1>6 DEF Clients!Manage, Clients!config, Clients!registry, Clients!tokenRows, Clients!grants,
       Clients!history
  <2>5. Minds(j)'
    BY <2>1, <2>2, <2>3, <2>4 DEF Minds, OfItsKind, FamilyOps, Swept
  <2> QED
    BY <1>0, <2>2, <2>4, <2>5, ClOnly DEF FamilyOps
<1>7. ASSUME NEW c \in One, Clients!Revoke(r, c) PROVE ClientsInv'
  <2>1. PICK j \in ClJob : j = [op |-> "revoke", pc |-> "codes", client |-> c, late |-> FALSE]
    BY <1>1, <1>2
  <2>2. clWork' = [clWork EXCEPT ![r] = j] /\ minted' = minted /\ c \in minted
    BY <1>7, <2>1 DEF Clients!Revoke, Clients!Start, Clients!registry
  <2>3. Minds(j)'
    BY <2>1, <2>2, AccessAssumption DEF Minds, OfItsKind, FamilyOps, Swept
  <2> QED
    BY <1>0, <1>7, <2>1, <2>2, <2>3, ClOnly
    DEF FamilyOps, Clients!Revoke, Clients!config, Clients!registry, Clients!tokenRows, Clients!grants,
        Clients!history
<1>8. ASSUME NEW c \in One, Clients!Exchange(r, c) PROVE ClientsInv'
  <2>1. PICK j \in ClJob : j = [op |-> "exchange", pc |-> "grant", client |-> c, late |-> FALSE]
    BY <1>1, <1>2
  <2>2. clWork' = [clWork EXCEPT ![r] = j] /\ minted' = minted /\ c \in minted /\ c \in codes
        /\ codes' \subseteq codes
    BY <1>0, <1>8, <2>1 DEF Clients!Exchange, Clients!Start, Clients!registry
  <2>3. Minds(j)'
    BY <2>1, <2>2, AccessAssumption DEF Minds, OfItsKind, FamilyOps, Swept
  <2>4. ~Dry(j.op, j.client)
    BY <2>1, <2>2 DEF Dry, Source
  <2> QED
    BY <1>0, <1>8, <2>1, <2>2, <2>3, <2>4, ClOnly
    DEF FamilyOps, Clients!Exchange, Clients!config, Clients!registry, Clients!tokenRows, Clients!history
<1>9. ASSUME NEW c \in One, Clients!Redeem(r, c) PROVE ClientsInv'
  <2>1. PICK j \in ClJob : j = [op |-> "redeem", pc |-> "take", client |-> c, late |-> FALSE]
    BY <1>1, <1>2
  <2>2. clWork' = [clWork EXCEPT ![r] = j] /\ minted' = minted /\ c \in minted /\ c \in clDevices
    BY <1>0, <1>9, <2>1 DEF Clients!Redeem, Clients!Start, Clients!registry
  <2>3. Minds(j)'
    BY <2>1, <2>2, AccessAssumption DEF Minds, OfItsKind, FamilyOps, Swept
  <2>4. ~Dry(j.op, j.client)
    BY <2>1, <2>2 DEF Dry, Source
  <2> QED
    BY <1>0, <1>9, <2>1, <2>2, <2>3, <2>4, ClOnly
    DEF FamilyOps, Clients!Redeem, Clients!config, Clients!registry, Clients!tokenRows, Clients!grants, Clients!history
<1>10. CASE Clients!TakeDevice(r)
  <2>1. /\ clWork[r] # None /\ clWork[r].pc = "take" /\ clWork' = [clWork EXCEPT ![r].pc = "grant"]
        /\ clDevices' \subseteq clDevices
        /\ clStore' = clStore /\ gated' = gated /\ initial' = initial /\ minted' = minted
        /\ clients' = clients /\ clTokens' = clTokens /\ owner' = owner /\ clHeld' = clHeld
        /\ codes' = codes /\ families' = families /\ retired' = retired /\ deleted' = deleted
        /\ excused' = excused /\ escaped' = escaped
    BY <1>10 DEF Clients!TakeDevice, Clients!At, Clients!Go, Clients!config, Clients!registry,
       Clients!tokenRows, Clients!history
  <2>2. PICK j \in ClJob :
            /\ clWork' = [clWork EXCEPT ![r] = j]
            /\ j.pc = "grant" /\ j.op = clWork[r].op /\ j.client = clWork[r].client
            /\ j.late = clWork[r].late
    <3>1. "grant" \in Clients!Steps
      BY <1>2
    <3>2. PICK j \in ClJob : j = [clWork[r] EXCEPT !.pc = "grant"]
      BY <2>1, <3>1, ClAt
    <3>3. j.pc = "grant" /\ j.op = clWork[r].op /\ j.client = clWork[r].client /\ j.late = clWork[r].late
      BY <2>1, <3>1, <3>2, ClAt
    <3> QED
      BY <2>1, <3>2, <3>3
  <2>3. Minds(clWork[r]) /\ clWork[r].op \in FamilyOps
    BY <2>1, ClAt DEF OfItsKind
  <2>4. j.late \/ ~Dry(j.op, j.client)
    BY <2>1, <2>2 DEF Dry
  <2>5. Minds(j)'
    <3>1. retired' = retired /\ minted' = minted
      BY <2>1
    <3> QED
      BY <2>1, <2>2, <2>3, <3>1 DEF Minds, OfItsKind, FamilyOps
  <2> QED
    BY <1>0, <2>1, <2>2, <2>4, <2>5, ClOnly DEF FamilyOps
<1> QED
  BY <1>3, <1>4, <1>5, <1>6, <1>7, <1>8, <1>9, <1>10

-------------------------------------------------------------------------------
\* Clients that are saved are new, those that are updated come back in memory alone, and those
\* that are deleted go.
LEMMA ClWrites ==
    ASSUME ClientsInv, NEW r \in Request,
           Clients!SaveClient(r) \/ Clients!UpdateClient(r) \/ Clients!DeleteClient(r)
    PROVE  ClientsInv'
<1>0. /\ clWork[r] # None /\ clWork[r].pc \in {"client", "delete"}
      /\ clWork[r] \in ClJob /\ Minds(clWork[r]) /\ OfItsKind(clWork[r])
      /\ clWork \in [Request -> {None} \cup ClJob]
  BY ClAt DEF Clients!SaveClient, Clients!UpdateClient, Clients!DeleteClient, Clients!Busy, Clients!At
<1>1. /\ minted \subseteq One /\ clients \subseteq minted /\ retired \subseteq minted
      /\ deleted \subseteq retired /\ clStore \in {"memory", "postgres"}
      /\ excused \subseteq One \cup Clients!Token
  BY DEF ClientsInv, Clients!TypeOK
<1>2. /\ clStore' = clStore /\ gated' = gated /\ initial' = initial /\ clTokens' = clTokens
      /\ owner' = owner /\ clHeld' = clHeld /\ codes' = codes /\ clDevices' = clDevices
      /\ families' = families
      /\ retired' = retired /\ deleted' = deleted /\ escaped' = escaped
      /\ minted \subseteq minted' /\ excused \subseteq excused'
  BY DEF Clients!SaveClient, Clients!UpdateClient, Clients!DeleteClient, Clients!config,
     Clients!registry, Clients!tokenRows, Clients!grants, Clients!history
<1>3. ASSUME NEW j \in ClJob, clWork' = [clWork EXCEPT ![r] = j], Minds(j)', j.op \notin FamilyOps,
             minted' \subseteq One, clients' \subseteq minted',
             excused' \subseteq One \cup Clients!Token,
             \A c \in clients' : c \in clients \/ c \notin minted \/ clStore = "memory",
             \A c \in clients' : c \in clients \/ c \notin deleted \/ (clStore = "memory" /\ c \in excused')
      PROVE  ClientsInv'
  <2>1. AllMind' /\ RevokedHoldNothing'
    BY <1>2, <1>3, ClMoves
  <2>2. clWork' \in [Request -> {None} \cup ClJob]
    BY <1>0, <1>3
  <2>3. Clients!TypeOK'
    BY <1>1, <1>2, <1>3, <2>2 DEF ClientsInv, Clients!TypeOK, ClJob
  <2>4. DeletedStayOut' /\ TokensForgotten'
    BY <1>2, <1>3 DEF ClientsInv, DeletedStayOut, TokensForgotten
  <2> QED
    BY <2>1, <2>3, <2>4 DEF ClientsInv
<1>4. CASE Clients!SaveClient(r)
  <2>1. PICK c \in One \ minted :
            /\ minted' = minted \cup {c} /\ clients' = clients \cup {c}
            /\ clWork' = [clWork EXCEPT ![r] = [clWork[r] EXCEPT !.client = c, !.pc = "token"]]
    BY <1>4 DEF Clients!SaveClient
  <2>2. clWork[r].op = "register" /\ excused' = excused
    BY <1>4 DEF Clients!SaveClient, Clients!Busy, Clients!history
  <2>3. PICK j \in ClJob : /\ j = [clWork[r] EXCEPT !.client = c, !.pc = "token"]
                           /\ j.op = "register" /\ j.pc = "token" /\ j.client = c
    <3>1. \A k \in ClJob : LET x == [k EXCEPT !.client = c, !.pc = "token"]
                           IN  x \in ClJob /\ x.op = k.op /\ x.pc = "token" /\ x.client = c
      BY DEF ClJob, Clients!Steps
    <3> QED
      BY <1>0, <2>2, <3>1
  <2>4. Minds(j)'
    BY <1>1, <1>2, <2>1, <2>3, AccessAssumption DEF Minds, OfItsKind, FamilyOps, Swept
  <2> QED
    BY <1>1, <1>3, <2>1, <2>2, <2>3, <2>4 DEF FamilyOps
<1>5. CASE Clients!UpdateClient(r)
  <2>1. /\ clWork[r].op = "update" /\ minted' = minted
        /\ clients' = IF clStore = "memory" THEN clients \cup {clWork[r].client} ELSE clients
        /\ excused' = IF clWork[r].late THEN excused \cup {clWork[r].client} ELSE excused
        /\ clWork' = [clWork EXCEPT ![r] = [clWork[r] EXCEPT !.pc = "token"]]
    BY <1>5 DEF Clients!UpdateClient, Clients!Busy, Clients!Go, Clients!Updated
  <2>2. clWork[r].client \in minted /\ (~clWork[r].late => clWork[r].client \notin retired)
    BY <1>0, <2>1 DEF Minds, OfItsKind, FamilyOps, Swept
  <2>3. "token" \in Clients!Steps
    BY DEF Clients!Steps
  <2>4. /\ [clWork[r] EXCEPT !.pc = "token"] \in ClJob
        /\ [clWork[r] EXCEPT !.pc = "token"].pc = "token"
        /\ [clWork[r] EXCEPT !.pc = "token"].op = clWork[r].op
        /\ [clWork[r] EXCEPT !.pc = "token"].client = clWork[r].client
        /\ [clWork[r] EXCEPT !.pc = "token"].late = clWork[r].late
    BY <1>0, <2>3, ClAt
  <2>5. PICK j \in ClJob : /\ j = [clWork[r] EXCEPT !.pc = "token"] /\ j.op = "update" /\ j.pc = "token"
                           /\ j.client = clWork[r].client /\ j.late = clWork[r].late
    BY <2>1, <2>4
  <2>6. Minds(j)'
    <3>1. j.client # None /\ j.client \in minted' /\ (~j.late => j.client \notin retired')
      BY <1>1, <1>2, <2>1, <2>2, <2>5, AccessAssumption
    <3> QED
      BY <2>5, <3>1 DEF Minds, OfItsKind, FamilyOps, Swept
  <2> QED
    BY <1>1, <1>3, <2>1, <2>2, <2>5, <2>6 DEF FamilyOps
<1>6. CASE Clients!DeleteClient(r)
  <2>1. /\ clWork[r].pc = "delete" /\ minted' = minted /\ excused' = excused
        /\ clients' = clients \ {clWork[r].client}
        /\ clWork' = [clWork EXCEPT ![r] = [clWork[r] EXCEPT !.pc = "forget"]]
    BY <1>6 DEF Clients!DeleteClient, Clients!At, Clients!Go, Clients!history
  <2>2. clWork[r].op = "delete" /\ clWork[r].client \in minted
    BY <1>0, <2>1 DEF OfItsKind, ClJob, FamilyOps
  <2>3. "forget" \in Clients!Steps
    BY DEF Clients!Steps
  <2>4. /\ [clWork[r] EXCEPT !.pc = "forget"] \in ClJob
        /\ [clWork[r] EXCEPT !.pc = "forget"].pc = "forget"
        /\ [clWork[r] EXCEPT !.pc = "forget"].op = clWork[r].op
        /\ [clWork[r] EXCEPT !.pc = "forget"].client = clWork[r].client
        /\ [clWork[r] EXCEPT !.pc = "forget"].late = clWork[r].late
    BY <1>0, <2>3, ClAt
  <2>5. PICK j \in ClJob : /\ j = [clWork[r] EXCEPT !.pc = "forget"] /\ j.op = "delete" /\ j.pc = "forget"
                           /\ j.client = clWork[r].client
    BY <2>2, <2>4
  <2>6. Minds(j)'
    <3>1. j.client # None /\ j.client \in minted' /\ j.client \notin clients'
      BY <1>1, <1>2, <2>1, <2>2, <2>5, AccessAssumption
    <3> QED
      BY <2>5, <3>1 DEF Minds, OfItsKind, FamilyOps, Swept
  <2> QED
    BY <1>1, <1>3, <2>1, <2>2, <2>5, <2>6 DEF FamilyOps
<1> QED
  BY <1>4, <1>5, <1>6

\* The token store keeps what it is told, in one step or two.
LEMMA ClSaves ==
    ASSUME ClientsInv, NEW r \in Request, Clients!SaveToken(r) \/ Clients!InsertToken(r)
    PROVE  ClientsInv'
<1>0. /\ clWork[r] # None /\ clWork[r].pc \in {"token", "insert"}
      /\ clWork[r] \in ClJob /\ Minds(clWork[r]) /\ OfItsKind(clWork[r])
      /\ clStore' = clStore /\ gated' = gated /\ initial' = initial /\ minted' = minted
      /\ clients' = clients /\ codes' = codes /\ clDevices' = clDevices /\ families' = families
      /\ retired' = retired
      /\ deleted' = deleted /\ escaped' = escaped
  BY ClAt DEF Clients!SaveToken, Clients!InsertToken, Clients!At, Clients!config, Clients!registry,
     Clients!grants
<1>1. ASSUME NEW others, others \subseteq clTokens, Clients!Mint(r, others) PROVE ClientsInv'
  BY <1>0, <1>1, ClMints
<1>2. CASE /\ clTokens' \subseteq clTokens /\ clWork' = [clWork EXCEPT ![r].pc = "insert"]
           /\ owner' = owner /\ clHeld' = clHeld /\ excused' = excused
  <2>1. "insert" \in Clients!Steps
    BY DEF Clients!Steps
  <2>2. PICK j \in ClJob :
            /\ clWork' = [clWork EXCEPT ![r] = j]
            /\ j.op = clWork[r].op /\ j.pc = "insert" /\ j.client = clWork[r].client
            /\ j.late = clWork[r].late
    BY <1>0, <1>2, <2>1, ClAt
  <2>3. clWork[r].op \in {"register", "update"} /\ clWork[r].client \in minted
    BY <1>0 DEF OfItsKind
  <2>4. Minds(j)' /\ j.op \notin FamilyOps
    BY <1>0, <2>2, <2>3 DEF Minds, OfItsKind, FamilyOps, Swept
  <2>5. clHeld' \subseteq DOMAIN owner /\ initial' \in BOOLEAN
    BY <1>0, <1>2 DEF ClientsInv, Clients!TypeOK
  <2> QED
    BY <1>0, <1>2, <2>2, <2>4, <2>5, ClOnly DEF FamilyOps
<1>3. clTokens \ Clients!OfClient(clWork[r].client) \subseteq clTokens
  OBVIOUS
<1>4. CASE Clients!SaveToken(r)
  BY <1>1, <1>2, <1>3, <1>4 DEF Clients!SaveToken, Clients!Go
<1>5. CASE Clients!InsertToken(r)
  BY <1>1, <1>5 DEF Clients!InsertToken
<1> QED
  BY <1>4, <1>5

\* Codes and devices go before families do, and none is given while a revocation is on its way.
LEMMA ClRevokes ==
    ASSUME ClientsInv, NEW r \in Request, NEW op \in FamilyOps, NEW pc \in {"devices", "families"},
           \/ Clients!RevokeCodes(r) /\ op = "exchange" /\ pc = "devices"
           \/ Clients!RevokeDevices(r) /\ op = "redeem" /\ pc = "families"
    PROVE  ClientsInv'
<1>0. /\ clWork[r] # None /\ clWork[r].pc = IF op = "exchange" THEN "codes" ELSE "devices"
      /\ clWork[r] \in ClJob /\ Minds(clWork[r]) /\ OfItsKind(clWork[r])
      /\ clWork \in [Request -> {None} \cup ClJob]
  BY ClAt DEF Clients!RevokeCodes, Clients!RevokeDevices, Clients!At
<1>1. clWork[r].op = "revoke"
  BY <1>0 DEF OfItsKind, ClJob, FamilyOps
<1>2. PICK c \in One : c = clWork[r].client /\ c \in minted /\ c # None
  BY <1>0, <1>1, AccessAssumption DEF OfItsKind, ClJob, FamilyOps
<1>3. /\ codes' \subseteq codes /\ clDevices' \subseteq clDevices /\ c \notin Source(op)'
      /\ clWork' = [Clients!Late(clWork, c, {op}) EXCEPT ![r].pc = pc]
      /\ clStore' = clStore /\ gated' = gated /\ initial' = initial /\ minted' = minted
      /\ clients' = clients /\ families' = families /\ owner' = owner /\ clTokens' = clTokens
      /\ clHeld' = clHeld /\ escaped' = escaped /\ retired' = retired /\ deleted' = deleted
      /\ excused' = excused
  BY <1>2 DEF Clients!RevokeCodes, Clients!RevokeDevices, Clients!config, Clients!registry,
     Clients!tokenRows, Clients!history, Source
<1>4. \A k \in ClJob : /\ [k EXCEPT !.late = TRUE] \in ClJob /\ [k EXCEPT !.late = TRUE].late
                       /\ [k EXCEPT !.late = TRUE].op = k.op /\ [k EXCEPT !.late = TRUE].pc = k.pc
                       /\ [k EXCEPT !.late = TRUE].client = k.client
  BY DEF ClJob
<1>5. PICK j \in ClJob : /\ j = [clWork[r] EXCEPT !.pc = pc] /\ j.op = "revoke"
                         /\ j.pc = pc /\ j.client = c /\ j.late = clWork[r].late
  <2>1. pc \in Clients!Steps
    BY DEF Clients!Steps
  <2>2. /\ [clWork[r] EXCEPT !.pc = pc] \in ClJob
        /\ [clWork[r] EXCEPT !.pc = pc].pc = pc
        /\ [clWork[r] EXCEPT !.pc = pc].op = clWork[r].op
        /\ [clWork[r] EXCEPT !.pc = pc].client = clWork[r].client
        /\ [clWork[r] EXCEPT !.pc = pc].late = clWork[r].late
    BY <1>0, <2>1, ClAt
  <2> QED
    BY <1>1, <1>2, <2>2
<1>6. /\ clWork'[r] = j
      /\ \A q \in Request : q # r =>
            \/ /\ clWork'[q] = clWork[q]
               /\ clWork[q] = None \/ clWork[q].client # c \/ clWork[q].op # op
            \/ /\ clWork[q] # None /\ clWork'[q] = [clWork[q] EXCEPT !.late = TRUE]
               /\ clWork[q].op = op
      /\ clWork' = [q \in Request |-> clWork'[q]]
  <2>1. Clients!Late(clWork, c, {op})[r] = clWork[r]
    BY <1>1 DEF Clients!Late, FamilyOps
  <2> QED
    BY <1>3, <1>5, <2>1 DEF Clients!Late
<1>7. ASSUME NEW q \in Request, clWork'[q] # None
      PROVE  \E k \in ClJob :
                /\ clWork[q] = k /\ clWork[q] # None /\ Minds(k)
                /\ clWork'[q] \in ClJob /\ clWork'[q].op = k.op /\ clWork'[q].client = k.client
                /\ q # r => clWork'[q].pc = k.pc
                /\ k.late = TRUE => clWork'[q].late = TRUE
                /\ k.op = op /\ k.client = c => clWork'[q].late
                /\ k.op # op => clWork'[q].late = k.late
  <2>1. CASE q = r
    <3>1. PICK k \in ClJob : k = clWork[r] /\ k.op = "revoke" /\ k.client = c /\ Minds(k)
      BY <1>0, <1>1, <1>2
    <3>2. clWork'[q] = j /\ j \in ClJob /\ j.op = k.op /\ j.client = k.client /\ j.late = k.late
      BY <1>1, <1>2, <1>5, <1>6, <2>1, <3>1
    <3> QED
      BY <1>0, <2>1, <3>1, <3>2
  <2>2. CASE q # r
    <3>1. clWork[q] # None
      BY <1>6, <1>7, <2>2
    <3>2. clWork[q] \in ClJob /\ Minds(clWork[q])
      BY <3>1, ClAt
    <3>3. PICK k \in ClJob : k = clWork[q]
      BY <3>2
    <3>4. CASE clWork'[q] = k /\ (k.client # c \/ k.op # op)
      BY <3>1, <3>2, <3>3, <3>4
    <3>5. CASE clWork'[q] = [k EXCEPT !.late = TRUE] /\ k.op = op
      <4>1. /\ [k EXCEPT !.late = TRUE] \in ClJob /\ [k EXCEPT !.late = TRUE].late
            /\ [k EXCEPT !.late = TRUE].op = k.op /\ [k EXCEPT !.late = TRUE].pc = k.pc
            /\ [k EXCEPT !.late = TRUE].client = k.client
            /\ [k EXCEPT !.late = TRUE].late = TRUE
        BY <1>4, <3>3 DEF ClJob
      <4> QED
        BY <3>1, <3>2, <3>3, <3>5, <4>1
    <3> QED
      BY <1>6, <2>2, <3>1, <3>3, <3>4, <3>5
  <2> QED
    BY <2>1, <2>2
<1>8. clWork' \in [Request -> {None} \cup ClJob]
  BY <1>6, <1>7
<1>9. Dry(op, c)'
  BY <1>3, <1>7 DEF Dry
<1>10. ASSUME NEW o \in FamilyOps, NEW d, Dry(o, d) PROVE Dry(o, d)'
  <2>0. d \notin Source(o)'
    BY <1>3, <1>10 DEF Dry, Source
  <2> SUFFICES ASSUME NEW q \in Request, clWork'[q] # None, clWork'[q].op = o,
                      clWork'[q].client = d
               PROVE  clWork'[q].late
    BY <2>0 DEF Dry
  <2>1. PICK k \in ClJob : clWork[q] = k /\ clWork[q] # None /\ k.op = o /\ k.client = d
                           /\ (k.late = TRUE => clWork'[q].late = TRUE)
    BY <1>7
  <2>2. k.late \in BOOLEAN
    BY DEF ClJob
  <2> QED
    BY <1>10, <2>1, <2>2 DEF Dry
<1>11. ASSUME NEW q \in Request, clWork'[q] # None PROVE Minds(clWork[q])'
  <2>1. CASE q = r
    <3>1. ASSUME NEW o \in Swept(pc) PROVE Dry(o, c)'
      <4>1. CASE o = op
        BY <1>9, <4>1
      <4>2. CASE o # op
        <5>1. o = "exchange" /\ op = "redeem" /\ clWork[r].pc = "devices"
          BY <1>0, <3>1, <4>2 DEF Swept, FamilyOps
        <5>2. Dry(o, c)
          BY <1>0, <1>1, <1>2, <5>1 DEF Minds, Swept, FamilyOps
        <5> QED
          BY <1>10, <5>1, <5>2 DEF FamilyOps
      <4> QED
        BY <4>1, <4>2
    <3>2. c \in minted'
      BY <1>2, <1>3
    <3>3. Minds(j)'
      BY <1>2, <1>5, <3>1, <3>2 DEF Minds, OfItsKind, FamilyOps
    <3> QED
      BY <1>6, <2>1, <3>3 DEF Minds, OfItsKind, Swept, Dry, Source
  <2>2. CASE q # r
    <3>1. PICK k \in ClJob :
                /\ clWork[q] = k /\ Minds(k) /\ clWork'[q].op = k.op /\ clWork'[q].client = k.client
                /\ clWork'[q].pc = k.pc
                /\ k.op # op => clWork'[q].late = k.late
      BY <1>7, <1>11, <2>2
    <3>2. OfItsKind(clWork[q])'
      BY <1>3, <3>1 DEF Minds, OfItsKind, FamilyOps, Swept
    <3>3. clWork'[q].op \in {"register", "update"} /\ ~clWork'[q].late => clWork'[q].client \notin retired'
      BY <1>3, <3>1 DEF Minds, FamilyOps
    <3>4. /\ clStore = "postgres" /\ k.op = "delete" /\ k.pc = "forget" => k.client \notin clients
          /\ k.op = "revoke" /\ k.pc = "forget" => k.client \notin families \ escaped
      BY <3>1 DEF Minds
    <3>5. ASSUME NEW o \in Swept(k.pc), k.op = "revoke" PROVE Dry(o, k.client)'
      <4>1. Dry(o, k.client) /\ o \in FamilyOps
        BY <3>1, <3>5 DEF Minds, Swept
      <4> QED
        BY <1>10, <4>1
    <3>6. clWork'[q].op = "revoke" => \A o \in Swept(clWork'[q].pc) : Dry(o, clWork[q].client)'
      BY <3>1, <3>5 DEF Dry, Source
    <3> QED
      BY <1>3, <3>1, <3>2, <3>3, <3>4, <3>6 DEF Minds, FamilyOps
  <2> QED
    BY <2>1, <2>2
<1>12. AllMind' /\ RevokedHoldNothing'
  BY <1>3, <1>10, <1>11 DEF AllMind, RevokedHoldNothing, ClientsInv, AllDry
<1>13. Clients!TypeOK'
  BY <1>3, <1>8 DEF ClientsInv, Clients!TypeOK, ClJob
<1> QED
  BY <1>3, <1>12, <1>13 DEF ClientsInv, DeletedStayOut, TokensForgotten

-------------------------------------------------------------------------------
\* A client is authorized only while nobody revokes or has revoked what it holds.
LEMMA ClAuthorizes ==
    ASSUME ClientsInv, NEW c \in One, Clients!Authorize(c) \/ Clients!ApproveDevice(c)
    PROVE  ClientsInv'
<1>1. /\ c \in clients /\ c \notin retired /\ codes' \subseteq codes \cup {c}
      /\ clDevices' \subseteq clDevices \cup {c} /\ clWork' = clWork
      /\ clStore' = clStore /\ gated' = gated /\ initial' = initial /\ minted' = minted
      /\ clients' = clients /\ families' = families /\ owner' = owner /\ clTokens' = clTokens
      /\ clHeld' = clHeld /\ escaped' = escaped /\ retired' = retired /\ deleted' = deleted
      /\ excused' = excused
  BY DEF Clients!Authorize, Clients!ApproveDevice, Clients!Open, Clients!config, Clients!registry, Clients!tokenRows, Clients!history
<1>2. ASSUME NEW q \in Request, clWork[q] # None, clWork[q].op = "revoke" PROVE clWork[q].client # c
  BY <1>2 DEF Clients!Authorize, Clients!ApproveDevice, Clients!Open, Clients!BeingRevoked
<1>3. ASSUME NEW o \in FamilyOps, NEW d, d # c, Dry(o, d) PROVE Dry(o, d)'
  BY <1>1, <1>3 DEF Dry, Source
<1>4. ASSUME NEW q \in Request, clWork[q] # None PROVE Minds(clWork[q])'
  <2>1. PICK k : k = clWork[q]
    OBVIOUS
  <2>2. Minds(k) /\ (k.op = "revoke" => k.client # c)
    BY <1>2, <1>4, <2>1 DEF ClientsInv, AllMind
  <2>3. ASSUME NEW o \in Swept(k.pc), k.op = "revoke" PROVE Dry(o, k.client)'
    <3>1. Dry(o, k.client) /\ o \in FamilyOps
      BY <2>2, <2>3 DEF Minds, Swept
    <3> QED
      BY <1>3, <2>2, <2>3, <3>1
  <2>4. Minds(k)'
    BY <1>1, <2>2, <2>3 DEF Minds, OfItsKind, FamilyOps, Swept
  <2> QED
    BY <1>1, <2>1, <2>4 DEF Minds, OfItsKind, Swept, Dry, Source
<1>5. AllMind' /\ RevokedHoldNothing'
  <2>1. AllMind'
    BY <1>1, <1>4 DEF AllMind
  <2>2. ASSUME NEW d \in retired' \ deleted' PROVE AllDry(d)' /\ d \notin families' \ escaped'
    BY <1>1, <1>3, <2>2 DEF ClientsInv, RevokedHoldNothing, AllDry
  <2> QED
    BY <2>1, <2>2 DEF RevokedHoldNothing
<1>6. Clients!TypeOK'
  BY <1>1 DEF ClientsInv, Clients!TypeOK
<1> QED
  BY <1>1, <1>5, <1>6 DEF ClientsInv, DeletedStayOut, TokensForgotten

\* The family of an exchange that was overtaken by a revocation escapes it, and no other does.
LEMMA ClFamilies ==
    ASSUME ClientsInv, NEW r \in Request, Clients!SaveFamily(r) \/ Clients!RevokeFamilies(r)
    PROVE  ClientsInv'
<1>0. /\ clWork[r] # None /\ clWork[r].pc \in {"grant", "families"}
      /\ clWork[r] \in ClJob /\ Minds(clWork[r]) /\ OfItsKind(clWork[r])
      /\ clWork \in [Request -> {None} \cup ClJob]
  BY ClAt DEF Clients!SaveFamily, Clients!RevokeFamilies, Clients!At
<1>1. /\ clWork[r].client \in minted /\ minted \subseteq One /\ families \subseteq minted
      /\ codes \subseteq minted /\ escaped \subseteq One
      /\ clients \subseteq minted
  BY <1>0 DEF ClientsInv, Clients!TypeOK, OfItsKind
<1>2. CASE Clients!SaveFamily(r)
  <2>1. /\ clWork[r].pc = "grant" /\ clWork' = [clWork EXCEPT ![r] = None]
        /\ families' = families \cup {clWork[r].client}
        /\ escaped' = IF clWork[r].late THEN escaped \cup {clWork[r].client} ELSE escaped
        /\ clStore' = clStore /\ gated' = gated /\ initial' = initial /\ minted' = minted
        /\ clients' = clients /\ owner' = owner /\ clTokens' = clTokens /\ clHeld' = clHeld
        /\ codes' = codes /\ clDevices' = clDevices /\ retired' = retired /\ deleted' = deleted
        /\ excused' = excused
    BY <1>2 DEF Clients!SaveFamily, Clients!At, Clients!Done, Clients!config, Clients!registry,
       Clients!tokenRows
  <2>2. clWork[r].op \in FamilyOps
    BY <1>0, <2>1 DEF OfItsKind
  <2>3. ASSUME NEW c \in families' \ escaped' PROVE c \in families \ escaped \/ ~AllDry(c)
    BY <1>0, <2>1, <2>2, <2>3 DEF AllDry, Dry
  <2>4. AllMind' /\ RevokedHoldNothing'
    BY <2>1, <2>3, ClMoves
  <2>5. clWork' \in [Request -> {None} \cup ClJob] /\ families' \subseteq minted' /\ escaped' \subseteq One
    BY <1>0, <1>1, <2>1
  <2>6. Clients!TypeOK'
    BY <2>1, <2>5 DEF ClientsInv, Clients!TypeOK, ClJob
  <2> QED
    BY <2>1, <2>4, <2>6 DEF ClientsInv, DeletedStayOut, TokensForgotten
<1>3. CASE Clients!RevokeFamilies(r)
  <2>1. /\ clWork[r].pc = "families" /\ clWork' = [clWork EXCEPT ![r].pc = "forget"]
        /\ families' = families \ {clWork[r].client} /\ escaped' = escaped
        /\ clStore' = clStore /\ gated' = gated /\ initial' = initial /\ minted' = minted
        /\ clients' = clients /\ owner' = owner /\ clTokens' = clTokens /\ clHeld' = clHeld
        /\ codes' = codes /\ clDevices' = clDevices /\ retired' = retired /\ deleted' = deleted
        /\ excused' = excused
    BY <1>3 DEF Clients!RevokeFamilies, Clients!At, Clients!Go, Clients!config, Clients!registry,
       Clients!tokenRows, Clients!history
  <2>2. clWork[r].op = "revoke" /\ AllDry(clWork[r].client)
    BY <1>0, <2>1 DEF OfItsKind, Minds, ClJob, Swept, AllDry, FamilyOps
  <2>3. "forget" \in Clients!Steps
    BY DEF Clients!Steps
  <2>4. /\ [clWork[r] EXCEPT !.pc = "forget"] \in ClJob
        /\ [clWork[r] EXCEPT !.pc = "forget"].pc = "forget"
        /\ [clWork[r] EXCEPT !.pc = "forget"].op = clWork[r].op
        /\ [clWork[r] EXCEPT !.pc = "forget"].client = clWork[r].client
        /\ [clWork[r] EXCEPT !.pc = "forget"].late = clWork[r].late
    BY <1>0, <2>3, ClAt
  <2>5. PICK j \in ClJob : /\ clWork' = [clWork EXCEPT ![r] = j] /\ j.op = "revoke"
                           /\ j.pc = "forget" /\ j.client = clWork[r].client
    BY <2>1, <2>2, <2>4
  <2>6. PICK c \in One : c = clWork[r].client
    BY <1>1
  <2>7. ASSUME NEW op \in FamilyOps PROVE Dry(op, c)'
    <3>1. Dry(op, c)
      BY <2>2, <2>6, <2>7 DEF AllDry
    <3>2. ASSUME NEW q \in Request, clWork'[q] # None, clWork'[q].op = op,
                 clWork'[q].client = c
          PROVE  clWork'[q].late
      <4>1. clWork'[r] = j /\ (q # r => clWork'[q] = clWork[q])
        BY <1>0, <2>5
      <4> QED
        BY <2>5, <3>1, <3>2, <4>1 DEF Dry, FamilyOps
    <3> QED
      BY <2>1, <3>1, <3>2 DEF Dry, Source
  <2>8. Minds(j)'
    <3>1. j.client = c /\ c # None /\ c \in minted' /\ c \notin families'
      BY <1>1, <2>1, <2>5, <2>6, AccessAssumption
    <3> QED
      BY <2>5, <2>7, <3>1 DEF Minds, OfItsKind, FamilyOps, Swept
  <2>9. /\ initial' \in BOOLEAN /\ clHeld' \subseteq DOMAIN owner
    BY <2>1 DEF ClientsInv, Clients!TypeOK
  <2>10. families' \subseteq families /\ families' \ escaped' \subseteq families \ escaped
    BY <2>1
  <2> QED
    BY <2>1, <2>5, <2>8, <2>9, <2>10, ClOnly DEF FamilyOps
<1> QED
  BY <1>2, <1>3

LEMMA ClientsNext == ClientsInv /\ [Clients!Next]_clVars => ClientsInv'
<1> SUFFICES ASSUME ClientsInv, [Clients!Next]_clVars PROVE ClientsInv'
  OBVIOUS
<1>1. ASSUME NEW c \in One, Clients!Authorize(c) \/ Clients!ApproveDevice(c) PROVE ClientsInv'
  BY <1>1, ClAuthorizes
<1>2. ASSUME NEW r \in Request,
             \/ Clients!Register(r) \/ Clients!Decide(r) \/ Clients!Notify(r)
             \/ \E t \in Clients!Token : Clients!Manage(r, t)
             \/ \E c \in One : Clients!Revoke(r, c) \/ Clients!Exchange(r, c) \/ Clients!Redeem(r, c)
             \/ Clients!TakeDevice(r)
      PROVE  ClientsInv'
  BY <1>2, ClReads
<1>3. ASSUME NEW r \in Request,
             Clients!SaveClient(r) \/ Clients!UpdateClient(r) \/ Clients!DeleteClient(r)
      PROVE  ClientsInv'
  BY <1>3, ClWrites
<1>4. ASSUME NEW r \in Request, Clients!SaveToken(r) \/ Clients!InsertToken(r) PROVE ClientsInv'
  BY <1>4, ClSaves
<1>5. ASSUME NEW r \in Request, Clients!ForgetTokens(r) PROVE ClientsInv'
  BY <1>5, ClForgets
<1>6. ASSUME NEW r \in Request, Clients!RevokeCodes(r) \/ Clients!RevokeDevices(r) PROVE ClientsInv'
  BY <1>6, ClRevokes DEF FamilyOps
<1>7. ASSUME NEW r \in Request, Clients!SaveFamily(r) \/ Clients!RevokeFamilies(r) PROVE ClientsInv'
  BY <1>7, ClFamilies
<1>8. CASE UNCHANGED clVars
  BY <1>8 DEF clVars, ClientsInv, Clients!TypeOK, AllMind, Minds, OfItsKind, Swept, Dry, Source, AllDry,
     RevokedHoldNothing, DeletedStayOut, TokensForgotten
<1> QED
  BY <1>1, <1>2, <1>3, <1>4, <1>5, <1>6, <1>7, <1>8 DEF Clients!Next

-------------------------------------------------------------------------------
(* Fga.                                                                       *)

\* A set of depths has a greatest one.
LEMMA Greatest ==
    ASSUME NEW depth \in Int, NEW B \in SUBSET (1 .. depth), B # {}
    PROVE  \E b \in B : \A c \in B : c <= b
<1> DEFINE Above(b) == {k \in 1 .. depth : k > b}
           T == {Above(b) : b \in B}
           R == StrictSubsetOrdering(1 .. depth)
           F == FiniteSubsetsOf(1 .. depth)
<1>1. IsWellFoundedOn(R, F)
  BY FS_StrictSubsetOrderingWellFounded
<1>2. T \subseteq F /\ T # {}
  <2>1. IsFiniteSet(1 .. depth)
    BY FS_Interval
  <2>2. \A b \in B : Above(b) \in SUBSET (1 .. depth)
    OBVIOUS
  <2>3. \A b \in B : Above(b) \in F
    BY <2>1, <2>2, FS_Subset DEF FiniteSubsetsOf
  <2> QED
    BY <2>3
<1> HIDE DEF R, F, T
<1>3. PICK X \in T : \A Y \in T : ~(<<Y, X>> \in R)
  BY <1>1, <1>2, WFMin
<1>4. PICK b \in B : X = Above(b)
  BY <1>3 DEF T
<1>5. ASSUME NEW c \in B, c > b PROVE FALSE
  <2>1. Above(c) \in T /\ Above(c) \subseteq 1 .. depth /\ X \subseteq 1 .. depth
    BY <1>4 DEF T
  <2>2. Above(c) \subseteq X /\ c \in X /\ c \notin Above(c)
    BY <1>4, <1>5
  <2>3. <<Above(c), X>> \in R
    BY <2>1, <2>2 DEF R, StrictSubsetOrdering
  <2> QED
    BY <1>3, <2>1, <2>3
<1>6. \A c \in B : c \in Int /\ b \in Int
  OBVIOUS
<1> QED
  BY <1>5, <1>6

LEMMA FgaInit == Fga!Init => FgaInv
<1> SUFFICES ASSUME Fga!Init PROVE FgaInv
  OBVIOUS
<1>1. \A r \in Checker : fgWork[r] = None
  BY DEF Fga!Init
<1>2. \A k \in Fga!Key : cache[k] = None
  BY DEF Fga!Init
<1>3. Fga!TypeOK
  <2>1. cache \in [Fga!Key -> BOOLEAN \cup {None}]
    BY DEF Fga!Init
  <2>2. writing = FALSE /\ writes = 0 /\ MaxWrites \in Nat /\ raced = {} /\ shallow = {}
    BY AccessAssumption DEF Fga!Init
  <2>3. maxDepth \in Depths /\ warrants \subseteq Space
    BY DEF Fga!Init
  <2>4. writing \in BOOLEAN /\ raced \subseteq Fga!Key /\ shallow \subseteq Fga!Key
    BY <2>2
  <2>5. writes \in 0 .. MaxWrites
    <3>1. \A n \in Nat : 0 \in 0 .. n
      OBVIOUS
    <3> QED
      BY <2>2, <3>1
  <2> QED
    BY <1>1, <2>1, <2>3, <2>4, <2>5, Zenon DEF Fga!TypeOK
<1>4. fgWork \in [Checker -> {None} \cup FgJob]
  BY DEF Fga!Init
<1>5. Fga!CacheFollowsWrites
  BY <1>2 DEF Fga!CacheFollowsWrites
<1> QED
  BY <1>1, <1>3, <1>4, <1>5 DEF FgaInv

\* What grants a node is granted by what grants that.
LEMMA Granting ==
    /\ \A n : Grants(n, n)
    /\ \A a, n : \A m \in Fga!Leads(n) : Grants(a, n) => Grants(a, m)
    /\ \A n : Fga!ComputedFrom(n) \subseteq Fga!Leads(n)
    /\ \A n : \A m \in Node : <<n, m>> \in warrants => m \in Fga!Leads(n)
    /\ \A n : \A l \in Fga!ViaOf(n), m \in Node : <<l, m>> \in warrants => m \in Fga!Leads(n)
<1>1. \A n : Grants(n, n)
  BY DEF Grants
<1>2. \A a, n : \A m \in Fga!Leads(n) : Grants(a, n) => Grants(a, m)
  BY DEF Grants, Closed
<1>3. \A n : Fga!ComputedFrom(n) \subseteq Fga!Leads(n)
  <2> SUFFICES ASSUME NEW n, NEW e \in Computed, e[1] = n PROVE e[2] \in Fga!Leads(n)
    BY DEF Fga!ComputedFrom
  <2>1. e[2] \in Node /\ <<n, e[2]>> \in Computed
    BY AccessAssumption
  <2> QED
    BY <2>1 DEF Fga!Leads
<1>4. \A n : \A m \in Node : <<n, m>> \in warrants => m \in Fga!Leads(n)
  BY DEF Fga!Leads
<1>5. \A n : \A l \in Fga!ViaOf(n), m \in Node : <<l, m>> \in warrants => m \in Fga!Leads(n)
  BY DEF Fga!Leads
<1> QED
  BY <1>1, <1>2, <1>3, <1>4, <1>5

LEMMA EnteredGrows ==
    ASSUME NEW t \in FgJob, NEW nodes \in SUBSET Node, NEW depth \in Int,
           NEW x \in Fga!Entered(t, nodes, depth)
    PROVE  Grows(t, nodes, x)
<1>1. PICK d \in Fga!Enter(t, nodes, depth) :
        x = [t EXCEPT !.visited = @ \cup DOMAIN d,
                      !.items = @ \cup {i \in [node : DOMAIN d, kind : {"self", "via"}, depth : 1 .. depth] :
                                           i.depth = d[i.node]
                                           /\ (i.kind = "via" => Fga!ViaOf(i.node) # {})},
                      !.cut = @ \/ ~(nodes \cup UNION {Fga!ComputedFrom(n) : n \in DOMAIN d}
                                         \subseteq t.visited \cup DOMAIN d)]
  BY DEF Fga!Entered
<1>2. PICK E \in SUBSET ((nodes \cup {e[2] : e \in Computed}) \ t.visited) : d \in [E -> 1 .. depth]
  BY DEF Fga!Enter
<1>3. /\ DOMAIN d = E /\ E \subseteq Node /\ \A n \in E : d[n] \in 1 .. depth
      /\ \A n \in E : (n \in nodes /\ d[n] = depth) \/
                      \E m \in E : n \in Fga!ComputedFrom(m) /\ d[m] = d[n] + 1
  <2>1. E \subseteq Node
    BY <1>2, AccessAssumption
  <2>2. DOMAIN d = E
    BY <1>2
  <2> QED
    BY <1>2, <2>1, <2>2 DEF Fga!Enter
<1> DEFINE New == {i \in [node : E, kind : {"self", "via"}, depth : 1 .. depth] :
                      i.depth = d[i.node] /\ (i.kind = "via" => Fga!ViaOf(i.node) # {})}
           Cut == ~(nodes \cup UNION {Fga!ComputedFrom(n) : n \in E} \subseteq t.visited \cup E)
<1>4. New \subseteq Fga!Item
  BY <1>3 DEF Fga!Item
<1>5. /\ x.key = t.key /\ x.raced = t.raced /\ x.found = t.found
      /\ x.visited = t.visited \cup E /\ x.items = t.items \cup New
      /\ x.cut = (t.cut \/ Cut)
  BY <1>1, <1>3 DEF FgJob
<1>6. x \in FgJob
  <2>1. \A v \in SUBSET Node, is \in SUBSET Fga!Item, c \in BOOLEAN :
            [t EXCEPT !.visited = v, !.items = is, !.cut = c] \in FgJob
    BY DEF FgJob
  <2>2. t.visited \cup E \in SUBSET Node /\ t.items \cup New \in SUBSET Fga!Item
    BY <1>3, <1>4 DEF FgJob
  <2>3. x = [t EXCEPT !.visited = t.visited \cup E, !.items = t.items \cup New, !.cut = (t.cut \/ Cut)]
    BY <1>1, <1>3 DEF FgJob
  <2>4. (t.cut \/ Cut) \in BOOLEAN
    OBVIOUS
  <2> HIDE DEF New, Cut
  <2> QED
    BY <2>1, <2>2, <2>3, <2>4
<1>7. ASSUME NEW n \in E PROVE Pending(x, n, "self") /\ (Fga!ViaOf(n) = {} \/ Pending(x, n, "via"))
  <2>1. [node |-> n, kind |-> "self", depth |-> d[n]] \in New
    BY <1>3, <1>7
  <2>2. Fga!ViaOf(n) # {} => [node |-> n, kind |-> "via", depth |-> d[n]] \in New
    BY <1>3, <1>7
  <2> HIDE DEF New
  <2>3. Pending(x, n, "self")
    BY <1>5, <2>1 DEF Pending
  <2>4. Fga!ViaOf(n) # {} => Pending(x, n, "via")
    BY <1>5, <2>2 DEF Pending
  <2> QED
    BY <2>3, <2>4
<1>8. ~x.cut => /\ ~t.cut /\ nodes \subseteq x.visited
                /\ \A n \in E : Fga!ComputedFrom(n) \subseteq x.visited
  BY <1>5
<1>9. ASSUME NEW a, \A n \in nodes : Grants(a, n) PROVE \A n \in E : Grants(a, n)
  <2> DEFINE B == {d[n] : n \in {m \in E : ~Grants(a, m)}}
  <2> SUFFICES ASSUME B # {} PROVE FALSE
    OBVIOUS
  <2>1. B \in SUBSET (1 .. depth)
    BY <1>3
  <2>2. PICK b \in B : \A c \in B : c <= b
    <3> HIDE DEF B
    <3> QED
      BY <2>1, Greatest
  <2>3. PICK n \in E : ~Grants(a, n) /\ b = d[n]
    OBVIOUS
  <2>4. PICK m \in E : n \in Fga!ComputedFrom(m) /\ d[m] = d[n] + 1
    BY <1>3, <1>9, <2>3
  <2>5. ~Grants(a, m)
    BY <2>3, <2>4, Granting
  <2>6. d[m] <= d[n] /\ d[n] \in Int
    BY <1>3, <2>2, <2>3, <2>5
  <2> QED
    BY <2>4, <2>6
<1>10. \A i \in x.items \ t.items : i.node \in x.visited
  BY <1>5
<1> HIDE DEF New, Cut
<1> QED
  BY <1>5, <1>6, <1>7, <1>8, <1>9, <1>10 DEF Grows

-------------------------------------------------------------------------------
\* The check that begins, and what it knows.
LEMMA FgaBegins ==
    ASSUME FgaInv, NEW r \in Checker, NEW about \in Query \X (Subject \cup {None}), Fga!Begin(r, about)
    PROVE  \E x \in FgJob : fgWork' = [fgWork EXCEPT ![r] = x] /\ Sound(x) /\ Thorough(x)
<1> DEFINE t == [key |-> about, items |-> {}, visited |-> {}, found |-> {}, raced |-> FALSE, cut |-> FALSE]
<1>1. PICK x \in Fga!Entered(t, {about[1]}, maxDepth) : fgWork' = [fgWork EXCEPT ![r] = x]
  BY DEF Fga!Begin
<1>2. t \in FgJob /\ {about[1]} \in SUBSET Node /\ maxDepth \in Int
  BY AccessAssumption DEF FgJob, FgaInv, Fga!TypeOK
<1>3. t.key = about /\ t.items = {} /\ t.visited = {} /\ t.found = {} /\ t.cut = FALSE
  OBVIOUS
<1> HIDE DEF t
<1>4. Grows(t, {about[1]}, x)
  BY <1>1, <1>2, EnteredGrows
<1>5. Sound(x)
  BY <1>3, <1>4, Granting DEF Sound, Grows
<1>6. Thorough(x)
  BY <1>3, <1>4 DEF Thorough, Grows, LinksRead
<1> QED
  BY <1>1, <1>4, <1>5, <1>6 DEF Grows

\* A read of a node's tuples finds subjects or leads on.
LEMMA FgaReadsSelf ==
    ASSUME FgaInv, NEW r \in Checker, Fga!ReadSelf(r)
    PROVE  \E x \in FgJob : /\ fgWork' = [fgWork EXCEPT ![r] = x] /\ x.raced = fgWork[r].raced
                            /\ ~x.raced => Sound(x) /\ Thorough(x)
<1>1. PICK old \in FgJob : old = fgWork[r] /\ (~old.raced => Sound(old) /\ Thorough(old))
  BY DEF FgaInv, Fga!ReadSelf
<1>2. PICK i \in old.items :
        LET read == {w[2] : w \in {w \in warrants : w[1] = i.node}}
            t == [old EXCEPT !.items = @ \ {i}, !.found = @ \cup (read \cap Subject)] IN
        /\ i.kind = "self"
        /\ \E next \in IF t.key[2] \in read THEN {t} ELSE Fga!Entered(t, read \cap Node, i.depth - 1) :
               fgWork' = [fgWork EXCEPT ![r] = next]
  BY <1>1 DEF Fga!ReadSelf
<1> DEFINE read == {w[2] : w \in {w \in warrants : w[1] = i.node}}
           t == [old EXCEPT !.items = @ \ {i}, !.found = @ \cup (read \cap Subject)]
<1>3. PICK x \in IF t.key[2] \in read THEN {t} ELSE Fga!Entered(t, read \cap Node, i.depth - 1) :
             fgWork' = [fgWork EXCEPT ![r] = x]
  BY <1>2
<1>4. \A m : m \in read <=> <<i.node, m>> \in warrants
  BY AccessAssumption DEF FgaInv, Fga!TypeOK
<1>5. i.depth - 1 \in Int /\ i.kind = "self" /\ i.node \in Node
  BY <1>2 DEF FgJob, Fga!Item
<1>6. /\ t.key = old.key /\ t.visited = old.visited /\ t.raced = old.raced /\ t.cut = old.cut
      /\ t.items = old.items \ {i} /\ t.found = old.found \cup (read \cap Subject)
  BY DEF FgJob
<1>7. t \in FgJob
  <2>1. \A is \in SUBSET Fga!Item, f \in SUBSET Subject : [old EXCEPT !.items = is, !.found = f] \in FgJob
    BY DEF FgJob
  <2>2. old.items \ {i} \in SUBSET Fga!Item /\ old.found \cup (read \cap Subject) \in SUBSET Subject
    BY DEF FgJob
  <2>3. t = [old EXCEPT !.items = old.items \ {i}, !.found = old.found \cup (read \cap Subject)]
    BY DEF FgJob
  <2> HIDE DEF read, t
  <2> QED
    BY <2>1, <2>2, <2>3
<1> HIDE DEF read, t
<1>8. ~old.raced => Sound(t)
  BY <1>1, <1>4, <1>6 DEF Sound
<1>9. CASE t.key[2] \in read
  <2>1. x = t
    BY <1>3, <1>9
  <2>2. ASSUME ~t.cut, t.key[2] # None PROVE t.key[2] \in t.found
    BY <1>6, <1>7, <1>9, <2>2 DEF FgJob
  <2>3. \A n : Pending(old, n, "via") => Pending(t, n, "via")
    BY <1>5, <1>6 DEF Pending
  <2>4. \A n : LinksRead(old, n) => LinksRead(t, n)
    BY <1>6 DEF LinksRead
  <2>5. ~old.raced => Thorough(t)
    BY <1>1, <1>6, <2>2, <2>3, <2>4 DEF Thorough
  <2>6. fgWork' = [fgWork EXCEPT ![r] = t]
    BY <1>3, <2>1
  <2>7. t.raced = fgWork[r].raced /\ (~t.raced => Sound(t) /\ Thorough(t))
    BY <1>1, <1>6, <1>8, <2>5
  <2> QED
    BY <1>7, <2>6, <2>7
<1>10. CASE t.key[2] \notin read
  <2>1. x \in Fga!Entered(t, read \cap Node, i.depth - 1) /\ read \cap Node \in SUBSET Node
    BY <1>3, <1>10
  <2>2. Grows(t, read \cap Node, x)
    BY <1>5, <1>7, <2>1, EnteredGrows
  <2>3. x \in FgJob /\ x.raced = old.raced
    BY <1>6, <2>2 DEF Grows
  <2>4. ASSUME ~old.raced PROVE Sound(x)
    <3>0. Grants(old.key[1], i.node)
      BY <1>1, <2>4 DEF Sound
    <3>1. \A n \in read \cap Node : Grants(t.key[1], n)
      <4>1. \A n \in read \cap Node : n \in Fga!Leads(i.node)
        BY <1>4, Granting
      <4>2. \A n \in Fga!Leads(i.node) : Grants(old.key[1], n)
        BY <3>0, Granting
      <4> QED
        BY <1>6, <4>1, <4>2
    <3>2. \A n \in x.visited \ t.visited : Grants(t.key[1], n)
      BY <2>2, <3>1 DEF Grows
    <3> QED
      BY <1>8, <2>2, <2>4, <3>2 DEF Sound, Grows
  <2>5. ASSUME ~old.raced, ~x.cut, x.key[2] # None PROVE Thorough(x)
    <3>1. /\ ~old.cut /\ old.key[2] # None /\ Thorough(old) /\ x.key = old.key
          /\ old.visited \subseteq x.visited /\ read \cap Node \subseteq x.visited
          /\ old.items \ {i} \subseteq x.items /\ x.found = old.found \cup (read \cap Subject)
      BY <1>1, <1>6, <2>2, <2>5 DEF Grows
    <3>2. ASSUME NEW n \in old.visited
          PROVE  /\ Fga!ComputedFrom(n) \subseteq x.visited
                 /\ Pending(x, n, "self") \/ x.key[2] \in x.found \/ SelfRead(x, n)
                 /\ Pending(x, n, "via") \/ LinksRead(x, n)
      <4>1. /\ Fga!ComputedFrom(n) \subseteq old.visited
            /\ Pending(old, n, "self") \/ old.key[2] \in old.found \/ SelfRead(old, n)
            /\ Pending(old, n, "via") \/ LinksRead(old, n)
        BY <3>1, <3>2 DEF Thorough
      <4>2. Pending(old, n, "self") => Pending(x, n, "self") \/ n = i.node
        BY <3>1 DEF Pending
      <4>3. n = i.node => SelfRead(x, n)
        BY <1>4, <3>1 DEF SelfRead
      <4>4. SelfRead(old, n) => SelfRead(x, n)
        BY <3>1 DEF SelfRead
      <4>5. Pending(old, n, "via") => Pending(x, n, "via")
        BY <1>5, <3>1 DEF Pending
      <4>6. LinksRead(old, n) => LinksRead(x, n)
        BY <3>1 DEF LinksRead
      <4> QED
        BY <3>1, <4>1, <4>2, <4>3, <4>4, <4>5, <4>6
    <3>3. ASSUME NEW n \in x.visited \ old.visited
          PROVE  /\ Fga!ComputedFrom(n) \subseteq x.visited /\ Pending(x, n, "self")
                 /\ Pending(x, n, "via") \/ LinksRead(x, n)
      BY <1>6, <2>2, <2>5, <3>3 DEF Grows, LinksRead
    <3>4. x.key[1] \in x.visited
      BY <3>1 DEF Thorough
    <3> QED
      BY <3>2, <3>3, <3>4 DEF Thorough
  <2>6. ~old.raced => Thorough(x)
    BY <2>5 DEF Thorough
  <2> QED
    BY <1>1, <1>3, <2>3, <2>4, <2>6
<1> QED
  BY <1>9, <1>10

-------------------------------------------------------------------------------
\* A read of the links of a node leads on.
LEMMA FgaReadsLinks ==
    ASSUME FgaInv, NEW r \in Checker, Fga!ReadLinks(r)
    PROVE  \E x \in FgJob : /\ fgWork' = [fgWork EXCEPT ![r] = x] /\ x.raced = fgWork[r].raced
                            /\ ~x.raced => Sound(x) /\ Thorough(x)
<1>1. PICK old \in FgJob : old = fgWork[r] /\ (~old.raced => Sound(old) /\ Thorough(old))
  BY DEF FgaInv, Fga!ReadLinks
<1>2. PICK i \in old.items :
        LET read == {w[2] : w \in {w \in warrants : w[1] \in Fga!ViaOf(i.node)}} \cap Node
            t == [old EXCEPT !.items = @ \ {i}] IN
        /\ i.kind = "via"
        /\ \E next \in Fga!Entered(t, read, i.depth - 1) : fgWork' = [fgWork EXCEPT ![r] = next]
  BY <1>1 DEF Fga!ReadLinks
<1> DEFINE read == {w[2] : w \in {w \in warrants : w[1] \in Fga!ViaOf(i.node)}} \cap Node
           t == [old EXCEPT !.items = @ \ {i}]
<1>3. PICK x \in Fga!Entered(t, read, i.depth - 1) : fgWork' = [fgWork EXCEPT ![r] = x]
  BY <1>2
<1>4. \A m : m \in read <=> m \in Node /\ \E l \in Fga!ViaOf(i.node) : <<l, m>> \in warrants
  <2>1. \A w \in warrants : w = <<w[1], w[2]>>
    BY AccessAssumption DEF FgaInv, Fga!TypeOK
  <2>2. ASSUME NEW m \in read PROVE \E l \in Fga!ViaOf(i.node) : <<l, m>> \in warrants
    <3>1. PICK w \in warrants : w[1] \in Fga!ViaOf(i.node) /\ w[2] = m
      OBVIOUS
    <3> QED
      BY <2>1, <3>1
  <2>3. ASSUME NEW m \in Node, NEW l \in Fga!ViaOf(i.node), <<l, m>> \in warrants PROVE m \in read
    <3>1. <<l, m>>[1] = l /\ <<l, m>>[2] = m
      OBVIOUS
    <3> QED
      BY <2>3, <3>1
  <2> QED
    BY <2>2, <2>3
<1>5. i.depth - 1 \in Int /\ i.kind = "via" /\ i.node \in Node
  BY <1>2 DEF FgJob, Fga!Item
<1>6. /\ t.key = old.key /\ t.visited = old.visited /\ t.raced = old.raced /\ t.cut = old.cut
      /\ t.items = old.items \ {i} /\ t.found = old.found
  BY DEF FgJob
<1>7. t \in FgJob
  <2>1. \A is \in SUBSET Fga!Item : [old EXCEPT !.items = is] \in FgJob
    BY DEF FgJob
  <2>2. old.items \ {i} \in SUBSET Fga!Item
    BY DEF FgJob
  <2>3. t = [old EXCEPT !.items = old.items \ {i}]
    BY DEF FgJob
  <2> HIDE DEF read, t
  <2> QED
    BY <2>1, <2>2, <2>3
<1>8. read \in SUBSET Node
  OBVIOUS
<1> HIDE DEF read, t
<1>9. Grows(t, read, x)
  BY <1>3, <1>5, <1>7, <1>8, EnteredGrows
<1>10. x \in FgJob /\ x.raced = old.raced
  BY <1>6, <1>9 DEF Grows
<1>11. ASSUME ~old.raced PROVE Sound(x)
  <2>1. Sound(old) /\ Grants(old.key[1], i.node)
    BY <1>1, <1>11 DEF Sound
  <2>2. \A n \in read : Grants(t.key[1], n)
    <3>1. \A n \in read : n \in Fga!Leads(i.node)
      BY <1>4, Granting
    <3>2. \A n \in Fga!Leads(i.node) : Grants(old.key[1], n)
      BY <2>1, Granting
    <3> QED
      BY <1>6, <3>1, <3>2
  <2>3. \A n \in x.visited \ t.visited : Grants(t.key[1], n)
    BY <1>9, <2>2 DEF Grows
  <2> QED
    BY <1>6, <1>9, <2>1, <2>3 DEF Sound, Grows
<1>12. ASSUME ~old.raced, ~x.cut, x.key[2] # None PROVE Thorough(x)
  <2>1. /\ ~old.cut /\ old.key[2] # None /\ Thorough(old) /\ x.key = old.key
        /\ old.visited \subseteq x.visited /\ read \subseteq x.visited
        /\ old.items \ {i} \subseteq x.items /\ x.found = old.found
    BY <1>1, <1>6, <1>9, <1>12 DEF Grows
  <2>2. ASSUME NEW n \in old.visited
        PROVE  /\ Fga!ComputedFrom(n) \subseteq x.visited
               /\ Pending(x, n, "self") \/ x.key[2] \in x.found \/ SelfRead(x, n)
               /\ Pending(x, n, "via") \/ LinksRead(x, n)
    <3>1. /\ Fga!ComputedFrom(n) \subseteq old.visited
          /\ Pending(old, n, "self") \/ old.key[2] \in old.found \/ SelfRead(old, n)
          /\ Pending(old, n, "via") \/ LinksRead(old, n)
      BY <2>1, <2>2 DEF Thorough
    <3>2. Pending(old, n, "via") => Pending(x, n, "via") \/ n = i.node
      BY <2>1 DEF Pending
    <3>3. n = i.node => LinksRead(x, n)
      BY <1>4, <2>1 DEF LinksRead
    <3>4. LinksRead(old, n) => LinksRead(x, n)
      BY <2>1 DEF LinksRead
    <3>5. Pending(old, n, "self") => Pending(x, n, "self")
      BY <1>5, <2>1 DEF Pending
    <3>6. SelfRead(old, n) => SelfRead(x, n)
      BY <2>1 DEF SelfRead
    <3> QED
      BY <2>1, <3>1, <3>2, <3>3, <3>4, <3>5, <3>6
  <2>3. ASSUME NEW n \in x.visited \ old.visited
        PROVE  /\ Fga!ComputedFrom(n) \subseteq x.visited /\ Pending(x, n, "self")
               /\ Pending(x, n, "via") \/ LinksRead(x, n)
    BY <1>6, <1>9, <1>12, <2>3 DEF Grows, LinksRead
  <2>4. x.key[1] \in x.visited
    BY <2>1 DEF Thorough
  <2> QED
    BY <2>2, <2>3, <2>4 DEF Thorough
<1>13. ~old.raced => Thorough(x)
  BY <1>12 DEF Thorough
<1> QED
  BY <1>1, <1>3, <1>10, <1>11, <1>13

\* A check that goes on leaves the answers alone.
LEMMA FgaGoesOn ==
    ASSUME FgaInv, NEW r \in Checker, NEW x \in FgJob, fgWork' = [fgWork EXCEPT ![r] = x],
           ~x.raced => Sound(x) /\ Thorough(x), maxDepth' = maxDepth, warrants' = warrants,
           cache' = cache, writing' = writing, writes' = writes, raced' = raced, shallow' = shallow
    PROVE  FgaInv'
<1>1. fgWork \in [Checker -> {None} \cup FgJob] /\ fgWork' \in [Checker -> {None} \cup FgJob]
  BY DEF FgaInv
<1>2. Fga!CacheFollowsWrites'
  BY DEF FgaInv, Fga!CacheFollowsWrites, Fga!Holds, Fga!Leads
<1>3. ASSUME NEW q \in Checker, fgWork'[q] # None, ~fgWork'[q].raced
      PROVE  Sound(fgWork[q])' /\ Thorough(fgWork[q])'
  <2>1. PICK y : y = fgWork'[q]
    OBVIOUS
  <2>2. Sound(y) /\ Thorough(y)
    BY <1>1, <1>3, <2>1 DEF FgaInv
  <2>3. Sound(y)' /\ Thorough(y)'
    BY <2>2 DEF Sound, Thorough, Grants, Closed, Fga!Leads, SelfRead, LinksRead, Pending
  <2> QED
    BY <2>1, <2>3 DEF Sound, Thorough, SelfRead, LinksRead, Pending
<1>4. Fga!TypeOK'
  BY <1>1 DEF FgaInv, Fga!TypeOK, FgJob
<1> QED
  BY <1>1, <1>2, <1>3, <1>4 DEF FgaInv

\* A finished check that no write overlapped and that was not cut has the right answer.
LEMMA FinishedIsRight ==
    ASSUME FgaInv, NEW t \in FgJob, Sound(t), Thorough(t), t.key \in Fga!Key,
           t.key[2] # None, ~t.cut, t.items = {} \/ t.key[2] \in t.found
    PROVE  (t.key[2] \in t.found) = Fga!Holds(t.key)
<1>1. t.key[2] \in t.found => Fga!Holds(t.key)
  BY DEF Sound, Grants, Closed, Fga!Holds
<1>2. ASSUME t.key[2] \notin t.found PROVE ~Fga!Holds(t.key)
  <2>1. /\ t.visited \in SUBSET Node /\ t.key[1] \in t.visited
        /\ \A n \in t.visited : Fga!ComputedFrom(n) \subseteq t.visited /\ SelfRead(t, n) /\ LinksRead(t, n)
    BY <1>2 DEF Thorough, Pending, FgJob
  <2>2. Closed(t.visited)
    <3> SUFFICES ASSUME NEW n \in t.visited, NEW m \in Fga!Leads(n) PROVE m \in t.visited
      BY DEF Closed
    <3>1. m \in Node
      BY DEF Fga!Leads
    <3>2. CASE <<n, m>> \in Computed
      <4>1. m \in Fga!ComputedFrom(n)
        BY <3>2 DEF Fga!ComputedFrom
      <4> QED
        BY <2>1, <4>1
    <3>3. CASE \E w \in warrants : w[1] \in {n} \cup Fga!ViaOf(n) /\ w[2] = m
      <4>0. \A w \in warrants : w = <<w[1], w[2]>>
        BY AccessAssumption DEF FgaInv, Fga!TypeOK
      <4>1. PICK l \in {n} \cup Fga!ViaOf(n) : <<l, m>> \in warrants
        BY <3>3, <4>0
      <4> QED
        BY <2>1, <3>1, <4>1 DEF SelfRead, LinksRead
    <3> QED
      BY <3>2, <3>3 DEF Fga!Leads
  <2>3. \A n \in t.visited : <<n, t.key[2]>> \notin warrants
    BY <1>2, <2>1 DEF SelfRead, Fga!Key
  <2> QED
    BY <2>1, <2>2, <2>3 DEF Fga!Holds, Closed
<1>3. Fga!Holds(t.key) \in BOOLEAN
  BY DEF Fga!Holds
<1> QED
  BY <1>1, <1>2, <1>3

LEMMA FgaNext == FgaInv /\ [Fga!Next]_fgVars => FgaInv'
<1> SUFFICES ASSUME FgaInv, [Fga!Next]_fgVars PROVE FgaInv'
  OBVIOUS
<1>0. /\ fgWork \in [Checker -> {None} \cup FgJob] /\ cache \in [Fga!Key -> BOOLEAN \cup {None}]
      /\ writing \in BOOLEAN /\ writes \in 0 .. MaxWrites /\ raced \subseteq Fga!Key
      /\ shallow \subseteq Fga!Key /\ maxDepth \in Depths /\ warrants \subseteq Space
  BY DEF FgaInv, Fga!TypeOK
<1>1. ASSUME NEW r \in Checker, Fga!Check(r) \/ Fga!ListSubjects(r) PROVE FgaInv'
  <2>1. PICK about \in Query \X (Subject \cup {None}) : Fga!Begin(r, about)
    BY <1>1 DEF Fga!Check, Fga!ListSubjects, Fga!Key
  <2>2. /\ maxDepth' = maxDepth /\ warrants' = warrants /\ cache' = cache /\ writing' = writing
        /\ writes' = writes /\ raced' = raced /\ shallow' = shallow
    BY <1>1 DEF Fga!Check, Fga!ListSubjects, Fga!histories
  <2> QED
    BY <2>1, <2>2, FgaBegins, FgaGoesOn
<1>2. ASSUME NEW r \in Checker, Fga!ReadSelf(r) PROVE FgaInv'
  <2>1. /\ maxDepth' = maxDepth /\ warrants' = warrants /\ cache' = cache /\ writing' = writing
        /\ writes' = writes /\ raced' = raced /\ shallow' = shallow
    BY <1>2 DEF Fga!ReadSelf, Fga!histories
  <2> QED
    BY <1>2, <2>1, FgaReadsSelf, FgaGoesOn
<1>3. ASSUME NEW r \in Checker, Fga!ReadLinks(r) PROVE FgaInv'
  <2>1. /\ maxDepth' = maxDepth /\ warrants' = warrants /\ cache' = cache /\ writing' = writing
        /\ writes' = writes /\ raced' = raced /\ shallow' = shallow
    BY <1>3 DEF Fga!ReadLinks, Fga!histories
  <2> QED
    BY <1>3, <2>1, FgaReadsLinks, FgaGoesOn
\* What the checks know survives while the tuples stay and no check but one that ends changes.
<1>4. ASSUME warrants' = warrants, \A q \in Checker : fgWork'[q] = fgWork[q] \/ fgWork'[q] = None,
             NEW q \in Checker, fgWork'[q] # None, ~fgWork'[q].raced
      PROVE  Sound(fgWork[q])' /\ Thorough(fgWork[q])'
  <2>1. PICK y : y = fgWork'[q] /\ y = fgWork[q]
    BY <1>4
  <2>2. Sound(y) /\ Thorough(y)
    BY <1>4, <2>1 DEF FgaInv
  <2>3. Sound(y)' /\ Thorough(y)'
    BY <1>4, <2>2 DEF Sound, Thorough, Grants, Closed, Fga!Leads, SelfRead, LinksRead, Pending
  <2> QED
    BY <2>1, <2>3 DEF Sound, Thorough, SelfRead, LinksRead, Pending
<1>5. ASSUME NEW r \in Checker, Fga!Answer(r) PROVE FgaInv'
  <2>1. PICK t \in FgJob : /\ t = fgWork[r] /\ (~t.raced => Sound(t) /\ Thorough(t))
                           /\ t.items = {} \/ t.key[2] \in t.found
    BY <1>0, <1>5 DEF Fga!Answer, FgaInv
  <2>2. /\ fgWork' = [fgWork EXCEPT ![r] = None] /\ maxDepth' = maxDepth /\ warrants' = warrants
        /\ writing' = writing /\ writes' = writes
    BY <1>5 DEF Fga!Answer
  <2>3. fgWork' \in [Checker -> {None} \cup FgJob]
        /\ \A q \in Checker : fgWork'[q] = fgWork[q] \/ fgWork'[q] = None
    BY <1>0, <2>2
  <2>4. CASE cache' = cache /\ raced' = raced /\ shallow' = shallow
    <3>1. Fga!TypeOK'
      BY <1>0, <2>2, <2>3, <2>4 DEF Fga!TypeOK, FgJob
    <3>2. Fga!CacheFollowsWrites'
      BY <2>2, <2>4 DEF FgaInv, Fga!CacheFollowsWrites, Fga!Holds, Fga!Leads
    <3> QED
      BY <1>4, <2>2, <2>3, <3>1, <3>2 DEF FgaInv
  <2>5. CASE /\ t.key[2] # None
             /\ cache' = [cache EXCEPT ![t.key] = t.key[2] \in t.found]
             /\ raced' = IF t.raced THEN raced \cup {t.key} ELSE raced \ {t.key}
             /\ shallow' = IF t.cut THEN shallow \cup {t.key} ELSE shallow \ {t.key}
    <3>0. t.key \in Fga!Key /\ (t.key[2] \in t.found) \in BOOLEAN
      BY <2>5 DEF FgJob, Fga!Key
    <3>1. /\ cache' \in [Fga!Key -> BOOLEAN \cup {None}] /\ raced' \subseteq Fga!Key
          /\ shallow' \subseteq Fga!Key
      BY <1>0, <2>5, <3>0
    <3>2. Fga!TypeOK'
      BY <1>0, <2>2, <2>3, <3>1 DEF Fga!TypeOK, FgJob
    <3>3. ASSUME NEW k \in Fga!Key, ~writing, cache'[k] # None, k \notin raced' \cup shallow'
          PROVE  cache'[k] = Fga!Holds(k)
      <4>1. CASE k = t.key
        <5>1. ~t.raced /\ ~t.cut /\ cache'[k] = (t.key[2] \in t.found)
          BY <1>0, <2>5, <3>3, <4>1
        <5> QED
          BY <2>1, <2>5, <4>1, <5>1, FinishedIsRight
      <4>2. CASE k # t.key
        BY <1>0, <2>5, <3>3, <4>2 DEF FgaInv, Fga!CacheFollowsWrites
      <4> QED
        BY <4>1, <4>2
    <3>4. Fga!CacheFollowsWrites'
      BY <2>2, <3>3 DEF Fga!CacheFollowsWrites, Fga!Holds, Fga!Leads
    <3> QED
      BY <1>4, <2>2, <2>3, <3>2, <3>4 DEF FgaInv
  <2> QED
    BY <1>5, <2>1, <2>4, <2>5 DEF Fga!Answer, Fga!histories
<1>6. ASSUME Fga!Changes, maxDepth' = maxDepth, cache' = cache, shallow' = shallow,
             writing' \in BOOLEAN, raced' \subseteq Fga!Key, writing' \/ raced' = Fga!Key
      PROVE  FgaInv'
  <2>1. /\ fgWork' = Fga!Overlap /\ writes' \in 0 .. MaxWrites /\ warrants' \subseteq Space
    BY <1>0, <1>6, AccessAssumption DEF Fga!Changes
  <2>2. \A t \in FgJob : [t EXCEPT !.raced = TRUE] \in FgJob /\ [t EXCEPT !.raced = TRUE].raced
    BY DEF FgJob
  <2>3. /\ fgWork' \in [Checker -> {None} \cup FgJob]
        /\ \A q \in Checker : fgWork'[q] # None => fgWork'[q].raced
    BY <1>0, <2>1, <2>2 DEF Fga!Overlap
  <2>4. Fga!TypeOK'
    BY <1>0, <1>6, <2>1, <2>3 DEF Fga!TypeOK, FgJob
  <2>5. Fga!CacheFollowsWrites'
    BY <1>6 DEF Fga!CacheFollowsWrites
  <2> QED
    BY <2>3, <2>4, <2>5 DEF FgaInv
<1>7. CASE Fga!WriteWarrant
  BY <1>0, <1>6, <1>7 DEF Fga!WriteWarrant, Fga!histories
<1>8. CASE Fga!ForeignWrite
  BY <1>0, <1>6, <1>8 DEF Fga!ForeignWrite
\* Answers that go leave the others as they are.
<1>9. ASSUME fgWork' = fgWork, maxDepth' = maxDepth, warrants' = warrants, writes' = writes,
             raced' = raced, shallow' = shallow, writing' \in BOOLEAN,
             cache' \in [Fga!Key -> BOOLEAN \cup {None}],
             \A k \in Fga!Key : cache'[k] = None \/ (cache'[k] = cache[k] /\ writing' = writing)
      PROVE  FgaInv'
  <2>1. Fga!TypeOK'
    BY <1>0, <1>9 DEF Fga!TypeOK, FgJob
  <2>2. Fga!CacheFollowsWrites'
    BY <1>9 DEF FgaInv, Fga!CacheFollowsWrites, Fga!Holds, Fga!Leads
  <2> QED
    BY <1>0, <1>4, <1>9, <2>1, <2>2 DEF FgaInv
<1>10. CASE Fga!ClearCache
  BY <1>9, <1>10 DEF Fga!ClearCache, Fga!Cleared, Fga!histories
<1>11. CASE Fga!ExpireEntry
  BY <1>0, <1>9, <1>11 DEF Fga!ExpireEntry, Fga!histories
<1>12. CASE UNCHANGED fgVars
  BY <1>0, <1>9, <1>12 DEF fgVars
<1> QED
  BY <1>1, <1>2, <1>3, <1>5, <1>7, <1>8, <1>10, <1>11, <1>12 DEF Fga!Next

-------------------------------------------------------------------------------
(* Sso.                                                                       *)

LEMMA SsoInit == Sso!Init => SsoInv
<1> SUFFICES ASSUME Sso!Init PROVE Undisturbed
  BY DEF SsoInv
<1>1. /\ connections = <<>> /\ sessions = <<>> /\ clock = 0 /\ cookie = 0 /\ silent = FALSE
      /\ ssWork = [r \in Request |-> None] /\ answered = [t \in Sso!Type |-> 0]
  BY DEF Sso!Init
<1>2. Conns = {} /\ 1 .. Len(sessions) = {} /\ Len(sessions) = 0
  BY <1>1 DEF Conns
<1>3. OneEach
  BY <1>1, <1>2 DEF OneEach
<1>4. AnsweredServed
  BY <1>1, AccessAssumption DEF AnsweredServed
<1>5. SessionsKnown
  BY <1>1, <1>2 DEF SessionsKnown
<1>6. OneSaver
  BY <1>1 DEF OneSaver, Sso!At
<1> QED
  BY <1>1, <1>3, <1>4, <1>5, <1>6 DEF Undisturbed

\* The connection served is the one there is.
LEMMA ServedIs ==
    ASSUME OneEach, NEW t \in Sso!Type
    PROVE  \/ Sso!Served({t}) = None /\ \A i \in Conns : connections[i].type # t
           \/ \E i \in Conns : connections[i].type = t /\ Sso!Served({t}) = connections[i]
<1> DEFINE found == {i \in 1 .. Len(connections) :
                        connections[i].enabled /\ connections[i].type \in {t}}
           Best(i) == \A j \in found :
                         IF ssStore = "memory" THEN i <= j ELSE connections[i].at >= connections[j].at
<1>1. CASE \A i \in Conns : connections[i].type # t
  <2>1. found = {}
    BY <1>1 DEF Conns
  <2> QED
    BY <1>1, <2>1 DEF Sso!Served
<1>2. ASSUME NEW i \in Conns, connections[i].type = t
      PROVE  Sso!Served({t}) = connections[i]
  <2>1. found = {i}
    BY <1>2 DEF OneEach, Conns
  <2>2. i \in Int /\ connections[i].at \in Int
    <3>1. connections[i] \in Sso!Connection /\ i \in Int
      BY <1>2 DEF OneEach, Conns
    <3> QED
      BY <3>1 DEF Sso!Connection
  <2>3. i \in found /\ Best(i)
    BY <2>1, <2>2
  <2>4. (CHOOSE n \in found : Best(n)) = i
    <3> HIDE DEF found, Best
    <3> QED
      BY <2>1, <2>3
  <2> QED
    BY <2>1, <2>4 DEF Sso!Served
<1> QED
  BY <1>1, <1>2

\* What a request knows survives while the connections stay and sessions only come and end.
LEMMA KnowsOn ==
    ASSUME connections' = connections, clock \in Nat, clock' \in Nat, clock <= clock',
           answered' = answered, OneEach, SessionsKnown,
           Len(sessions') \in Nat, Len(sessions) <= Len(sessions'),
           \A s \in 1 .. Len(sessions) : /\ sessions'[s].saml = sessions[s].saml
                                         /\ sessions'[s].live => sessions[s].live,
           NEW j, Knows(j)
    PROVE  Knows(j)'
<1>1. j.pc = "save" => j.row.id <= clock' /\ j.row.at <= clock'
  BY DEF Knows, Sso!Connection
<1>2. j.pc \in {"context", "clear"} => j.cookie \in 1 .. Len(sessions') /\ j.cookie \in 1 .. Len(sessions)
  BY DEF Knows, SessionsKnown
<1>3. j.pc \in {"context", "clear"} => (sessions'[j.cookie].saml # 0 => j.id = sessions'[j.cookie].saml)
  BY <1>2 DEF Knows
<1>4. j.pc = "clear" => (sessions'[j.cookie].live => j.context = sessions'[j.cookie].saml)
  BY <1>2 DEF Knows
<1> QED
  BY <1>1, <1>2, <1>3, <1>4 DEF Knows, Fits, HasSaml, Conns

\* A request that goes on, and nothing new is configured.
LEMMA SsoGoesOn ==
    ASSUME Undisturbed, NEW r \in Request, NEW x, ssWork' = [ssWork EXCEPT ![r] = x] \/ ssWork' = ssWork,
           x # None => Knows(x)' /\ x.pc # "save",
           connections' = connections, clock' = clock, answered' = answered,
           silent' = silent \/ ~silent', SessionsKnown', Len(sessions) <= Len(sessions'),
           \A s \in 1 .. Len(sessions) : /\ sessions'[s].saml = sessions[s].saml
                                         /\ sessions'[s].live => sessions[s].live
    PROVE  Undisturbed'
<1>1. ssWork' = [q \in Request |-> ssWork'[q]]
      /\ \A q \in Request : ssWork'[q] = ssWork[q] \/ (q = r /\ ssWork'[q] = x)
  BY DEF Undisturbed
<1>2. ASSUME NEW q \in Request, ssWork'[q] # None PROVE Knows(ssWork[q])'
  <2>1. PICK j : j = ssWork'[q]
    OBVIOUS
  <2>2. CASE q = r /\ j = x
    BY <1>2, <2>1, <2>2 DEF Knows, Fits, HasSaml, Conns
  <2>3. CASE j = ssWork[q]
    <3>1. Knows(j)
      BY <1>2, <2>1, <2>3 DEF Undisturbed
    <3>2. clock \in Nat /\ Len(sessions') \in Nat
      BY DEF Undisturbed, AnsweredServed, SessionsKnown
    <3>3. clock <= clock' /\ clock' \in Nat
      BY <3>2
    <3>4. Knows(j)'
      BY <3>1, <3>2, <3>3, KnowsOn DEF Undisturbed
    <3> QED
      BY <2>1, <3>4 DEF Knows, Fits, HasSaml, Conns
  <2> QED
    BY <1>1, <2>1, <2>2, <2>3
<1>3. OneSaver'
  <2>1. ASSUME NEW q \in Request, ssWork'[q] # None, ssWork'[q].pc = "save"
        PROVE  ssWork'[q] = ssWork[q]
    BY <1>1, <2>1
  <2> QED
    BY <2>1 DEF Undisturbed, OneSaver, Sso!At
<1>4. OneEach' /\ AnsweredServed'
  BY DEF Undisturbed, OneEach, AnsweredServed, Conns
<1> QED
  BY <1>1, <1>2, <1>3, <1>4 DEF Undisturbed

-------------------------------------------------------------------------------
\* A configuration that begins takes over the id of its type's connection, or a new one.
LEMMA SsoReads ==
    ASSUME Undisturbed, NEW r \in Request, Sso!ReadExisting(r), ~ssExempt'
    PROVE  Undisturbed'
<1>1. /\ ssWork[r] # None /\ ssWork[r].pc = "read" /\ clock < MaxClock /\ clock' = clock + 1
      /\ ssWork' = [ssWork EXCEPT ![r] = [pc |-> "save", type |-> ssWork[r].type,
                                          row |-> Sso!Row(ssWork[r].type, ssWork[r].slo, clock')]]
      /\ \A q \in Request : Sso!At(q, "save") => ssWork[q].type # ssWork[r].type
      /\ connections' = connections /\ sessions' = sessions /\ cookie' = cookie
      /\ answered' = answered /\ silent' = silent
  BY DEF Sso!ReadExisting, Sso!At
<1>2. PICK t \in Sso!Type, slo \in BOOLEAN : t = ssWork[r].type /\ slo = ssWork[r].slo
  BY <1>1 DEF Undisturbed, Knows
<1>3. /\ OneEach /\ AnsweredServed /\ SessionsKnown /\ ssWork = [q \in Request |-> ssWork[q]]
      /\ clock \in 0 .. MaxClock /\ clock' \in 1 .. MaxClock /\ clock <= clock' /\ ~(clock' <= clock)
      /\ answered[t] \in Nat /\ answered[t] <= clock
  BY <1>1, <1>2, AccessAssumption DEF Undisturbed, AnsweredServed
<1>4. \A i \in Conns : /\ connections[i] \in Sso!Connection /\ connections[i].id \in 1 .. MaxClock
                       /\ connections[i].id <= clock /\ connections[i].at <= clock
                       /\ connections[i].at \in Nat
  <2>1. \A i \in Conns : connections[i] \in Sso!Connection
    BY <1>3 DEF OneEach, Conns
  <2>2. \A c \in Sso!Connection : c.id \in 1 .. MaxClock /\ c.at \in Nat
    BY DEF Sso!Connection
  <2> QED
    BY <1>3, <2>1, <2>2 DEF OneEach
<1>5. PICK row : row = Sso!Row(t, slo, clock')
  OBVIOUS
<1>6. /\ row.type = t /\ row.at = clock' /\ row.enabled /\ row \in Sso!Connection
      /\ row.id <= clock' /\ Fits(row)
      /\ row.id = clock' \/ \E i \in Conns : connections[i].type = t /\ row.id = connections[i].id
  <2>1. row = [id |-> Sso!Reused(Sso!Served({t}), clock'), type |-> t, at |-> clock', slo |-> slo,
               enabled |-> TRUE]
    BY <1>5 DEF Sso!Row
  <2>2. CASE Sso!Served({t}) = None /\ \A i \in Conns : connections[i].type # t
    <3>1. row.id = clock' /\ row.type = t /\ row.at = clock' /\ row.enabled
      BY <2>1, <2>2 DEF Sso!Reused
    <3>2. row \in Sso!Connection
      BY <1>3, <2>1, <2>2 DEF Sso!Reused, Sso!Connection
    <3>3. \A i \in Conns : connections[i].id # row.id
      BY <1>3, <1>4, <3>1
    <3>4. Fits(row)
      BY <2>2, <3>1, <3>3 DEF Fits
    <3> QED
      BY <1>3, <3>1, <3>2, <3>4
  <2>3. ASSUME NEW i \in Conns, connections[i].type = t, Sso!Served({t}) = connections[i]
        PROVE  /\ row.type = t /\ row.at = clock' /\ row.enabled /\ row \in Sso!Connection
               /\ row.id <= clock' /\ Fits(row) /\ row.id = connections[i].id
    <3>1. connections[i] # None
      BY <1>4, AccessAssumption
    <3>2. row = [id |-> connections[i].id, type |-> t, at |-> clock', slo |-> slo, enabled |-> TRUE]
      BY <2>1, <2>3, <3>1 DEF Sso!Reused
    <3>3. row.id = connections[i].id /\ row.type = t /\ row.at = clock' /\ row.enabled
      BY <3>2
    <3>4. row \in Sso!Connection
      BY <1>3, <1>4, <3>2 DEF Sso!Connection
    <3>5. row.id <= clock'
      <4>1. \A m, n, k \in Int : m <= n /\ n <= k => m <= k
        OBVIOUS
      <4>2. row.id \in Int /\ clock \in Int /\ clock' \in Int /\ row.id <= clock
        BY <1>3, <1>4, <3>3
      <4> QED
        BY <1>3, <4>1, <4>2
    <3>6. Fits(row)
      BY <1>3, <2>3, <3>3 DEF Fits, OneEach
    <3> QED
      BY <3>3, <3>4, <3>5, <3>6
  <2> QED
    BY <1>3, <2>2, <2>3, ServedIs
<1>7. PICK x : x = [pc |-> "save", type |-> t, row |-> row]
  OBVIOUS
<1>8. x.pc = "save" /\ x.type = t /\ x.row = row
  BY <1>7
<1>9. ssWork' = [ssWork EXCEPT ![r] = x]
  BY <1>1, <1>2, <1>5, <1>7
<1>10. /\ ssWork' = [q \in Request |-> ssWork'[q]]
       /\ ssWork'[r] = x /\ \A q \in Request : q # r => ssWork'[q] = ssWork[q]
  BY <1>3, <1>9
<1>11. ASSUME NEW q \in Request, ssWork'[q] # None PROVE Knows(ssWork[q])'
  <2>1. PICK j : j = ssWork'[q]
    OBVIOUS
  <2>2. CASE q = r
    <3>1. j = x
      BY <1>10, <2>1, <2>2
    <3>2. answered'[j.type] <= j.row.at
      <4>1. \A m, n, k \in Int : m <= n /\ n <= k => m <= k
        OBVIOUS
      <4>2. answered[t] <= clock'
        BY <1>3, <4>1
      <4> QED
        BY <1>1, <1>6, <1>8, <3>1, <4>2
    <3>3. Fits(row)' /\ row.at <= clock'
      BY <1>1, <1>3, <1>6 DEF Fits, Conns
    <3> QED
      BY <1>6, <1>8, <2>1, <3>1, <3>2, <3>3 DEF Knows, Fits, Conns
  <2>3. CASE q # r
    <3>1. Knows(j)
      BY <1>10, <1>11, <2>1, <2>3 DEF Undisturbed
    <3>2. clock \in Nat /\ clock' \in Nat /\ Len(sessions') \in Nat /\ Len(sessions) <= Len(sessions')
      BY <1>1, <1>3 DEF SessionsKnown
    <3>3. Knows(j)'
      BY <1>1, <1>3, <3>1, <3>2, KnowsOn
    <3> QED
      BY <2>1, <3>3 DEF Knows, Fits, HasSaml, Conns
  <2> QED
    BY <2>2, <2>3
<1>12. ASSUME NEW q \in Request, q # r, ssWork[q] # None, ssWork[q].pc = "save"
       PROVE  ssWork[q].type # t /\ ssWork[q].row.id # row.id
  <2>1. ssWork[q].type # t
    BY <1>1, <1>2, <1>12 DEF Sso!At
  <2>2. Knows(ssWork[q])
    BY <1>12 DEF Undisturbed
  <2>3. ssWork[q].row \in Sso!Connection /\ ssWork[q].row.id <= clock /\ Fits(ssWork[q].row)
        /\ ssWork[q].row.type # t
    BY <1>12, <2>1, <2>2 DEF Knows
  <2>4. PICK k : k = ssWork[q].row /\ k.id <= clock /\ k.type # t /\ Fits(k)
    BY <2>3
  <2>5. ~(row.id = clock' /\ row.id = k.id)
    BY <1>3, <2>4
  <2>6. ASSUME NEW i \in Conns, connections[i].type = t, row.id = connections[i].id
        PROVE  row.id # k.id
    BY <2>4, <2>6 DEF Fits
  <2> QED
    BY <1>6, <2>1, <2>4, <2>5, <2>6
<1>13. OneSaver'
  <2> SUFFICES ASSUME NEW q \in Request, NEW s \in Request, q # s,
                      ssWork'[q] # None, ssWork'[q].pc = "save", ssWork'[s] # None, ssWork'[s].pc = "save"
               PROVE  ssWork'[q].type # ssWork'[s].type /\ ssWork'[q].row.id # ssWork'[s].row.id
    BY DEF OneSaver, Sso!At
  <2>1. CASE q = r
    BY <1>8, <1>10, <1>12, <2>1
  <2>2. CASE s = r
    BY <1>8, <1>10, <1>12, <2>2
  <2>3. CASE q # r /\ s # r
    BY <1>10, <2>3 DEF Undisturbed, OneSaver, Sso!At
  <2> QED
    BY <2>1, <2>2, <2>3
<1>14. OneEach'
  <2>1. \A m, n, k \in Int : m <= n /\ n <= k => m <= k
    OBVIOUS
  <2>2. \A i \in Conns : connections[i].id <= clock' /\ connections[i].at <= clock'
    BY <1>3, <1>4, <2>1
  <2> QED
    BY <1>1, <1>3, <2>2 DEF OneEach, Conns
<1>15. AnsweredServed'
  <2>1. \A m, n, k \in Int : m <= n /\ n <= k => m <= k
    OBVIOUS
  <2>2. \A u \in Sso!Type : answered[u] <= clock'
    BY <1>3, <2>1 DEF AnsweredServed
  <2> QED
    BY <1>1, <1>3, <2>2 DEF AnsweredServed, Conns
<1>16. SessionsKnown'
  BY <1>1, <1>3 DEF SessionsKnown, HasSaml, Conns
<1> QED
  BY <1>1, <1>10, <1>11, <1>13, <1>14, <1>15, <1>16 DEF Undisturbed

-------------------------------------------------------------------------------
\* What is saved takes the place of its type's connection, or is the first.
LEMMA SavedFits ==
    ASSUME OneEach, NEW c \in Sso!Connection, c.enabled, c.id <= clock, c.at <= clock, Fits(c),
           clock' = clock, connections' = Sso!Saved(c)
    PROVE  /\ OneEach'
           /\ \A i \in Conns : /\ i \in Conns' /\ connections'[i].id = connections[i].id
                               /\ connections'[i].type = connections[i].type
                               /\ connections'[i] = IF connections[i].id = c.id THEN c ELSE connections[i]
           /\ \A i \in Conns' \ Conns : connections'[i] = c
           /\ \E i \in Conns' : connections'[i] = c
<1>1. /\ connections \in Seq(Sso!Connection) /\ Len(connections) \in Nat
      /\ \A i \in Conns : connections[i] \in Sso!Connection
  BY DEF OneEach, Conns
<1>2. CASE \E i \in Conns : connections[i].id = c.id
  <2>1. connections' = [i \in Conns |-> IF connections[i].id = c.id THEN c ELSE connections[i]]
    BY <1>2 DEF Sso!Saved, Conns
  <2>2. connections' \in Seq(Sso!Connection) /\ Len(connections') = Len(connections)
    BY <1>1, <2>1 DEF Conns
  <2>3. Conns' = Conns
    BY <2>2 DEF Conns
  <2>4. \A i \in Conns : connections'[i] = IF connections[i].id = c.id THEN c ELSE connections[i]
    BY <2>1
  <2>5. \A i \in Conns : connections'[i].id = connections[i].id /\ connections'[i].type = connections[i].type
    BY <2>4 DEF Fits
  <2>6. \A i \in Conns :
          connections'[i].enabled /\ connections'[i].id <= clock /\ connections'[i].at <= clock
    BY <2>4 DEF OneEach
  <2>7. OneEach'
    BY <2>2, <2>3, <2>5, <2>6 DEF OneEach
  <2> QED
    BY <1>2, <2>3, <2>4, <2>5, <2>7
<1>3. CASE \A i \in Conns : connections[i].id # c.id
  <2>1. connections' = Append(connections, c)
    BY <1>3 DEF Sso!Saved, Conns
  <2>2. /\ connections' \in Seq(Sso!Connection) /\ Len(connections') = Len(connections) + 1
        /\ connections'[Len(connections) + 1] = c
        /\ \A i \in 1 .. Len(connections) : connections'[i] = connections[i]
    BY <1>1, <2>1
  <2>3. /\ Conns' = Conns \cup {Len(connections) + 1} /\ Len(connections) + 1 \notin Conns
    BY <1>1, <2>2 DEF Conns
  <2>4. \A i \in Conns : connections'[i] = connections[i]
    BY <2>2 DEF Conns
  <2>5. \A i \in Conns : connections[i].id # c.id /\ connections[i].type # c.type
    BY <1>3 DEF Fits
  <2>6. \A i \in Conns' :
          connections'[i].enabled /\ connections'[i].id <= clock /\ connections'[i].at <= clock
    BY <2>2, <2>3, <2>4 DEF OneEach
  <2>7. ASSUME NEW i \in Conns', NEW j \in Conns', i # j
        PROVE  connections'[i].type # connections'[j].type /\ connections'[i].id # connections'[j].id
    BY <2>2, <2>3, <2>4, <2>5, <2>7 DEF OneEach
  <2>8. OneEach'
    BY <2>2, <2>6, <2>7 DEF OneEach
  <2> QED
    BY <1>3, <2>2, <2>3, <2>4, <2>8
<1> QED
  BY <1>2, <1>3

LEMMA SsoSaves ==
    ASSUME Undisturbed, NEW r \in Request, Sso!SaveConnection(r)
    PROVE  Undisturbed'
<1>1. /\ ssWork[r] # None /\ ssWork[r].pc = "save" /\ connections' = Sso!Saved(ssWork[r].row)
      /\ answered' = [answered EXCEPT ![ssWork[r].type] = ssWork[r].row.at]
      /\ ssWork' = [ssWork EXCEPT ![r] = None]
      /\ clock' = clock /\ sessions' = sessions /\ cookie' = cookie /\ silent' = silent
  BY DEF Sso!SaveConnection, Sso!At
<1>2. Knows(ssWork[r])
  BY <1>1 DEF Undisturbed
<1>3. PICK c \in Sso!Connection : /\ c = ssWork[r].row /\ c.enabled /\ c.type = ssWork[r].type
                                  /\ c.id <= clock /\ c.at <= clock /\ Fits(c)
                                  /\ c.type \in Sso!Type /\ c.at \in Nat
                                  /\ answered[c.type] <= c.at
  <2>1. \A c \in Sso!Connection : c.type \in Sso!Type /\ c.at \in Nat
    BY DEF Sso!Connection
  <2> QED
    BY <1>1, <1>2, <2>1 DEF Knows
<1>4. /\ OneEach' /\ \E i \in Conns' : connections'[i] = c
      /\ \A i \in Conns : /\ i \in Conns' /\ connections'[i].id = connections[i].id
                          /\ connections'[i].type = connections[i].type
                          /\ connections'[i] = IF connections[i].id = c.id THEN c ELSE connections[i]
      /\ \A i \in Conns' \ Conns : connections'[i] = c
  <2>1. OneEach /\ connections' = Sso!Saved(c)
    BY <1>1, <1>3 DEF Undisturbed
  <2> QED
    BY <1>1, <1>3, <2>1, SavedFits
<1>5. \A id : HasSaml(id) => HasSaml(id)'
  BY <1>4 DEF HasSaml
<1>6. ssWork' = [q \in Request |-> ssWork'[q]]
      /\ ssWork'[r] = None /\ \A q \in Request : q # r => ssWork'[q] = ssWork[q]
  BY <1>1 DEF Undisturbed
<1>7. answered' \in [Sso!Type -> Nat] /\ answered'[c.type] = c.at
      /\ \A t \in Sso!Type : t # c.type => answered'[t] = answered[t]
  BY <1>1, <1>3 DEF Undisturbed, AnsweredServed
<1>8. ASSUME NEW q \in Request, ssWork'[q] # None PROVE Knows(ssWork[q])'
  <2>1. PICK j : j = ssWork'[q] /\ j = ssWork[q] /\ q # r
    BY <1>6, <1>8
  <2>2. Knows(j)
    BY <1>8, <2>1 DEF Undisturbed
  <2>3. ASSUME j.pc = "save" PROVE answered'[j.type] <= j.row.at /\ Fits(j.row)'
    <3>1. j.type # c.type /\ j.row.id # c.id
      BY <1>1, <1>3, <1>8, <2>1, <2>3 DEF Undisturbed, OneSaver, Sso!At
    <3>2. PICK k \in Sso!Connection : k = j.row /\ k.type = j.type /\ Fits(k) /\ answered[j.type] <= k.at
                                      /\ k.type \in Sso!Type
      <4>1. \A k \in Sso!Connection : k.type \in Sso!Type
        BY DEF Sso!Connection
      <4> QED
        BY <2>2, <2>3, <4>1 DEF Knows
    <3>3. answered'[j.type] <= j.row.at
      BY <1>7, <3>1, <3>2
    <3>4. Fits(k)'
      <4>1. ASSUME NEW i \in Conns' PROVE connections'[i].id = k.id <=> connections'[i].type = k.type
        BY <1>4, <3>1, <3>2, <4>1 DEF Fits
      <4> QED
        BY <4>1 DEF Fits
    <3> QED
      BY <3>2, <3>3, <3>4 DEF Fits
  <2>4. j.pc = "assert" => HasSaml(j.id)'
    BY <1>5, <2>2 DEF Knows
  <2>5. Knows(j)'
    <3>1. j.pc = "save" => /\ j.row \in Sso!Connection /\ j.row.enabled /\ j.row.type = j.type
                           /\ j.row.id <= clock' /\ j.row.at <= clock'
      BY <1>1, <2>2 DEF Knows
    <3>2. /\ j.pc = "read" => j.type \in Sso!Type /\ j.slo \in BOOLEAN
          /\ j.pc \in {"context", "clear"} =>
                /\ j.cookie \in 1 .. Len(sessions')
                /\ sessions'[j.cookie].saml # 0 => j.id = sessions'[j.cookie].saml
          /\ j.pc = "clear" => (sessions'[j.cookie].live => j.context = sessions'[j.cookie].saml)
      BY <1>1, <2>2 DEF Knows
    <3> QED
      BY <2>3, <2>4, <3>1, <3>2 DEF Knows
  <2> QED
    BY <2>1, <2>5 DEF Knows, Fits, HasSaml
<1>9. OneSaver'
  BY <1>6 DEF Undisturbed, OneSaver, Sso!At
<1>10. SessionsKnown'
  <2>1. ASSUME NEW s \in 1 .. Len(sessions'), sessions'[s].saml # 0 PROVE HasSaml(sessions[s].saml)'
    <3>1. HasSaml(sessions[s].saml)
      BY <1>1, <2>1 DEF Undisturbed, SessionsKnown
    <3>2. PICK id : id = sessions[s].saml
      OBVIOUS
    <3>3. HasSaml(id)'
      BY <1>5, <3>1, <3>2
    <3> QED
      BY <1>1, <3>2, <3>3 DEF HasSaml
  <2> QED
    BY <1>1, <2>1 DEF Undisturbed, SessionsKnown
<1>11. AnsweredServed'
  <2>1. ASSUME NEW t \in Sso!Type
        PROVE  /\ answered'[t] <= clock'
               /\ answered'[t] # 0 =>
                    \E i \in Conns' : connections'[i].type = t /\ connections'[i].at >= answered'[t]
    <3>1. CASE t = c.type
      BY <1>1, <1>3, <1>4, <1>7, <3>1
    <3>2. CASE t # c.type
      <4>1. ASSUME answered'[t] # 0
            PROVE  \E i \in Conns' : connections'[i].type = t /\ connections'[i].at >= answered'[t]
        <5>1. PICK i \in Conns : connections[i].type = t /\ connections[i].at >= answered[t]
          BY <1>7, <3>2, <4>1 DEF Undisturbed, AnsweredServed
        <5>2. connections'[i] = connections[i] /\ i \in Conns'
          BY <1>3, <1>4, <3>2, <5>1 DEF Fits
        <5> QED
          BY <1>7, <3>2, <5>1, <5>2
      <4>2. answered'[t] <= clock'
        BY <1>1, <1>7, <3>2 DEF Undisturbed, AnsweredServed
      <4> QED
        BY <4>1, <4>2
    <3> QED
      BY <3>1, <3>2
  <2> QED
    BY <1>1, <1>7, <2>1 DEF Undisturbed, AnsweredServed
<1> QED
  BY <1>1, <1>4, <1>6, <1>8, <1>9, <1>10, <1>11 DEF Undisturbed

-------------------------------------------------------------------------------
\* Sessions are added of the one SAML connection, and end.
LEMMA SessionsOn ==
    ASSUME Undisturbed, connections' = connections,
           \/ sessions' = sessions /\ cookie' = cookie
           \/ \E id \in Nat : (id = 0 \/ HasSaml(id)) /\ Sso!Promoted(id)
           \/ /\ cookie' = 0
              /\ \E s \in 1 .. Len(sessions) : sessions' = [sessions EXCEPT ![s].live = FALSE]
    PROVE  /\ SessionsKnown' /\ Len(sessions) <= Len(sessions')
           /\ \A s \in 1 .. Len(sessions) : /\ sessions'[s].saml = sessions[s].saml
                                            /\ sessions'[s].live => sessions[s].live
<1> DEFINE S == [saml : Nat, live : BOOLEAN]
<1>1. /\ sessions \in Seq(S) /\ Len(sessions) \in Nat /\ cookie \in 0 .. Len(sessions)
      /\ \A s \in 1 .. Len(sessions) : sessions[s] \in S
      /\ \A s \in 1 .. Len(sessions) : sessions[s].saml # 0 => HasSaml(sessions[s].saml)
  <2>1. /\ sessions \in Seq(S) /\ cookie \in 0 .. Len(sessions)
        /\ \A s \in 1 .. Len(sessions) : sessions[s].saml # 0 => HasSaml(sessions[s].saml)
    BY DEF Undisturbed, SessionsKnown
  <2> HIDE DEF S
  <2> QED
    BY <2>1
<1>2. \A id : HasSaml(id) <=> HasSaml(id)'
  BY DEF HasSaml, Conns
<1>3. CASE sessions' = sessions /\ cookie' = cookie
  BY <1>1, <1>3 DEF SessionsKnown, HasSaml, Conns
<1>4. ASSUME NEW id \in Nat, id = 0 \/ HasSaml(id), Sso!Promoted(id)
      PROVE  /\ SessionsKnown' /\ Len(sessions) <= Len(sessions')
             /\ \A s \in 1 .. Len(sessions) : sessions'[s] = sessions[s]
  <2>0. [saml |-> id, live |-> TRUE] \in S /\ [saml |-> id, live |-> TRUE].saml = id
    OBVIOUS
  <2>1. PICK new \in S : new = [saml |-> id, live |-> TRUE] /\ new.saml = id
    BY <2>0
  <2>2. sessions' = Append(sessions, new) /\ cookie' = Len(sessions) + 1
    BY <1>4, <2>1 DEF Sso!Promoted
  <2>3. /\ sessions' \in Seq(S) /\ Len(sessions') = Len(sessions) + 1
        /\ sessions'[Len(sessions) + 1] = new
        /\ \A s \in 1 .. Len(sessions) : sessions'[s] = sessions[s]
    <3> HIDE DEF S
    <3> QED
      BY <1>1, <2>2
  <2>4. ASSUME NEW s \in 1 .. Len(sessions'), sessions'[s].saml # 0 PROVE HasSaml(sessions[s].saml)'
    <3>1. PICK other : other = sessions'[s].saml
      OBVIOUS
    <3>2. HasSaml(other)
      <4>1. CASE s = Len(sessions) + 1
        BY <1>4, <2>1, <2>3, <2>4, <3>1, <4>1
      <4>2. CASE s \in 1 .. Len(sessions)
        BY <1>1, <2>3, <2>4, <3>1, <4>2
      <4> QED
        BY <1>1, <2>3, <4>1, <4>2
    <3> QED
      BY <3>1, <3>2 DEF HasSaml, Conns
  <2> QED
    BY <1>1, <2>2, <2>3, <2>4 DEF SessionsKnown
<1>5. ASSUME cookie' = 0, NEW c \in 1 .. Len(sessions), sessions' = [sessions EXCEPT ![c].live = FALSE]
      PROVE  /\ SessionsKnown' /\ Len(sessions) <= Len(sessions')
             /\ \A s \in 1 .. Len(sessions) : /\ sessions'[s].saml = sessions[s].saml
                                              /\ sessions'[s].live => sessions[s].live
  <2>1. PICK new \in S : new = [sessions[c] EXCEPT !.live = FALSE] /\ new.saml = sessions[c].saml
                         /\ ~new.live
    <3>1. \A x \in S : /\ [x EXCEPT !.live = FALSE] \in S /\ [x EXCEPT !.live = FALSE].saml = x.saml
                       /\ ~[x EXCEPT !.live = FALSE].live
      OBVIOUS
    <3>2. sessions[c] \in S
      BY <1>1
    <3>3. /\ [sessions[c] EXCEPT !.live = FALSE] \in S
          /\ [sessions[c] EXCEPT !.live = FALSE].saml = sessions[c].saml
          /\ ~[sessions[c] EXCEPT !.live = FALSE].live
      BY <3>1, <3>2
    <3> QED
      BY <3>3
  <2>2. sessions' = [sessions EXCEPT ![c] = new]
    BY <1>5, <2>1
  <2>3. /\ sessions' \in Seq(S) /\ Len(sessions') = Len(sessions) /\ sessions'[c] = new
        /\ \A s \in 1 .. Len(sessions) : s # c => sessions'[s] = sessions[s]
    <3>0. sessions \in Seq(S)
      BY <1>1
    <3>4. DOMAIN sessions = 1 .. Len(sessions)
      <4> HIDE DEF S
      <4> QED
        BY <3>0
    <3>5. /\ DOMAIN sessions' = DOMAIN sessions
          /\ sessions' = [s \in DOMAIN sessions |-> sessions'[s]]
      BY <2>2
    <3>1. /\ DOMAIN sessions = 1 .. Len(sessions) /\ DOMAIN sessions' = DOMAIN sessions
          /\ sessions' = [s \in DOMAIN sessions |-> sessions'[s]]
      BY <3>4, <3>5
    <3>2. sessions'[c] = new /\ \A s \in 1 .. Len(sessions) : s # c => sessions'[s] = sessions[s]
      BY <1>5, <2>2, <3>1
    <3>3. \A s \in 1 .. Len(sessions) : sessions'[s] \in S
      <4> HIDE DEF S
      <4> QED
        BY <1>1, <2>1, <3>2
    <3> HIDE DEF S
    <3> QED
      BY <1>1, <3>1, <3>2, <3>3
  <2>4. \A s \in 1 .. Len(sessions) : /\ sessions'[s].saml = sessions[s].saml
                                      /\ sessions'[s].live => sessions[s].live
    BY <2>1, <2>3
  <2>5. ASSUME NEW s \in 1 .. Len(sessions'), sessions'[s].saml # 0 PROVE HasSaml(sessions[s].saml)'
    <3>1. PICK other : other = sessions'[s].saml /\ other = sessions[s].saml
      BY <2>3, <2>4
    <3>2. HasSaml(other)
      BY <1>1, <2>3, <2>5, <3>1
    <3> QED
      BY <3>1, <3>2 DEF HasSaml, Conns
  <2> QED
    BY <1>1, <1>5, <2>3, <2>4, <2>5 DEF SessionsKnown
<1> QED
  BY <1>3, <1>4, <1>5

\* The end of a session is told its provider.
LEMMA LogoutTells ==
    ASSUME Undisturbed, NEW r \in Request, Sso!LogoutClear(r)
    PROVE  ssWork[r].cookie \in 1 .. Len(sessions) /\ ~silent'
<1>1. Knows(ssWork[r]) /\ ssWork[r].pc = "clear"
  BY DEF Undisturbed, Sso!LogoutClear, Sso!At
<1>2. PICK s \in 1 .. Len(sessions) :
        /\ s = ssWork[r].cookie
        /\ sessions[s].saml # 0 => ssWork[r].id = sessions[s].saml
        /\ sessions[s].live => ssWork[r].context = sessions[s].saml
  BY <1>1 DEF Knows
<1>3. silent' = (silent \/ /\ sessions[s].live /\ sessions[s].saml # 0
                           /\ ~Sso!Asks(ssWork[r]) /\ ~Sso!Unable(ssWork[r], sessions[s]))
  BY <1>2 DEF Sso!LogoutClear
<1>4. sessions[s].live /\ sessions[s].saml # 0 => Sso!Asks(ssWork[r]) \/ Sso!Unable(ssWork[r], sessions[s])
  BY <1>2 DEF Sso!Asks, Sso!Unable
<1>5. ~silent
  BY DEF Undisturbed
<1> QED
  BY <1>2, <1>3, <1>4, <1>5

LEMMA SsoNext == SsoInv /\ [Sso!Next]_ssVars => SsoInv'
<1> SUFFICES ASSUME SsoInv, [Sso!Next]_ssVars, ~ssExempt' PROVE Undisturbed'
  BY DEF SsoInv
<1>0. ~ssExempt /\ Undisturbed
  <2>1. ~ssExempt
    BY DEF Sso!Next, ssVars, Sso!DeleteConnection, Sso!DisableConnection, Sso!ExpireLink, Sso!Authorize,
       Sso!Discover, Sso!Slo, Sso!Configure, Sso!ReadExisting, Sso!SaveConnection, Sso!Callback,
       Sso!CallbackConnection, Sso!CallbackExchange, Sso!Acs, Sso!AcsPromote, Sso!Logout,
       Sso!LogoutContext, Sso!LogoutClear
  <2> QED
    BY <2>1 DEF SsoInv
\* What leaves the connections alone leaves a request that does not save anything with what it knows.
<1>1. ASSUME NEW r \in Request, NEW x, ssWork' = [ssWork EXCEPT ![r] = x] \/ ssWork' = ssWork,
             x # None => Knows(x)' /\ x.pc # "save",
             connections' = connections, clock' = clock, answered' = answered,
             silent' = silent \/ ~silent',
             \/ sessions' = sessions /\ cookie' = cookie
             \/ \E id \in Nat : (id = 0 \/ HasSaml(id)) /\ Sso!Promoted(id)
             \/ /\ cookie' = 0
                /\ \E s \in 1 .. Len(sessions) : sessions' = [sessions EXCEPT ![s].live = FALSE]
      PROVE  Undisturbed'
  BY <1>0, <1>1, SessionsOn, SsoGoesOn
<1>2. CASE Sso!DeleteConnection \/ Sso!DisableConnection
  BY <1>2 DEF Sso!DeleteConnection, Sso!DisableConnection
<1>3. CASE \/ Sso!ExpireLink \/ Sso!Authorize \/ Sso!Discover \/ UNCHANGED ssVars
  <2>1. /\ ssWork' = ssWork /\ connections' = connections /\ clock' = clock /\ answered' = answered
        /\ silent' = silent /\ sessions' = sessions /\ cookie' = cookie
    BY <1>3 DEF Sso!ExpireLink, Sso!Authorize, Sso!Discover, ssVars
  <2>2. SessionsKnown'
    BY <1>0, <2>1 DEF Undisturbed, SessionsKnown, HasSaml, Conns
  <2> QED
    BY <1>0, <2>1, <2>2 DEF Undisturbed, OneEach, AnsweredServed, Conns, OneSaver, Sso!At, Knows, Fits,
       HasSaml
<1>4. CASE Sso!Slo
  <2>1. /\ ssWork' = ssWork /\ connections' = connections /\ clock' = clock /\ answered' = answered
        /\ silent' = silent /\ cookie' = 0 /\ cookie # 0
        /\ sessions' = [sessions EXCEPT ![cookie].live = FALSE]
    BY <1>4 DEF Sso!Slo
  <2>2. cookie \in 1 .. Len(sessions)
    BY <1>0, <2>1 DEF Undisturbed, SessionsKnown
  <2>3. CASE Request = {}
    <3>1. SessionsKnown'
      BY <1>0, <2>1, <2>2, SessionsOn
    <3> QED
      BY <1>0, <2>1, <2>3, <3>1 DEF Undisturbed, OneEach, AnsweredServed, Conns, OneSaver
  <2>4. ASSUME NEW r \in Request PROVE Undisturbed'
    <3>1. PICK x : x = None
      OBVIOUS
    <3> QED
      BY <1>1, <2>1, <2>2, <3>1
  <2> QED
    BY <2>3, <2>4
<1>5. ASSUME NEW r \in Request, Sso!Configure(r) PROVE Undisturbed'
  <2>1. PICK t \in Sso!Type, slo \in BOOLEAN :
            ssWork' = [ssWork EXCEPT ![r] = [pc |-> "read", type |-> t, slo |-> slo]]
    BY <1>5 DEF Sso!Configure
  <2>0. /\ connections' = connections /\ clock' = clock /\ answered' = answered
        /\ silent' = silent /\ sessions' = sessions /\ cookie' = cookie
    BY <1>5 DEF Sso!Configure
  <2>2. PICK x : /\ x = [pc |-> "read", type |-> t, slo |-> slo]
                 /\ x.pc = "read" /\ x.type = t /\ x.slo = slo
    <3>1. /\ [pc |-> "read", type |-> t, slo |-> slo].pc = "read"
          /\ [pc |-> "read", type |-> t, slo |-> slo].type = t
          /\ [pc |-> "read", type |-> t, slo |-> slo].slo = slo
      OBVIOUS
    <3> QED
      BY <3>1
  <2>3. Knows(x)'
    BY <2>2 DEF Knows
  <2> QED
    BY <1>1, <2>0, <2>1, <2>2, <2>3
<1>6. ASSUME NEW r \in Request, Sso!Callback(r) PROVE Undisturbed'
  <2>1. PICK x : /\ x.pc = "callback" /\ ssWork' = [ssWork EXCEPT ![r] = x]
    BY <1>6 DEF Sso!Callback
  <2>2. Knows(x)'
    BY <2>1 DEF Knows
  <2> QED
    BY <1>1, <1>6, <2>1, <2>2 DEF Sso!Callback
<1>7. ASSUME NEW r \in Request, Sso!CallbackConnection(r) PROVE Undisturbed'
  <2>0. PICK x : /\ ssWork' = [ssWork EXCEPT ![r] = x]
                 /\ \/ x = None
                    \/ x = [pc |-> "exchange", flow |-> ssWork[r].flow, at |-> Sso!Served({"oidc"}).at]
    BY <1>7 DEF Sso!CallbackConnection
  <2>1. x = None \/ x.pc = "exchange"
    BY <2>0
  <2>2. x # None => Knows(x)' /\ x.pc # "save"
    BY <2>1 DEF Knows
  <2> QED
    BY <1>1, <1>7, <2>0, <2>2 DEF Sso!CallbackConnection
<1>8. ASSUME NEW r \in Request, Sso!CallbackExchange(r) PROVE Undisturbed'
  <2>1. /\ ssWork' = [ssWork EXCEPT ![r] = None] /\ connections' = connections /\ clock' = clock
        /\ answered' = answered /\ silent' = silent
        /\ Sso!Promoted(0) \/ (sessions' = sessions /\ cookie' = cookie)
    BY <1>8 DEF Sso!CallbackExchange
  <2>2. PICK x : x = None
    OBVIOUS
  <2>3. \/ sessions' = sessions /\ cookie' = cookie
        \/ \E id \in Nat : (id = 0 \/ HasSaml(id)) /\ Sso!Promoted(id)
    BY <2>1
  <2> QED
    BY <1>1, <2>1, <2>2, <2>3
<1>9. ASSUME NEW r \in Request, Sso!Acs(r) PROVE Undisturbed'
  <2>1. PICK i \in Conns : connections[i].type = "saml" /\ Sso!Served({"saml"}) = connections[i]
    BY <1>0, <1>9, ServedIs DEF Undisturbed, Sso!Acs, Sso!Type
  <2>2. PICK x : /\ x.pc = "assert" /\ x.id = connections[i].id /\ ssWork' = [ssWork EXCEPT ![r] = x]
    BY <1>9, <2>1 DEF Sso!Acs
  <2>3. connections' = connections
    BY <1>9 DEF Sso!Acs
  <2>4. Knows(x)'
    BY <2>1, <2>2, <2>3 DEF Knows, HasSaml, Conns
  <2> QED
    BY <1>1, <1>9, <2>2, <2>4 DEF Sso!Acs
<1>10. ASSUME NEW r \in Request, Sso!AcsPromote(r) PROVE Undisturbed'
  <2>1. /\ ssWork[r] # None /\ ssWork[r].pc = "assert" /\ Sso!Promoted(ssWork[r].id)
        /\ ssWork' = [ssWork EXCEPT ![r] = None] /\ connections' = connections /\ clock' = clock
        /\ answered' = answered /\ silent' = silent
    BY <1>10 DEF Sso!AcsPromote, Sso!At
  <2>2. HasSaml(ssWork[r].id)
    BY <1>0, <2>1 DEF Undisturbed, Knows
  <2>3. ssWork[r].id \in Nat
    <3>1. \A i \in Conns : connections[i] \in Sso!Connection
      BY <1>0 DEF Undisturbed, OneEach, Conns
    <3>2. \A c \in Sso!Connection : c.id \in Nat
      BY DEF Sso!Connection
    <3> QED
      BY <2>2, <3>1, <3>2 DEF HasSaml
  <2>4. PICK x : x = None
    OBVIOUS
  <2> QED
    BY <1>1, <2>1, <2>2, <2>3, <2>4
<1>11. ASSUME NEW r \in Request, Sso!Logout(r) PROVE Undisturbed'
  <2>1. /\ cookie \in 1 .. Len(sessions) /\ connections' = connections /\ clock' = clock
        /\ answered' = answered /\ silent' = silent /\ sessions' = sessions /\ cookie' = cookie
    BY <1>0, <1>11 DEF Sso!Logout, Undisturbed, SessionsKnown
  <2>0. PICK id, slo, x : /\ id = IF Sso!Served({"saml"}) = None THEN 0 ELSE Sso!Served({"saml"}).id
                          /\ x = [pc |-> "context", cookie |-> cookie, id |-> id, slo |-> slo]
                          /\ ssWork' = [ssWork EXCEPT ![r] = x]
    BY <1>11 DEF Sso!Logout
  <2>2. /\ x.pc = "context" /\ x.cookie = cookie /\ ssWork' = [ssWork EXCEPT ![r] = x]
        /\ x.id = IF Sso!Served({"saml"}) = None THEN 0 ELSE Sso!Served({"saml"}).id
    BY <2>0
  <2>3. ASSUME sessions[cookie].saml # 0 PROVE x.id = sessions[cookie].saml
    <3>1. PICK i \in Conns : connections[i].type = "saml" /\ connections[i].id = sessions[cookie].saml
      BY <1>0, <2>1, <2>3 DEF Undisturbed, SessionsKnown, HasSaml
    <3>2. Sso!Served({"saml"}) = connections[i]
      BY <1>0, <3>1, ServedIs DEF Undisturbed, OneEach, Sso!Type
    <3>4. connections[i] \in Sso!Connection
      BY <1>0, <3>1 DEF Undisturbed, OneEach, Conns
    <3>3. connections[i] # None
      BY <3>4, AccessAssumption
    <3> QED
      BY <2>2, <3>1, <3>2, <3>3
  <2>4. Knows(x)'
    BY <2>1, <2>2, <2>3 DEF Knows
  <2> QED
    BY <1>1, <2>1, <2>2, <2>4
<1>12. ASSUME NEW r \in Request, Sso!LogoutContext(r) PROVE Undisturbed'
  <2>1. /\ ssWork[r] # None /\ ssWork[r].pc = "context" /\ connections' = connections /\ clock' = clock
        /\ answered' = answered /\ silent' = silent /\ sessions' = sessions /\ cookie' = cookie
    BY <1>12 DEF Sso!LogoutContext, Sso!At
  <2>2. PICK x : /\ x.pc = "clear" /\ x.cookie = ssWork[r].cookie /\ x.id = ssWork[r].id
                 /\ x.context = Sso!Context(ssWork[r].cookie) /\ ssWork' = [ssWork EXCEPT ![r] = x]
    BY <1>12 DEF Sso!LogoutContext
  <2>3. Knows(ssWork[r])
    BY <1>0, <2>1 DEF Undisturbed
  <2>4. Knows(x)'
    BY <2>1, <2>2, <2>3 DEF Knows, Sso!Context
  <2> QED
    BY <1>1, <2>1, <2>2, <2>4
<1>13. ASSUME NEW r \in Request, Sso!LogoutClear(r) PROVE Undisturbed'
  <2>1. /\ ssWork[r].cookie \in 1 .. Len(sessions) /\ ~silent'
    BY <1>0, <1>13, LogoutTells
  <2>2. /\ ssWork' = [ssWork EXCEPT ![r] = None] /\ connections' = connections /\ clock' = clock
        /\ answered' = answered /\ cookie' = 0
        /\ sessions' = [sessions EXCEPT ![ssWork[r].cookie].live = FALSE]
    BY <1>13 DEF Sso!LogoutClear
  <2>3. PICK x : x = None
    OBVIOUS
  <2> QED
    BY <1>1, <2>1, <2>2, <2>3
<1>14. ASSUME NEW r \in Request, Sso!ReadExisting(r) PROVE Undisturbed'
  BY <1>0, <1>14, SsoReads
<1>15. ASSUME NEW r \in Request, Sso!SaveConnection(r) PROVE Undisturbed'
  BY <1>0, <1>15, SsoSaves
<1> QED
  BY <1>2, <1>3, <1>4, <1>5, <1>6, <1>7, <1>8, <1>9, <1>10, <1>11, <1>12, <1>13, <1>14, <1>15
  DEF Sso!Next

-------------------------------------------------------------------------------
(* DeviceGrant: type correctness.                                             *)

\* The bounds of the two grants.
LEMMA DeviceBounds == CodeTtl \in Nat /\ MaxTime \in Nat /\ None \notin User \cup Device
BY AccessAssumption
LEMMA PolledBounds ==
    /\ RequestTtl \in Nat /\ Interval \in Nat /\ MaxPollTime \in Nat /\ None \notin Client \cup Nat
    /\ None \notin User
BY AccessAssumption

LEMMA DeviceTypeInit == Codes!Init => Codes!TypeOK
BY DeviceBounds DEF Codes!Init, Codes!TypeOK, Codes!Authorization, Codes!Status

\* What a deletion leaves of the table: every row but for its status.
DropsRows ==
    /\ devices' \in [Device -> Codes!Authorization]
    /\ \A d \in Device :
          /\ devices'[d].client = devices[d].client
          /\ devices'[d].userSub = devices[d].userSub
          /\ \/ devices'[d].status = devices[d].status
             \/ Codes!Stored(d) /\ devices'[d].status = "deleted"

\* deleteByDeviceCodeHash takes at most the one row.
LEMMA DeleteRowDrops ==
    ASSUME Codes!TypeOK, NEW d \in Device, devices' = Codes!DeleteRow(d)
    PROVE  DropsRows /\ ~Codes!Stored(d)'
BY DEF Codes!TypeOK, DropsRows, Codes!DeleteRow, Codes!Stored, Codes!Authorization, Codes!Status

\* deleteForUserClient and deleteForClient take only stored rows.
LEMMA DeleteAllDrops == ASSUME Codes!TypeOK, NEW ds, Codes!DeleteAll(ds) PROVE DropsRows
BY DEF Codes!TypeOK, DropsRows, Codes!DeleteAll, Codes!Stored, Codes!Authorization, Codes!Status

\* Every step keeps the types of the table, of the requests in flight and of the histories.
LEMMA DeviceTypeNext == Codes!TypeOK /\ ApprovalsAreKept /\ DecisionsNameUsers /\ [Codes!Next]_dgVars => Codes!TypeOK'
<1> SUFFICES ASSUME Codes!TypeOK, ApprovalsAreKept, DecisionsNameUsers, [Codes!Next]_dgVars PROVE Codes!TypeOK'
  OBVIOUS
<1> USE DeviceBounds DEF Codes!TypeOK, Codes!races
<1>1. ASSUME NEW d \in Device, NEW c \in Client, Codes!Issue(d, c) PROVE Codes!TypeOK'
  BY <1>1 DEF Codes!Issue, Codes!Authorization, Codes!Status
<1>2. ASSUME NEW q \in Decider, NEW decision \in Codes!Decision, Codes!ReadForDecision(q, decision)
      PROVE  Codes!TypeOK'
  BY <1>2 DEF Codes!ReadForDecision, Codes!Decision
<1>3. ASSUME NEW q \in Decider, Codes!UpdateStatus(q) PROVE Codes!TypeOK'
  <2>1. decisions[q] \in Codes!Decision
    BY <1>3 DEF Codes!UpdateStatus
  <2>2. \A row \in Codes!Authorization : Codes!Decided(row, decisions[q]) \in Codes!Authorization
    BY <2>1 DEF Codes!Decided, Codes!Decision, Codes!Authorization, Codes!Status
  <2>3. decisions[q].status = "approved" => decisions[q].userSub \in User
    BY <1>3 DEF DecisionsNameUsers, Codes!UpdateStatus
  <2>4. decisions[q].device \in Device
    BY <2>1 DEF Codes!Decision
  <2>5. devices' \in [Device -> Codes!Authorization]
    <3> DEFINE d == decisions[q].device
    <3>1. CASE devices' = [devices EXCEPT ![d] = Codes!Decided(@, decisions[q])]
      <4>1. Codes!Decided(devices[d], decisions[q]) \in Codes!Authorization
        BY <2>2, <2>4
      <4> QED
        BY <3>1, <4>1
    <3>2. CASE UNCHANGED devices
      BY <3>2
    <3> QED
      BY <1>3, <3>1, <3>2 DEF Codes!UpdateStatus
  <2>6. approvals' \subseteq Device \X User /\ denials' \subseteq Device
    BY <1>3, <2>3, <2>4 DEF Codes!UpdateStatus
  <2> QED
    BY <1>3, <2>5, <2>6 DEF Codes!UpdateStatus
<1>4. ASSUME NEW p \in Poller, NEW d \in Device, NEW c \in Client, Codes!Poll(p, d, c) PROVE Codes!TypeOK'
  <2>1. [pc |-> Codes!PollOutcome(d), device |-> d, client |-> c, userSub |-> devices[d].userSub]
            \in Codes!Exchange
    BY <1>4 DEF Codes!Poll, Codes!PollOutcome, Codes!Exchange, Codes!Authorization
  <2> QED
    BY <1>4, <2>1 DEF Codes!Poll
<1>5. ASSUME NEW p \in Poller, Codes!DeleteExpired(p) \/ Codes!DeleteBeforeMint(p) PROVE Codes!TypeOK'
  <2>1. polls[p] \in Codes!Exchange /\ devices' = Codes!DeleteRow(polls[p].device)
    BY <1>5 DEF Codes!DeleteExpired, Codes!DeleteBeforeMint
  <2>2. devices' \in [Device -> Codes!Authorization]
    BY <2>1, DeleteRowDrops DEF DropsRows, Codes!Exchange
  <2>3. [polls[p] EXCEPT !.pc = "mint"] \in Codes!Exchange
    BY <2>1 DEF Codes!Exchange
  <2> QED
    BY <1>5, <2>2, <2>3 DEF Codes!DeleteExpired, Codes!DeleteBeforeMint
<1>6. ASSUME NEW p \in Poller, Codes!Mint(p) PROVE Codes!TypeOK'
  <2>1. polls[p] \in Codes!Exchange /\ Exchanging(p, polls[p].device)
    BY <1>6 DEF Codes!Mint, Exchanging, PollsFor
  <2>2. polls[p].device \in Device /\ polls[p].client \in Client
    BY <2>1 DEF Codes!Exchange
  <2>3. <<polls[p].device, polls[p].userSub>> \in Device \X User
    BY <2>1, <2>2 DEF ApprovalsAreKept
  <2>4. [client |-> polls[p].client, userSub |-> polls[p].userSub] \in Codes!TokenSet
    BY <2>2, <2>3 DEF Codes!TokenSet
  <2>5. \A s \in Seq(Codes!TokenSet) :
          Append(s, [client |-> polls[p].client, userSub |-> polls[p].userSub]) \in Seq(Codes!TokenSet)
    BY <2>4
  <2>6. dgMinted' \in [Device -> Seq(Codes!TokenSet)]
    BY <1>6, <2>2, <2>5 DEF Codes!Mint
  <2> QED
    BY <1>6, <2>6 DEF Codes!Mint
<1>7. ASSUME NEW ds, Codes!DeleteAll(ds) PROVE Codes!TypeOK'
  BY <1>7, DeleteAllDrops DEF DropsRows, Codes!DeleteAll
<1>8. CASE Codes!Crash \/ Codes!Tick
  BY <1>8 DEF Codes!Crash, Codes!Tick
<1>9. CASE UNCHANGED dgVars
  BY <1>9 DEF dgVars
<1>10. ASSUME NEW q \in Decider, NEW d \in Device,
              Codes!Deny(q, d) \/ \E u \in User : Codes!Approve(q, d, u)
       PROVE  Codes!TypeOK'
  BY <1>2, <1>10 DEF Codes!Deny, Codes!Approve, Codes!Decision
<1> QED
  BY <1>1, <1>3, <1>4, <1>5, <1>6, <1>7, <1>8, <1>9, <1>10
  DEF Codes!Next, Codes!DeleteForUserClient, Codes!DeleteForClient

\* updateStatus writes the decision into the row it names, if that is still there.
LEMMA DecidedRows ==
    ASSUME Codes!TypeOK, NEW q \in Decider, Codes!UpdateStatus(q)
    PROVE  /\ decisions[q] \in Codes!Decision /\ decisions[q].device \in Device
           /\ \A d \in Device :
                 /\ devices'[d].client = devices[d].client
                 /\ IF d = decisions[q].device /\ Codes!Stored(d)
                    THEN /\ devices'[d].status = decisions[q].status
                         /\ devices'[d].userSub = decisions[q].userSub
                    ELSE devices'[d] = devices[d]
<1>1. decisions[q] \in Codes!Decision /\ decisions[q].device \in Device
  BY DEF Codes!TypeOK, Codes!UpdateStatus, Codes!Decision
<1>2. CASE devices' = [devices EXCEPT ![decisions[q].device] = Codes!Decided(@, decisions[q])]
           /\ Codes!Stored(decisions[q].device)
  BY <1>1, <1>2 DEF Codes!TypeOK, Codes!Decided, Codes!Authorization
<1>3. CASE UNCHANGED devices /\ ~Codes!Stored(decisions[q].device)
  BY <1>1, <1>3
<1> QED
  BY <1>1, <1>2, <1>3 DEF Codes!UpdateStatus

-------------------------------------------------------------------------------
(* DeviceGrant: the inductive invariant.                                      *)

LEMMA DeviceInit == Codes!Init => DeviceInv
<1> SUFFICES ASSUME Codes!Init PROVE DeviceInv
  OBVIOUS
<1>1. /\ \A d \in Device : devices[d].status = "unissued" /\ dgMinted[d] = <<>>
      /\ \A p \in Poller, d \in Device : ~PollsFor(p, d)
      /\ \A q \in Decider, d \in Device : ~DecidesOn(q, d)
      /\ \A q \in Decider : decisions[q] = None
      /\ denials = {}
  BY DEF Codes!Init, PollsFor, DecidesOn
<1> QED
  BY <1>1, DeviceTypeInit
  DEF DeviceInv, ApprovalsAreKept, Codes!Redeemable, DecisionsNameUsers, UndecidedIsFresh,
      DecidedOnce, ExchangedOnce, Exchanging, Codes!MintsWhatWasApproved, Codes!DeniedNeverMints,
      Codes!ReplaysAreRefused

\* Who approved what, and what is minted from it.
LEMMA ApprovedNext ==
    DeviceInv /\ [Codes!Next]_dgVars =>
        (ApprovalsAreKept /\ DecisionsNameUsers /\ Codes!MintsWhatWasApproved)'
<1> SUFFICES ASSUME DeviceInv, [Codes!Next]_dgVars
             PROVE  (ApprovalsAreKept /\ DecisionsNameUsers /\ Codes!MintsWhatWasApproved)'
  OBVIOUS
<1> DEFINE Goal == (ApprovalsAreKept /\ DecisionsNameUsers /\ Codes!MintsWhatWasApproved)'
<1> USE DeviceBounds
    DEF DeviceInv, Codes!TypeOK, ApprovalsAreKept, DecisionsNameUsers, Codes!MintsWhatWasApproved,
        Exchanging, PollsFor, Codes!Redeemable, Codes!races
<1>1. ASSUME NEW d \in Device, NEW c \in Client, Codes!Issue(d, c) PROVE Goal
  BY <1>1 DEF Codes!Issue, UndecidedIsFresh
<1>2. ASSUME NEW q \in Decider, NEW d \in Device, Codes!Deny(q, d) PROVE Goal
  BY <1>2 DEF Codes!Deny, Codes!ReadForDecision
<1>3. ASSUME NEW q \in Decider, NEW d \in Device, NEW u \in User, Codes!Approve(q, d, u) PROVE Goal
  BY <1>3 DEF Codes!Approve, Codes!ReadForDecision
<1>4. ASSUME NEW q \in Decider, Codes!UpdateStatus(q) PROVE Goal
  <2>1. /\ approvals \subseteq approvals'
        /\ decisions[q].status = "approved" /\ Codes!Stored(decisions[q].device) =>
              <<decisions[q].device, decisions[q].userSub>> \in approvals'
    BY <1>4 DEF Codes!UpdateStatus
  <2>2. ApprovalsAreKept'
    BY <1>4, <2>1, DecidedRows DEF Codes!UpdateStatus
  <2>3. DecisionsNameUsers'
    BY <1>4 DEF Codes!UpdateStatus
  <2>4. Codes!MintsWhatWasApproved'
    BY <1>4, <2>1, DecidedRows DEF Codes!UpdateStatus
  <2> QED
    BY <2>2, <2>3, <2>4
<1>5. ASSUME NEW p \in Poller, NEW d \in Device, NEW c \in Client, Codes!Poll(p, d, c) PROVE Goal
  BY <1>5 DEF Codes!Poll, Codes!PollOutcome, Codes!PollStoredBy
<1>6. ASSUME DropsRows, UNCHANGED <<decisions, approvals, dgMinted>>,
             \A p \in Poller, d \in Device : Exchanging(p, d)' =>
                 Exchanging(p, d) /\ polls'[p].userSub = polls[p].userSub
                                  /\ polls'[p].client = polls[p].client
      PROVE  Goal
  <2>1. \A d \in Device :
           /\ devices'[d].client = devices[d].client
           /\ devices'[d].userSub = devices[d].userSub
           /\ Codes!Redeemable(d)' => Codes!Redeemable(d)
    BY <1>6 DEF DropsRows
  <2>2. ASSUME NEW d \in Device, NEW p \in Poller, Exchanging(p, d)'
        PROVE  (<<d, polls[p].userSub>> \in approvals /\ polls[p].client = devices[d].client)'
    <3>1. /\ Exchanging(p, d) /\ polls'[p].userSub = polls[p].userSub
          /\ polls'[p].client = polls[p].client
      <4> HIDE DEF Exchanging
      <4> QED
        BY <1>6, <2>2
    <3>2. <<d, polls[p].userSub>> \in approvals /\ polls[p].client = devices[d].client
      BY <3>1
    <3> QED
      BY <1>6, <2>1, <3>1, <3>2
  <2>3. ApprovalsAreKept'
    <3> HIDE DEF Exchanging, Codes!Redeemable, Codes!TypeOK
    <3> QED
      BY <1>6, <2>1, <2>2
  <2>4. DecisionsNameUsers' /\ Codes!MintsWhatWasApproved'
    BY <1>6, <2>1
  <2> QED
    BY <2>3, <2>4
<1>7. ASSUME NEW p \in Poller, Codes!DeleteExpired(p) \/ Codes!DeleteBeforeMint(p) PROVE Goal
  <2>1. polls[p].device \in Device
    BY <1>7 DEF Codes!DeleteExpired, Codes!DeleteBeforeMint, Codes!Exchange
  <2>2. DropsRows
    BY <1>7, <2>1, DeleteRowDrops DEF Codes!DeleteExpired, Codes!DeleteBeforeMint
  <2>3. \A o \in Poller, d \in Device : Exchanging(o, d)' =>
            Exchanging(o, d) /\ polls'[o].userSub = polls[o].userSub
                             /\ polls'[o].client = polls[o].client
    <3>1. /\ polls[p] \in Codes!Exchange
          /\ \A o \in Poller : o # p => polls'[o] = polls[o]
      BY <1>7 DEF Codes!DeleteExpired, Codes!DeleteBeforeMint
    <3>2. CASE Codes!DeleteExpired(p)
      BY <3>1, <3>2 DEF Codes!DeleteExpired
    <3>3. CASE Codes!DeleteBeforeMint(p)
      <4>1. /\ polls'[p].device = polls[p].device /\ polls'[p].userSub = polls[p].userSub
            /\ polls'[p].client = polls[p].client /\ polls[p].pc = "redeem"
        BY <3>1, <3>3 DEF Codes!DeleteBeforeMint, Codes!Exchange
      <4> QED
        BY <3>1, <4>1, <3>3 DEF Codes!DeleteBeforeMint
    <3> QED
      BY <1>7, <3>2, <3>3
  <2>4. UNCHANGED <<decisions, approvals, dgMinted>>
    BY <1>7 DEF Codes!DeleteExpired, Codes!DeleteBeforeMint
  <2> QED
    BY <1>6, <2>2, <2>3, <2>4
<1>8. ASSUME NEW p \in Poller, Codes!Mint(p) PROVE Goal
  <2> DEFINE d == polls[p].device
  <2> DEFINE tokens == [client |-> polls[p].client, userSub |-> polls[p].userSub]
  <2>1. d \in Device /\ Exchanging(p, d)
    BY <1>8 DEF Codes!Mint, Codes!Exchange
  <2>2. <<d, tokens.userSub>> \in approvals /\ tokens.client = devices[d].client
    BY <2>1
  <2>3. /\ dgMinted'[d] = Append(dgMinted[d], tokens)
        /\ \A e \in Device : e # d => dgMinted'[e] = dgMinted[e]
        /\ UNCHANGED <<devices, decisions, approvals>>
    BY <1>8, <2>1 DEF Codes!Mint
  <2>4. ApprovalsAreKept' /\ DecisionsNameUsers'
    BY <1>8, <2>3 DEF Codes!Mint
  <2>5. \A i \in DOMAIN dgMinted'[d] :
           dgMinted'[d][i] = tokens \/ (i \in DOMAIN dgMinted[d] /\ dgMinted'[d][i] = dgMinted[d][i])
    <3> HIDE DEF tokens
    <3>1. dgMinted[d] \in Seq(Codes!TokenSet)
      BY <2>1
    <3> QED
      BY <2>3, <3>1
  <2>6. Codes!MintsWhatWasApproved'
    <3> SUFFICES ASSUME NEW e \in Device, NEW i \in DOMAIN dgMinted'[e]
                 PROVE  /\ <<e, dgMinted'[e][i].userSub>> \in approvals
                        /\ dgMinted'[e][i].client = devices[e].client
      BY <2>3
    <3> HIDE DEF tokens, d, DeviceInv, Codes!TypeOK, ApprovalsAreKept
    <3>1. \A j \in DOMAIN dgMinted[e] :
             /\ <<e, dgMinted[e][j].userSub>> \in approvals
             /\ dgMinted[e][j].client = devices[e].client
      BY DEF DeviceInv
    <3>2. CASE e = d
      BY <2>2, <2>5, <3>1, <3>2
    <3>3. CASE e # d
      BY <2>3, <3>1, <3>3
    <3> QED
      BY <3>2, <3>3
  <2> QED
    BY <2>4, <2>6
<1>9. ASSUME NEW ds, Codes!DeleteAll(ds) PROVE Goal
  BY <1>6, <1>9, DeleteAllDrops DEF Codes!DeleteAll
<1>10. CASE Codes!Crash \/ Codes!Tick \/ UNCHANGED dgVars
  BY <1>10 DEF Codes!Crash, Codes!Tick, dgVars
<1> QED
  BY <1>1, <1>2, <1>3, <1>4, <1>5, <1>7, <1>8, <1>9, <1>10
  DEF Codes!Next, Codes!DeleteForUserClient, Codes!DeleteForClient

\* How far a code has come: undecided, decided once, exchanged once.
LEMMA StageNext ==
    DeviceInv /\ [Codes!Next]_dgVars => (UndecidedIsFresh /\ DecidedOnce /\ ExchangedOnce)'
<1> SUFFICES ASSUME DeviceInv, [Codes!Next]_dgVars
             PROVE  (UndecidedIsFresh /\ DecidedOnce /\ ExchangedOnce)'
  OBVIOUS
<1> DEFINE Goal == (UndecidedIsFresh /\ DecidedOnce /\ ExchangedOnce)'
<1> USE DeviceBounds
    DEF DeviceInv, Codes!TypeOK, UndecidedIsFresh, DecidedOnce, ExchangedOnce,
        Exchanging, PollsFor, DecidesOn, Codes!races
<1>1. ASSUME NEW d \in Device, NEW c \in Client, Codes!Issue(d, c) PROVE Goal
  BY <1>1 DEF Codes!Issue
<1>2. ASSUME NEW q \in Decider, NEW decision \in Codes!Decision, Codes!ReadForDecision(q, decision)
      PROVE  Goal
  BY <1>2 DEF Codes!ReadForDecision, Codes!Decidable, Codes!Stored, Codes!Decision
<1>3. ASSUME NEW q \in Decider, NEW d \in Device,
             Codes!Deny(q, d) \/ \E u \in User : Codes!Approve(q, d, u)
      PROVE  Goal
  BY <1>2, <1>3 DEF Codes!Deny, Codes!Approve, Codes!Decision
<1>4. ASSUME NEW q \in Decider, Codes!UpdateStatus(q) PROVE Goal
  <2> DEFINE d == decisions[q].device
  <2>0. d \in Device /\ decisions[q].status \in {"approved", "denied"} /\ DecidesOn(q, d)
    BY <1>4, DecidedRows DEF Codes!UpdateStatus, Codes!Decision
  <2>1. UNCHANGED <<polls, dgMinted, Codes!races>>
    BY <1>4 DEF Codes!UpdateStatus
  <2>2. \A o \in Decider : decisions'[o] = IF o = q THEN None ELSE decisions[o]
    BY <1>4 DEF Codes!UpdateStatus
  <2>3. /\ denials' \subseteq denials \cup {d}
        /\ d \in denials' \ denials => Codes!Stored(d) /\ decisions[q].status = "denied"
    BY <1>4 DEF Codes!UpdateStatus
  <2>4. UndecidedIsFresh'
    BY <2>0, <2>1, <2>2, <2>3, <1>4, DecidedRows DEF Codes!Stored
  <2>5. DecidedOnce'
    BY <2>0, <2>1, <2>2, <2>3, <1>4, DecidedRows DEF Codes!Stored
  <2>6. ExchangedOnce'
    <3>1. \A e \in Device : devices[e].status = "deleted" => devices'[e].status = "deleted"
      BY <1>4, <2>0, DecidedRows DEF Codes!Stored
    <3> HIDE DEF Codes!TypeOK, UndecidedIsFresh, DecidedOnce
    <3> QED
      BY <2>1, <3>1
  <2> QED
    BY <2>4, <2>5, <2>6
<1>5. ASSUME NEW p \in Poller, NEW d \in Device, NEW c \in Client, Codes!Poll(p, d, c) PROVE Goal
  BY <1>5 DEF Codes!Poll, Codes!PollOutcome, Codes!PollStoredBy, Codes!Redeemable, Codes!Stored
<1>7. ASSUME NEW p \in Poller, Codes!DeleteExpired(p) \/ Codes!DeleteBeforeMint(p) PROVE Goal
  <2>1. polls[p].device \in Device
    BY <1>7 DEF Codes!DeleteExpired, Codes!DeleteBeforeMint, Codes!Exchange
  <2>2. DropsRows /\ devices'[polls[p].device].status \in {"unissued", "deleted"}
    <3>1. devices' = Codes!DeleteRow(polls[p].device) /\ Codes!TypeOK
      BY <1>7 DEF Codes!DeleteExpired, Codes!DeleteBeforeMint
    <3> HIDE DEF DeviceInv, Codes!TypeOK
    <3>2. ASSUME NEW d \in Device, devices' = Codes!DeleteRow(d) 
          PROVE  DropsRows /\ devices'[d].status \in {"unissued", "deleted"}
      BY <3>1, <3>2, DeleteRowDrops DEF Codes!Stored
    <3> QED
      BY <2>1, <3>1, <3>2
  <2>3. /\ UNCHANGED <<decisions, denials, dgMinted, Codes!races>>
        /\ \/ polls'[p] = None
           \/ /\ polls[p].pc = "redeem" /\ polls'[p].pc = "mint"
              /\ polls'[p].device = polls[p].device
        /\ \A o \in Poller : o # p => polls'[o] = polls[o]
        /\ PollsFor(p, polls[p].device)
    BY <1>7 DEF Codes!DeleteExpired, Codes!DeleteBeforeMint, Codes!Exchange
  <2>4. \A o \in Poller, d \in Device :
           /\ PollsFor(o, d)' => PollsFor(o, d)
           /\ Exchanging(o, d)' => Exchanging(o, d)
    BY <2>3
  <2>5. \A d \in Device :
           \/ devices'[d].status = devices[d].status
           \/ Codes!Stored(d) /\ devices'[d].status = "deleted"
    BY <2>2 DEF DropsRows
  <2>6. UndecidedIsFresh'
    <3> HIDE DEF Codes!TypeOK, DecidedOnce, ExchangedOnce, PollsFor, Exchanging
    <3> QED
      BY <2>3, <2>4, <2>5 DEF Codes!Stored
  <2>7. DecidedOnce'
    <3> HIDE DEF Codes!TypeOK, UndecidedIsFresh, ExchangedOnce, PollsFor, Exchanging
    <3> QED
      BY <2>3, <2>4, <2>5 DEF Codes!Stored
  <2>8. ExchangedOnce'
    <3> SUFFICES ASSUME NEW d \in Device \ rushed
                 PROVE  /\ \A o, r \in Poller : PollsFor(o, d)' /\ PollsFor(r, d)' => o = r
                        /\ \A o \in Poller : PollsFor(o, d)' =>
                              dgMinted[d] = <<>> /\ (polls'[o].pc = "mint" => devices'[d].status = "deleted")
                        /\ dgMinted[d] # <<>> => devices'[d].status = "deleted"
      BY <2>3
    <3>1. devices[d].status = "deleted" => devices'[d].status = "deleted"
      BY <2>5
    <3>2. /\ \A o, r \in Poller : PollsFor(o, d) /\ PollsFor(r, d) => o = r
          /\ \A o \in Poller : PollsFor(o, d) =>
                dgMinted[d] = <<>> /\ (polls[o].pc = "mint" => devices[d].status = "deleted")
          /\ dgMinted[d] # <<>> => devices[d].status = "deleted"
      OBVIOUS
    <3>3. ASSUME NEW o \in Poller, PollsFor(o, d)', polls'[o].pc = "mint"
          PROVE  devices'[d].status = "deleted"
      <4>1. CASE o = p
        <5>1. d = polls[p].device /\ devices'[d].status \in {"unissued", "deleted"}
          BY <2>2, <2>3, <3>3, <4>1
        <5>2. devices[d].status # "unissued"
          BY <2>3, <5>1
        <5>3. devices'[d].status = devices[d].status \/ devices'[d].status = "deleted"
          BY <2>5
        <5> QED
          BY <5>1, <5>2, <5>3
      <4>2. CASE o # p
        BY <2>3, <3>1, <3>2, <3>3, <4>2
      <4> QED
        BY <4>1, <4>2
    <3> HIDE DEF DeviceInv, Codes!TypeOK, ExchangedOnce, PollsFor
    <3> QED
      BY <2>4, <3>1, <3>2, <3>3
  <2> QED
    BY <2>6, <2>7, <2>8
<1>8. ASSUME NEW p \in Poller, Codes!Mint(p) PROVE Goal
  BY <1>8 DEF Codes!Mint, Codes!Exchange
<1>9. ASSUME NEW ds, Codes!DeleteAll(ds) PROVE Goal
  BY <1>9, DeleteAllDrops DEF Codes!DeleteAll, DropsRows, Codes!Stored
<1>10. CASE Codes!Crash \/ Codes!Tick \/ UNCHANGED dgVars
  BY <1>10 DEF Codes!Crash, Codes!Tick, dgVars
<1> QED
  BY <1>1, <1>3, <1>4, <1>5, <1>7, <1>8, <1>9, <1>10
  DEF Codes!Next, Codes!DeleteForUserClient, Codes!DeleteForClient

\* Every step keeps the device invariant.
LEMMA DeviceNext == DeviceInv /\ [Codes!Next]_dgVars => DeviceInv'
<1> SUFFICES ASSUME DeviceInv, [Codes!Next]_dgVars PROVE DeviceInv'
  OBVIOUS
<1>1. /\ Codes!TypeOK' /\ ApprovalsAreKept' /\ DecisionsNameUsers' /\ Codes!MintsWhatWasApproved'
      /\ UndecidedIsFresh' /\ DecidedOnce' /\ ExchangedOnce'
  BY DeviceTypeNext, ApprovedNext, StageNext DEF DeviceInv
<1>2. Codes!DeniedNeverMints'
  BY <1>1 DEF Codes!DeniedNeverMints, DecidedOnce, Codes!TypeOK
<1>3. Codes!ReplaysAreRefused'
  <2>1. \A d \in Device :
           /\ dgMinted[d] \in Seq(Codes!TokenSet)
           /\ d \notin rushed' => d \notin rushed
    BY DEF DeviceInv, Codes!TypeOK, Codes!Next, Codes!Issue, Codes!Deny, Codes!Approve,
       Codes!ReadForDecision, Codes!UpdateStatus, Codes!Poll,
           Codes!DeleteExpired, Codes!DeleteBeforeMint, Codes!Mint, Codes!DeleteForUserClient, Codes!DeleteForClient,
           Codes!DeleteAll, Codes!Crash, Codes!Tick, Codes!races, dgVars
  <2>2. ASSUME NEW p \in Poller, Codes!Mint(p) PROVE Codes!ReplaysAreRefused'
    <3> DEFINE tokens == [client |-> polls[p].client, userSub |-> polls[p].userSub]
    <3>1. polls[p].device \in Device /\ PollsFor(p, polls[p].device)
      BY <2>2 DEF Codes!Mint, PollsFor, DeviceInv, Codes!TypeOK, Codes!Exchange
    <3>2. \A d \in Device : dgMinted'[d] = IF d = polls[p].device THEN Append(dgMinted[d], tokens)
                                                              ELSE dgMinted[d]
      BY <2>2, <3>1 DEF Codes!Mint, DeviceInv, Codes!TypeOK
    <3>3. ASSUME NEW d \in Device, d \notin rushed' PROVE Len(dgMinted'[d]) <= 1
      <4>1. d \notin rushed
        BY <2>1, <3>3
      <4>3. Len(dgMinted[d]) <= 1
        BY <4>1 DEF DeviceInv, Codes!ReplaysAreRefused
      <4>2. CASE d = polls[p].device
        <5>1. dgMinted[d] = <<>>
          BY <3>1, <4>1, <4>2 DEF DeviceInv, ExchangedOnce
        <5>2. dgMinted'[d] = Append(<<>>, tokens)
          BY <3>2, <4>2, <5>1
        <5>3. \A t : Len(Append(<<>>, t)) = 1
          OBVIOUS
        <5> HIDE DEF tokens
        <5> QED
          BY <5>2, <5>3
      <4> QED
        BY <3>2, <4>3, <4>2
    <3> QED
      BY <3>3 DEF Codes!ReplaysAreRefused
  <2>3. CASE UNCHANGED dgMinted
    BY <2>1, <2>3 DEF DeviceInv, Codes!ReplaysAreRefused
  <2> QED
    BY <2>2, <2>3
    DEF Codes!Next, Codes!Issue, Codes!Deny, Codes!Approve, Codes!ReadForDecision,
       Codes!UpdateStatus, Codes!Poll, Codes!DeleteExpired,
        Codes!DeleteBeforeMint, Codes!DeleteForUserClient, Codes!DeleteForClient, Codes!DeleteAll, Codes!Crash, Codes!Tick, dgVars
<1> QED
  BY <1>1, <1>2, <1>3 DEF DeviceInv

-------------------------------------------------------------------------------
(* BackchannelGrant.                                                          *)

LEMMA BackchannelInit == Backchannel!Init => BackchannelInv
<1> SUFFICES ASSUME Backchannel!Init PROVE BackchannelInv
  OBVIOUS
<1>1. Backchannel!TypeOK
  BY PolledBounds DEF Backchannel!Init, Backchannel!TypeOK, Backchannel!AuthRequest
<1>2. /\ \A a \in AuthReq :
            /\ bcRequests[a].status = "unissued" /\ bcRequests[a].lastPolledAt = None
            /\ bcMinted[a] = <<>> /\ honoured[a] = <<>>
      /\ \A p \in Poller : bcPolls[p] = None
  BY DEF Backchannel!Init
<1> QED
  BY <1>1, <1>2
  DEF BackchannelInv, RequestsNameUsers, UnissuedIsFresh, MintedOnce, LastPollIsKept, Asking,
      Backchannel!MintsForApprover, Backchannel!ReplaysAreRefused, Backchannel!PollRate

\* What the writes of the store leave of its rows.
BcKeepsRow(a) ==
    /\ bcRequests'[a].status = bcRequests[a].status
    /\ bcRequests'[a].userSub = bcRequests[a].userSub
    /\ bcRequests'[a].lastPolledAt = bcRequests[a].lastPolledAt

\* A row stays a row when its status and user change.
LEMMA RowStaysTyped ==
    ASSUME NEW row \in Backchannel!AuthRequest, NEW u \in User \cup {None},
           NEW status \in {"pending", "approved", "denied", "deleted"}
    PROVE  /\ [row EXCEPT !.status = status] \in Backchannel!AuthRequest
           /\ [row EXCEPT !.status = status, !.userSub = u] \in Backchannel!AuthRequest
<1>1. \A R \in Backchannel!AuthRequest :
         /\ [R EXCEPT !.status = status] \in Backchannel!AuthRequest
         /\ [R EXCEPT !.userSub = u] \in Backchannel!AuthRequest
  BY DEF Backchannel!AuthRequest
<1>2. [[row EXCEPT !.status = status] EXCEPT !.userSub = u] \in Backchannel!AuthRequest
  BY <1>1
<1>3. [row EXCEPT !.status = status, !.userSub = u]
          = [[row EXCEPT !.status = status] EXCEPT !.userSub = u]
  BY DEF Backchannel!AuthRequest
<1> QED
  BY <1>1, <1>2, <1>3

\* So does a row that is issued.
LEMMA IssuedIsTyped ==
    ASSUME NEW row \in Backchannel!AuthRequest, NEW u \in User, NEW c \in Client,
           NEW expiresAt \in 0 .. MaxPollTime + RequestTtl
    PROVE  [row EXCEPT !.status = "pending", !.client = c, !.userSub = u,
                       !.expiresAt = expiresAt] \in Backchannel!AuthRequest
<1>1. \A R \in Backchannel!AuthRequest :
         /\ [R EXCEPT !.status = "pending"] \in Backchannel!AuthRequest
         /\ [R EXCEPT !.client = c] \in Backchannel!AuthRequest
         /\ [R EXCEPT !.userSub = u] \in Backchannel!AuthRequest
         /\ [R EXCEPT !.expiresAt = expiresAt] \in Backchannel!AuthRequest
  BY DEF Backchannel!AuthRequest
<1> DEFINE R1 == [row EXCEPT !.status = "pending"]
<1> DEFINE R2 == [R1 EXCEPT !.client = c]
<1> DEFINE R3 == [R2 EXCEPT !.userSub = u]
<1> DEFINE R4 == [R3 EXCEPT !.expiresAt = expiresAt]
<1>2. R4 \in Backchannel!AuthRequest
  BY <1>1
<1>3. [row EXCEPT !.status = "pending", !.client = c, !.userSub = u,
                  !.expiresAt = expiresAt] = R4
  BY DEF Backchannel!AuthRequest
<1> QED
  BY <1>2, <1>3

LEMMA UpdateStatusRows ==
    ASSUME Backchannel!TypeOK, NEW q \in Decider, Backchannel!UpdateStatus(q)
    PROVE  /\ bcDecisions[q] \in Backchannel!Decision
           /\ bcRequests' \in [AuthReq -> Backchannel!AuthRequest]
           /\ \A a \in AuthReq :
                 IF a = bcDecisions[q].request /\ Backchannel!Stored(a)
                 THEN /\ bcRequests'[a].status = bcDecisions[q].status
                      /\ bcRequests'[a].userSub = bcDecisions[q].userSub
                      /\ bcRequests'[a].lastPolledAt = bcRequests[a].lastPolledAt
                 ELSE BcKeepsRow(a)
<1> DEFINE r == bcDecisions[q].request
<1> DEFINE row == [bcRequests[r] EXCEPT !.status = bcDecisions[q].status,
                                      !.userSub = bcDecisions[q].userSub]
<1>1. bcDecisions[q] \in Backchannel!Decision /\ r \in AuthReq
  BY DEF Backchannel!TypeOK, Backchannel!UpdateStatus, Backchannel!Decision
<1>2. row \in Backchannel!AuthRequest
  BY <1>1, RowStaysTyped DEF Backchannel!TypeOK, Backchannel!Decision
<1>3. CASE Backchannel!Stored(r)
  <2>1. bcRequests' = [bcRequests EXCEPT ![r] = row]
    BY <1>1, <1>3 DEF Backchannel!TypeOK, Backchannel!UpdateStatus
  <2>2. /\ row.status = bcDecisions[q].status
        /\ row.userSub = bcDecisions[q].userSub
        /\ row.lastPolledAt = bcRequests[r].lastPolledAt
    BY <1>1 DEF Backchannel!TypeOK, Backchannel!AuthRequest
  <2> HIDE DEF row
  <2> QED
    BY <1>1, <1>2, <1>3, <2>1, <2>2 DEF Backchannel!TypeOK, BcKeepsRow
<1>4. CASE ~Backchannel!Stored(r)
  BY <1>1, <1>4 DEF Backchannel!TypeOK, Backchannel!UpdateStatus, BcKeepsRow
<1> QED
  BY <1>3, <1>4

LEMMA RecordPollRows ==
    ASSUME Backchannel!TypeOK, NEW p \in Poller, Backchannel!RecordPoll(p)
    PROVE  /\ bcPolls[p] \in Backchannel!ReadPoll
           /\ bcRequests' \in [AuthReq -> Backchannel!AuthRequest]
           /\ \A a \in AuthReq :
                 IF a = bcPolls[p].request /\ Backchannel!Stored(a)
                 THEN /\ bcRequests'[a].status = bcRequests[a].status
                      /\ bcRequests'[a].userSub = bcRequests[a].userSub
                      /\ bcRequests'[a].lastPolledAt = bcPolls[p].at
                 ELSE BcKeepsRow(a)
<1> DEFINE r == bcPolls[p].request
<1> DEFINE row == [bcRequests[r] EXCEPT !.lastPolledAt = bcPolls[p].at]
<1>1. bcPolls[p] \in Backchannel!ReadPoll /\ r \in AuthReq
  BY DEF Backchannel!TypeOK, Backchannel!RecordPoll, Backchannel!ReadPoll
<1>2. row \in Backchannel!AuthRequest
  BY <1>1 DEF Backchannel!TypeOK, Backchannel!AuthRequest, Backchannel!ReadPoll
<1>3. CASE Backchannel!Stored(r)
  <2>1. bcRequests' = [bcRequests EXCEPT ![r] = row]
    BY <1>1, <1>3 DEF Backchannel!TypeOK, Backchannel!RecordPoll, Backchannel!Recorded
  <2>2. /\ row.status = bcRequests[r].status
        /\ row.userSub = bcRequests[r].userSub
        /\ row.lastPolledAt = bcPolls[p].at
    BY <1>1 DEF Backchannel!TypeOK, Backchannel!AuthRequest
  <2> HIDE DEF row
  <2> QED
    BY <1>1, <1>2, <1>3, <2>1, <2>2 DEF Backchannel!TypeOK, BcKeepsRow
<1>4. CASE ~Backchannel!Stored(r)
  BY <1>1, <1>4
  DEF Backchannel!TypeOK, Backchannel!RecordPoll, Backchannel!Recorded, BcKeepsRow
<1> QED
  BY <1>3, <1>4

LEMMA DeleteRowRows ==
    ASSUME Backchannel!TypeOK, NEW p \in Poller, Backchannel!DeleteRow(p)
    PROVE  /\ bcPolls[p] \in Backchannel!ReadPoll
           /\ bcRequests' \in [AuthReq -> Backchannel!AuthRequest]
           /\ \A a \in AuthReq :
                 IF a = bcPolls[p].request /\ Backchannel!Stored(a)
                 THEN /\ bcRequests'[a].status = "deleted"
                      /\ bcRequests'[a].userSub = bcRequests[a].userSub
                      /\ bcRequests'[a].lastPolledAt = bcRequests[a].lastPolledAt
                 ELSE BcKeepsRow(a)
<1> DEFINE r == bcPolls[p].request
<1> DEFINE row == [bcRequests[r] EXCEPT !.status = "deleted"]
<1>1. bcPolls[p] \in Backchannel!ReadPoll /\ r \in AuthReq
  BY DEF Backchannel!TypeOK, Backchannel!DeleteRow, Backchannel!ReadPoll
<1>2. row \in Backchannel!AuthRequest
  BY <1>1, RowStaysTyped DEF Backchannel!TypeOK
<1>3. CASE Backchannel!Stored(r)
  <2>1. bcRequests' = [bcRequests EXCEPT ![r] = row]
    BY <1>1, <1>3 DEF Backchannel!TypeOK, Backchannel!DeleteRow, Backchannel!DeletedRow
  <2>2. /\ row.status = "deleted"
        /\ row.userSub = bcRequests[r].userSub
        /\ row.lastPolledAt = bcRequests[r].lastPolledAt
    BY <1>1 DEF Backchannel!TypeOK, Backchannel!AuthRequest
  <2> HIDE DEF row
  <2> QED
    BY <1>1, <1>2, <1>3, <2>1, <2>2 DEF Backchannel!TypeOK, BcKeepsRow
<1>4. CASE ~Backchannel!Stored(r)
  BY <1>1, <1>4
  DEF Backchannel!TypeOK, Backchannel!DeleteRow, Backchannel!DeletedRow, BcKeepsRow
<1> QED
  BY <1>3, <1>4

LEMMA BackchannelTypeNext ==
    BackchannelInv /\ [Backchannel!Next]_bcVars => Backchannel!TypeOK'
<1> SUFFICES ASSUME Backchannel!TypeOK, RequestsNameUsers, [Backchannel!Next]_bcVars
             PROVE  Backchannel!TypeOK'
  BY DEF BackchannelInv
<1> USE PolledBounds DEF Backchannel!TypeOK, Backchannel!histories
<1>1. ASSUME NEW a \in AuthReq, NEW c \in Client, NEW u \in User, Backchannel!Issue(a, c, u)
      PROVE  Backchannel!TypeOK'
  <2>1. [bcRequests[a] EXCEPT !.status = "pending", !.client = c, !.userSub = u,
                            !.expiresAt = bcNow + RequestTtl] \in Backchannel!AuthRequest
    <3>1. bcRequests[a] \in Backchannel!AuthRequest /\ bcNow \in 0 .. MaxPollTime
      OBVIOUS
    <3> HIDE DEF Backchannel!TypeOK
    <3>2. bcNow + RequestTtl \in 0 .. MaxPollTime + RequestTtl
      BY <3>1
    <3> QED
      BY <3>1, <3>2, IssuedIsTyped
  <2> QED
    BY <1>1, <2>1 DEF Backchannel!Issue, Backchannel!ExpiresAt
<1>2. ASSUME NEW q \in Decider, NEW a \in AuthReq, NEW u,
             NEW status \in {"approved", "denied"},
             Backchannel!ReadForDecision(q, a, status, u),
             u \in User
      PROVE  Backchannel!TypeOK'
  BY <1>2 DEF Backchannel!ReadForDecision, Backchannel!Decision
<1>3. ASSUME NEW q \in Decider, NEW a \in AuthReq, Backchannel!Deny(q, a)
      PROVE  Backchannel!TypeOK'
  <2>1. bcRequests[a].userSub \in User
    BY <1>3 DEF Backchannel!Deny, Backchannel!ReadForDecision, RequestsNameUsers
  <2> QED
    BY <1>2, <1>3, <2>1 DEF Backchannel!Deny
<1>4. ASSUME NEW q \in Decider, NEW a \in AuthReq, NEW u \in User, Backchannel!Approve(q, a, u)
      PROVE  Backchannel!TypeOK'
  BY <1>2, <1>4 DEF Backchannel!Approve
<1>5. ASSUME NEW q \in Decider, Backchannel!UpdateStatus(q) PROVE Backchannel!TypeOK'
  <2>1. bcApprovals' \subseteq AuthReq \X User
    BY <1>5, UpdateStatusRows DEF Backchannel!UpdateStatus, Backchannel!Decision
  <2> QED
    BY <1>5, <2>1, UpdateStatusRows DEF Backchannel!UpdateStatus
<1>6. ASSUME NEW p \in Poller, NEW a \in AuthReq, NEW c \in Client, Backchannel!Poll(p, a, c)
      PROVE  Backchannel!TypeOK'
  <2>1. \A pc \in {"expire", "record"} :
           [pc |-> pc, request |-> a, read |-> bcRequests[a], at |-> bcNow] \in Backchannel!ReadPoll
    BY DEF Backchannel!ReadPoll
  <2> QED
    BY <1>6, <2>1 DEF Backchannel!Poll
<1>7. ASSUME NEW p \in Poller, Backchannel!RecordPoll(p) PROVE Backchannel!TypeOK'
  <2>1. bcPolls[p] \in Backchannel!ReadPoll
    BY <1>7, RecordPollRows
  <2>2. bcPolls[p].request \in AuthReq /\ bcPolls[p].at \in 0 .. MaxPollTime
        /\ [bcPolls[p] EXCEPT !.pc = "delete"] \in Backchannel!ReadPoll
    BY <2>1 DEF Backchannel!ReadPoll
  <2>3. honoured' \in [AuthReq -> Seq(0 .. MaxPollTime)]
    <3> DEFINE h == honoured[bcPolls[p].request]
    <3>1. h \in Seq(0 .. MaxPollTime)
      BY <2>2
    <3>2. (IF h = <<>> THEN <<bcPolls[p].at>> ELSE <<h[Len(h)], bcPolls[p].at>>)
             \in Seq(0 .. MaxPollTime)
      <4> HIDE DEF h
      <4>1. h # <<>> => h[Len(h)] \in 0 .. MaxPollTime
        BY <3>1
      <4>2. \A x, y \in 0 .. MaxPollTime :
               <<x>> \in Seq(0 .. MaxPollTime) /\ <<x, y>> \in Seq(0 .. MaxPollTime)
        OBVIOUS
      <4>3. CASE h = <<>>
        BY <2>2, <4>2, <4>3
      <4>4. CASE h # <<>>
        BY <2>2, <4>1, <4>2, <4>4
      <4> QED
        BY <4>3, <4>4
    <3> QED
      BY <1>7, <2>2, <3>2 DEF Backchannel!RecordPoll
  <2>4. bcPolls' \in [Poller -> Backchannel!ReadPoll \cup {None}]
    BY <1>7, <2>2 DEF Backchannel!RecordPoll, Backchannel!Answered
  <2> QED
    BY <1>7, <2>3, <2>4, RecordPollRows DEF Backchannel!RecordPoll
<1>8. ASSUME NEW p \in Poller, Backchannel!DeleteRow(p) PROVE Backchannel!TypeOK'
  <2>1. [bcPolls[p] EXCEPT !.pc = "mint"] \in Backchannel!ReadPoll
    BY <1>8, DeleteRowRows DEF Backchannel!ReadPoll
  <2>2. bcPolls' \in [Poller -> Backchannel!ReadPoll \cup {None}]
    BY <1>8, <2>1 DEF Backchannel!DeleteRow, Backchannel!Answered
  <2> QED
    BY <1>8, <2>2, DeleteRowRows DEF Backchannel!DeleteRow
<1>9. ASSUME NEW p \in Poller, Backchannel!Mint(p) PROVE Backchannel!TypeOK'
  <2>1. bcPolls[p] \in Backchannel!ReadPoll /\ bcPolls[p].request \in AuthReq
    BY <1>9 DEF Backchannel!Mint, Backchannel!ReadPoll
  <2>2. <<bcPolls[p].request, bcPolls[p].read.userSub>> \in bcApprovals
    BY <1>9 DEF Backchannel!Mint, RequestsNameUsers
  <2>3. Append(bcMinted[bcPolls[p].request], bcPolls[p].read.userSub) \in Seq(User)
    BY <2>1, <2>2
  <2> QED
    BY <1>9, <2>1, <2>3 DEF Backchannel!Mint, Backchannel!Answered
<1>10. CASE Backchannel!Crash \/ Backchannel!Tick \/ UNCHANGED bcVars
  BY <1>10 DEF Backchannel!Crash, Backchannel!Tick, bcVars
<1> QED
  BY <1>1, <1>3, <1>4, <1>5, <1>6, <1>7, <1>8, <1>9, <1>10
  DEF Backchannel!Next, Backchannel!Decide, Backchannel!Serve

\* What a poll in flight becomes: nothing, or the same poll a stage further.
BcPollAdvances(p) ==
    \/ bcPolls'[p] = None
    \/ /\ bcPolls[p] # None /\ bcPolls[p].pc # "expire"
       /\ bcPolls'[p].request = bcPolls[p].request
       /\ bcPolls'[p].read = bcPolls[p].read
       /\ bcPolls'[p].at = bcPolls[p].at
       /\ \/ bcPolls[p].pc = "record" /\ bcPolls'[p].pc = "delete"
             /\ bcPolls[p].read.status = "approved"
          \/ bcPolls[p].pc = "delete" /\ bcPolls'[p].pc = "mint"

LEMMA PollsAdvance ==
    ASSUME Backchannel!TypeOK, NEW p \in Poller,
           \/ Backchannel!RecordPoll(p) \/ Backchannel!DeleteRow(p) \/ Backchannel!Mint(p)
    PROVE  /\ bcPolls[p] \in Backchannel!ReadPoll /\ bcPolls[p] # None
           /\ bcPolls[p].request \in AuthReq
           /\ BcPollAdvances(p)
           /\ \A o \in Poller : o # p => bcPolls'[o] = bcPolls[o]
<1>1. /\ bcPolls[p] \in Backchannel!ReadPoll /\ bcPolls[p] # None
      /\ bcPolls \in [Poller -> Backchannel!ReadPoll \cup {None}]
  BY DEF Backchannel!RecordPoll, Backchannel!DeleteRow, Backchannel!Mint, Backchannel!TypeOK
<1>2. /\ bcPolls[p].request \in AuthReq
      /\ \A stage \in {"delete", "mint"} :
            LET next == [bcPolls[p] EXCEPT !.pc = stage] IN
            /\ next.pc = stage /\ next.request = bcPolls[p].request
            /\ next.read = bcPolls[p].read /\ next.at = bcPolls[p].at
  BY <1>1 DEF Backchannel!ReadPoll
<1>3. \/ bcPolls' = [bcPolls EXCEPT ![p] = None]
      \/ /\ bcPolls[p].pc = "record" /\ bcPolls[p].read.status = "approved"
         /\ bcPolls' = [bcPolls EXCEPT ![p] = [bcPolls[p] EXCEPT !.pc = "delete"]]
      \/ /\ bcPolls[p].pc = "delete"
         /\ bcPolls' = [bcPolls EXCEPT ![p] = [bcPolls[p] EXCEPT !.pc = "mint"]]
  BY <1>1
  DEF Backchannel!RecordPoll, Backchannel!DeleteRow, Backchannel!Mint, Backchannel!Answered,
      Backchannel!Approved
<1> QED
  BY <1>1, <1>2, <1>3 DEF BcPollAdvances

\* Who approved what, and what is minted from it.
LEMMA BcApprovedNext ==
    BackchannelInv /\ [Backchannel!Next]_bcVars =>
        RequestsNameUsers' /\ Backchannel!MintsForApprover'
<1> SUFFICES ASSUME Backchannel!TypeOK, RequestsNameUsers, UnissuedIsFresh,
                    Backchannel!MintsForApprover, [Backchannel!Next]_bcVars
             PROVE  RequestsNameUsers' /\ Backchannel!MintsForApprover'
  BY DEF BackchannelInv
<1> DEFINE Rows == \A a \in AuthReq :
        /\ bcRequests[a].status # "unissued" => bcRequests[a].userSub \in User
        /\ bcRequests[a].status = "approved" => <<a, bcRequests[a].userSub>> \in bcApprovals
<1> DEFINE Polls == \A p \in Poller : bcPolls[p] # None /\ bcPolls[p].pc # "expire" =>
        /\ bcPolls[p].read.status = "approved" =>
              <<bcPolls[p].request, bcPolls[p].read.userSub>> \in bcApprovals
        /\ bcPolls[p].pc # "record" => bcPolls[p].read.status = "approved"
<1>0. Rows /\ Polls /\ (Rows' /\ Polls' => RequestsNameUsers')
  BY DEF RequestsNameUsers
<1>1. ASSUME NEW a \in AuthReq, NEW c \in Client, NEW u \in User, Backchannel!Issue(a, c, u)
      PROVE  Rows' /\ Polls' /\ Backchannel!MintsForApprover'
  <2>1. \A b \in AuthReq :
           IF b = a THEN bcRequests'[b].status = "pending" /\ bcRequests'[b].userSub = u
                    ELSE bcRequests'[b] = bcRequests[b]
    BY <1>1 DEF Backchannel!Issue, Backchannel!TypeOK, Backchannel!AuthRequest
  <2>2. UNCHANGED <<bcPolls, bcApprovals, bcMinted>>
    BY <1>1 DEF Backchannel!Issue, Backchannel!histories
  <2> QED
    BY <1>0, <2>1, <2>2 DEF Backchannel!MintsForApprover
<1>2. ASSUME UNCHANGED <<bcRequests, bcPolls, bcApprovals, bcMinted>>
      PROVE  Rows' /\ Polls' /\ Backchannel!MintsForApprover'
  BY <1>0, <1>2 DEF Backchannel!MintsForApprover
<1>3. ASSUME NEW q \in Decider, Backchannel!UpdateStatus(q)
      PROVE  Rows' /\ Polls' /\ Backchannel!MintsForApprover'
  <2>1. /\ UNCHANGED <<bcPolls, bcMinted>> /\ bcApprovals \subseteq bcApprovals'
        /\ Backchannel!Stored(bcDecisions[q].request) /\ bcDecisions[q].status = "approved" =>
              <<bcDecisions[q].request, bcDecisions[q].userSub>> \in bcApprovals'
    BY <1>3 DEF Backchannel!UpdateStatus
  <2>2. bcDecisions[q].status \in {"approved", "denied"} /\ bcDecisions[q].userSub \in User
    BY <1>3, UpdateStatusRows DEF Backchannel!Decision
  <2>3. Rows'
    BY <1>0, <1>3, <2>1, <2>2, UpdateStatusRows DEF BcKeepsRow
  <2>4. Polls'
    BY <1>0, <2>1
  <2>5. Backchannel!MintsForApprover'
    BY <2>1 DEF Backchannel!MintsForApprover
  <2> QED
    BY <2>3, <2>4, <2>5
<1>4. ASSUME NEW p \in Poller, NEW a \in AuthReq, NEW c \in Client, Backchannel!Poll(p, a, c)
      PROVE  Rows' /\ Polls' /\ Backchannel!MintsForApprover'
  <2>1. UNCHANGED <<bcRequests, bcApprovals, bcMinted>>
    BY <1>4 DEF Backchannel!Poll
  <2>2. /\ bcPolls'[p].request = a /\ bcPolls'[p].read = bcRequests[a]
        /\ bcPolls'[p].pc \in {"expire", "record"}
        /\ \A o \in Poller : o # p => bcPolls'[o] = bcPolls[o]
    BY <1>4 DEF Backchannel!Poll, Backchannel!TypeOK
  <2>3. Polls'
    BY <1>0, <2>1, <2>2
  <2> QED
    BY <1>0, <2>1, <2>3 DEF Backchannel!MintsForApprover
<1>5. ASSUME NEW p \in Poller,
             \/ Backchannel!RecordPoll(p) \/ Backchannel!DeleteRow(p) \/ Backchannel!Mint(p)
      PROVE  Rows' /\ Polls' /\ Backchannel!MintsForApprover'
  <2>1. UNCHANGED bcApprovals
    BY <1>5
    DEF Backchannel!RecordPoll, Backchannel!DeleteRow, Backchannel!Mint, Backchannel!histories
  <2>2. \A a \in AuthReq :
           /\ bcRequests'[a].userSub = bcRequests[a].userSub
           /\ bcRequests'[a].status \in {bcRequests[a].status, "deleted"}
           /\ bcRequests'[a].status = "deleted" => bcRequests[a].status # "unissued"
    BY <1>5, RecordPollRows, DeleteRowRows DEF BcKeepsRow, Backchannel!Mint, Backchannel!Stored
  <2>3. Rows'
    BY <1>0, <2>1, <2>2
  <2>4. Polls'
    BY <1>0, <1>5, <2>1, PollsAdvance DEF BcPollAdvances
  <2>5. Backchannel!MintsForApprover'
    <3>1. CASE UNCHANGED bcMinted
      BY <2>1, <3>1 DEF Backchannel!MintsForApprover
    <3>2. CASE Backchannel!Mint(p)
      <4> DEFINE r == bcPolls[p].request
      <4> DEFINE u == bcPolls[p].read.userSub
      <4>1. /\ <<r, u>> \in bcApprovals /\ r \in AuthReq
            /\ bcMinted' = [bcMinted EXCEPT ![r] = Append(bcMinted[r], u)]
        BY <1>0, <3>2, <1>5, PollsAdvance DEF Backchannel!Mint
      <4>2. r \in AuthReq /\ u \in User
        BY <4>1 DEF Backchannel!TypeOK
      <4> HIDE DEF r, u
      <4>3. \A a \in AuthReq : bcMinted[a] \in Seq(User)
        BY DEF Backchannel!TypeOK
      <4>4. \A a \in AuthReq :
               bcMinted'[a] = IF a = r THEN Append(bcMinted[a], u) ELSE bcMinted[a]
        BY <4>1, <4>2 DEF Backchannel!TypeOK
      <4>5. ASSUME NEW a \in AuthReq, NEW i \in DOMAIN bcMinted'[a]
            PROVE  <<a, bcMinted'[a][i]>> \in bcApprovals
        <5>1. CASE a = r
          <6>1. \/ i \in DOMAIN bcMinted[a] /\ bcMinted'[a][i] = bcMinted[a][i]
                \/ bcMinted'[a][i] = u
            <7> DEFINE s == bcMinted[a]
            <7>1. s \in Seq(User) /\ bcMinted'[a] = Append(s, u)
              BY <4>3, <4>4, <5>1
            <7> HIDE DEF s
            <7>2. \A j \in DOMAIN Append(s, u) :
                     (j \in DOMAIN s /\ Append(s, u)[j] = s[j]) \/ Append(s, u)[j] = u
              BY <4>2, <7>1
            <7> QED
              BY <7>1, <7>2 DEF s
          <6> QED
            BY <4>1, <5>1, <6>1 DEF Backchannel!MintsForApprover
        <5>2. CASE a # r
          BY <4>4, <5>2 DEF Backchannel!MintsForApprover
        <5> QED
          BY <5>1, <5>2
      <4> QED
        BY <2>1, <4>5 DEF Backchannel!MintsForApprover
    <3> QED
      BY <1>5, <3>1, <3>2 DEF Backchannel!RecordPoll, Backchannel!DeleteRow, Backchannel!histories
  <2> QED
    BY <2>3, <2>4, <2>5
<1>6. CASE Backchannel!Crash
  BY <1>0, <1>6 DEF Backchannel!Crash, Backchannel!histories, Backchannel!MintsForApprover
<1> QED
  BY <1>0, <1>1, <1>2, <1>3, <1>4, <1>5, <1>6
  DEF Backchannel!Next, Backchannel!Decide, Backchannel!Serve, Backchannel!Approve,
      Backchannel!Deny, Backchannel!ReadForDecision, Backchannel!Tick, Backchannel!histories,
      bcVars

\* What a poll that begins adds, and when it makes its request rushed.
LEMMA PollBegins ==
    ASSUME Backchannel!TypeOK, NEW p \in Poller, NEW a \in AuthReq, NEW c \in Client,
           Backchannel!Poll(p, a, c)
    PROVE  /\ Backchannel!Stored(a) /\ bcPolls[p] = None
           /\ bcPolls'[p].request = a /\ bcPolls'[p].at = bcNow
           /\ \/ bcPolls'[p].pc = "expire"
              \/ /\ bcPolls'[p].pc = "record"
                 /\ bcRequests[a].lastPolledAt # None =>
                       bcNow - bcRequests[a].lastPolledAt >= Interval
           /\ \A o \in Poller : o # p => bcPolls'[o] = bcPolls[o]
           /\ \A b \in AuthReq \ bcRushed' :
                 b \notin bcRushed /\ (b = a => \A o \in Poller : ~Asking(o, b))
<1>1. bcRequests[a] \in Backchannel!AuthRequest /\ bcNow \in 0 .. MaxPollTime
  BY DEF Backchannel!TypeOK
<1>2. /\ bcRequests[a].interval = Interval
      /\ bcRequests[a].lastPolledAt # None => bcRequests[a].lastPolledAt \in 0 .. MaxPollTime
  BY <1>1 DEF Backchannel!AuthRequest
<1>3. ~Backchannel!TooFast(bcRequests[a]) /\ bcRequests[a].lastPolledAt # None =>
          bcNow - bcRequests[a].lastPolledAt >= Interval
  BY <1>1, <1>2, PolledBounds DEF Backchannel!TooFast
<1>4. \A b \in AuthReq \ bcRushed' :
          b \notin bcRushed /\ (b = a => \A o \in Poller : ~Asking(o, b))
  BY DEF Backchannel!Poll, Asking
<1>5. /\ bcPolls'[p].request = a /\ bcPolls'[p].at = bcNow
      /\ \/ bcPolls'[p].pc = "expire"
         \/ bcPolls'[p].pc = "record" /\ ~Backchannel!TooFast(bcRequests[a])
      /\ \A o \in Poller : o # p => bcPolls'[o] = bcPolls[o]
  BY DEF Backchannel!Poll, Backchannel!TypeOK
<1> QED
  BY <1>3, <1>4, <1>5 DEF Backchannel!Poll

\* How far a request has come: unissued, stored, exchanged once.
LEMMA BcStageNext ==
    BackchannelInv /\ [Backchannel!Next]_bcVars => UnissuedIsFresh' /\ MintedOnce'
<1> SUFFICES ASSUME Backchannel!TypeOK, UnissuedIsFresh, MintedOnce, [Backchannel!Next]_bcVars
             PROVE  UnissuedIsFresh' /\ MintedOnce'
  BY DEF BackchannelInv
<1> DEFINE Goal == UnissuedIsFresh' /\ MintedOnce'
<1>1. ASSUME NEW a \in AuthReq, NEW c \in Client, NEW u \in User, Backchannel!Issue(a, c, u)
      PROVE  Goal
  <2>1. /\ bcRequests[a].status = "unissued"
        /\ \A b \in AuthReq : bcRequests'[b].status =
                                  IF b = a THEN "pending" ELSE bcRequests[b].status
    BY <1>1 DEF Backchannel!Issue, Backchannel!TypeOK, Backchannel!AuthRequest
  <2>2. UNCHANGED <<bcPolls, bcMinted, honoured, bcRushed>>
    BY <1>1 DEF Backchannel!Issue, Backchannel!histories
  <2> QED
    BY <2>1, <2>2 DEF UnissuedIsFresh, MintedOnce, Asking
<1>2. ASSUME UNCHANGED <<bcRequests, bcPolls, bcMinted, honoured, bcRushed>> PROVE Goal
  BY <1>2 DEF UnissuedIsFresh, MintedOnce, Asking
<1>3. ASSUME NEW q \in Decider, Backchannel!UpdateStatus(q) PROVE Goal
  <2>1. UNCHANGED <<bcPolls, bcMinted, honoured, bcRushed>>
    BY <1>3 DEF Backchannel!UpdateStatus
  <2>2. \A a \in AuthReq :
           \/ bcRequests'[a].status = bcRequests[a].status
           \/ Backchannel!Stored(a) /\ bcRequests'[a].status \in {"approved", "denied"}
    BY <1>3, UpdateStatusRows DEF BcKeepsRow, Backchannel!Decision
  <2> QED
    BY <2>1, <2>2 DEF UnissuedIsFresh, MintedOnce, Asking, Backchannel!Stored
<1>4. ASSUME NEW p \in Poller, NEW a \in AuthReq, NEW c \in Client, Backchannel!Poll(p, a, c)
      PROVE  Goal
  <2>1. UNCHANGED <<bcRequests, bcMinted, honoured>>
    BY <1>4 DEF Backchannel!Poll
  <2>2. UnissuedIsFresh'
    BY <1>4, <2>1, PollBegins DEF UnissuedIsFresh, Asking, Backchannel!Stored
  <2>3. MintedOnce'
    <3> SUFFICES ASSUME NEW b \in AuthReq, b \notin bcRushed'
                 PROVE  /\ \A r, o \in Poller : Asking(r, b)' /\ Asking(o, b)' => r = o
                        /\ \A r \in Poller : Asking(r, b)' =>
                              /\ bcMinted[b] = <<>>
                              /\ bcPolls'[r].pc = "mint" <=> bcRequests[b].status = "deleted"
                        /\ bcMinted[b] # <<>> => bcRequests[b].status = "deleted"
      BY <2>1 DEF MintedOnce
    <3>1. b \notin bcRushed
      BY <1>4, PollBegins
    <3>2. CASE b = a
      <4>1. \A o \in Poller : ~Asking(o, b) /\ (Asking(o, b)' => o = p)
        BY <1>4, <3>2, PollBegins DEF Asking
      <4>2. bcRequests[b].status # "deleted" /\ bcPolls'[p].pc # "mint"
        BY <1>4, <3>2, PollBegins DEF Backchannel!Stored
      <4>3. bcMinted[b] = <<>>
        BY <3>1, <4>2 DEF MintedOnce
      <4> QED
        BY <4>1, <4>2, <4>3
    <3>3. CASE b # a
      <4>1. \A o \in Poller : Asking(o, b)' => Asking(o, b) /\ bcPolls'[o] = bcPolls[o]
        BY <1>4, <3>3, PollBegins DEF Asking
      <4> QED
        BY <3>1, <4>1 DEF MintedOnce
    <3> QED
      BY <3>2, <3>3
  <2> QED
    BY <2>2, <2>3
<1>5. ASSUME NEW p \in Poller,
             \/ Backchannel!RecordPoll(p) \/ Backchannel!DeleteRow(p) \/ Backchannel!Mint(p)
      PROVE  Goal
  <2> DEFINE r == bcPolls[p].request
  <2>1. r \in AuthReq /\ Asking(p, r) /\ UNCHANGED bcRushed
    BY <1>5, PollsAdvance
    DEF Asking, Backchannel!RecordPoll, Backchannel!DeleteRow, Backchannel!Mint,
        Backchannel!histories
  <2>2. \A a \in AuthReq :
           IF a = r /\ Backchannel!DeleteRow(p)
           THEN bcRequests'[a].status \in {"unissued", "deleted"}
                /\ (bcRequests'[a].status = "unissued" => bcRequests[a].status = "unissued")
           ELSE bcRequests'[a].status = bcRequests[a].status
    <3>1. CASE Backchannel!RecordPoll(p) /\ ~Backchannel!DeleteRow(p)
      BY <3>1, RecordPollRows DEF BcKeepsRow
    <3>2. CASE Backchannel!DeleteRow(p)
      BY <3>2, DeleteRowRows DEF BcKeepsRow, Backchannel!Stored
    <3>3. CASE Backchannel!Mint(p) /\ ~Backchannel!DeleteRow(p)
      BY <3>3 DEF Backchannel!Mint
    <3> QED
      BY <1>5, <3>1, <3>2, <3>3
  <2>3. \A a \in AuthReq :
           /\ honoured'[a] # honoured[a] => a = r
           /\ bcMinted'[a] # bcMinted[a] => a = r /\ Backchannel!Mint(p)
    BY <1>5, <2>1
    DEF Backchannel!RecordPoll, Backchannel!DeleteRow, Backchannel!Mint,
        Backchannel!histories, Backchannel!TypeOK
  <2>4. /\ \A o \in Poller : o # p => bcPolls'[o] = bcPolls[o]
        /\ \A o \in Poller, a \in AuthReq : Asking(o, a)' => Asking(o, a)
    BY <1>5, PollsAdvance DEF BcPollAdvances, Asking
  <2>5. bcRequests[r].status # "unissued"
    BY <2>1 DEF UnissuedIsFresh
  <2>6. UnissuedIsFresh'
    <3> SUFFICES ASSUME NEW a \in AuthReq, bcRequests'[a].status = "unissued"
                 PROVE  /\ bcMinted'[a] = <<>> /\ honoured'[a] = <<>>
                        /\ \A o \in Poller : ~Asking(o, a)'
      BY DEF UnissuedIsFresh
    <3>1. bcRequests[a].status = "unissued" /\ a # r
      BY <2>1, <2>2, <2>5
    <3> QED
      BY <2>3, <2>4, <3>1 DEF UnissuedIsFresh
  <2>7. MintedOnce'
    <3> SUFFICES ASSUME NEW a \in AuthReq, a \notin bcRushed
                 PROVE  /\ \A s, o \in Poller : Asking(s, a)' /\ Asking(o, a)' => s = o
                        /\ \A o \in Poller : Asking(o, a)' =>
                              /\ bcMinted'[a] = <<>>
                              /\ bcPolls'[o].pc = "mint" <=> bcRequests'[a].status = "deleted"
                        /\ bcMinted'[a] # <<>> => bcRequests'[a].status = "deleted"
      BY <2>1 DEF MintedOnce
    <3>1. /\ \A s, o \in Poller : Asking(s, a) /\ Asking(o, a) => s = o
          /\ \A o \in Poller : Asking(o, a) =>
                /\ bcMinted[a] = <<>>
                /\ bcPolls[o].pc = "mint" <=> bcRequests[a].status = "deleted"
          /\ bcMinted[a] # <<>> => bcRequests[a].status = "deleted"
      BY DEF MintedOnce
    <3>2. CASE a # r
      <4>1. \A o \in Poller : Asking(o, a)' => o # p
        BY <2>1, <2>4, <3>2 DEF Asking
      <4> QED
        BY <2>2, <2>3, <2>4, <3>1, <3>2, <4>1
    <3>3. CASE a = r
      <4>1. \A o \in Poller : Asking(o, a)' => o = p
        BY <2>1, <2>4, <3>1, <3>3
      <4>2. CASE Backchannel!RecordPoll(p)
        <5>1. bcPolls[p].pc = "record" /\ UNCHANGED bcMinted
          BY <4>2 DEF Backchannel!RecordPoll
        <5>2. bcRequests'[a].status = bcRequests[a].status
          BY <4>2, RecordPollRows DEF BcKeepsRow
        <5>3. Asking(p, a)' => bcPolls'[p].pc = "delete"
          BY <1>5, <5>1, PollsAdvance DEF BcPollAdvances, Asking
        <5> QED
          BY <2>1, <3>1, <3>3, <4>1, <5>1, <5>2, <5>3
      <4>3. CASE Backchannel!DeleteRow(p)
        <5>1. bcPolls[p].pc \in {"expire", "delete"} /\ UNCHANGED bcMinted
          BY <4>3 DEF Backchannel!DeleteRow, Backchannel!histories
        <5>2. bcRequests'[a].status = "deleted"
          BY <2>2, <2>5, <3>3, <4>3
        <5>3. Asking(p, a)' => bcPolls'[p].pc = "mint"
          BY <1>5, <5>1, PollsAdvance DEF BcPollAdvances, Asking
        <5> QED
          BY <2>1, <3>1, <3>3, <4>1, <5>1, <5>2, <5>3
      <4>4. CASE Backchannel!Mint(p)
        <5>1. bcPolls[p].pc = "mint" /\ UNCHANGED bcRequests
          BY <4>4 DEF Backchannel!Mint
        <5>2. bcRequests[a].status = "deleted"
          BY <2>1, <3>1, <3>3, <5>1
        <5>3. ~Asking(p, a)'
          BY <1>5, <5>1, PollsAdvance DEF BcPollAdvances, Asking
        <5> QED
          BY <3>1, <4>1, <5>1, <5>2, <5>3
      <4> QED
        BY <1>5, <4>2, <4>3, <4>4
    <3> QED
      BY <3>2, <3>3
  <2> QED
    BY <2>6, <2>7
<1>6. CASE Backchannel!Crash
  BY <1>6 DEF Backchannel!Crash, Backchannel!histories, UnissuedIsFresh, MintedOnce, Asking
<1> QED
  BY <1>1, <1>2, <1>3, <1>4, <1>5, <1>6
  DEF Backchannel!Next, Backchannel!Decide, Backchannel!Serve, Backchannel!Approve,
      Backchannel!Deny, Backchannel!ReadForDecision, Backchannel!Tick, Backchannel!histories,
      bcVars

\* The last element of a sequence is one of its elements.
LEMMA LastIsMember == ASSUME NEW S, NEW s \in Seq(S), s # <<>> PROVE s[Len(s)] \in S
OBVIOUS

\* The record remembers the last poll that got through, and the next is measured against it.
LEMMA BcRateNext ==
    BackchannelInv /\ [Backchannel!Next]_bcVars =>
        LastPollIsKept' /\ Backchannel!PollRate' /\ Backchannel!ReplaysAreRefused'
<1> SUFFICES ASSUME Backchannel!TypeOK, UnissuedIsFresh, MintedOnce, LastPollIsKept,
                    Backchannel!PollRate, Backchannel!ReplaysAreRefused,
                    [Backchannel!Next]_bcVars
             PROVE  LastPollIsKept' /\ Backchannel!PollRate' /\ Backchannel!ReplaysAreRefused'
  BY DEF BackchannelInv
<1> DEFINE Goal ==
        LastPollIsKept' /\ Backchannel!PollRate' /\ Backchannel!ReplaysAreRefused'
\* Steps that let no poll through and mint nothing.
<1>1. ASSUME UNCHANGED <<bcMinted, honoured>>,
             \A a \in AuthReq \ bcRushed' :
                /\ a \notin bcRushed
                /\ bcRequests'[a].lastPolledAt = bcRequests[a].lastPolledAt
                /\ \A p \in Poller : Asking(p, a)' /\ bcPolls'[p].pc = "record" =>
                      \/ Asking(p, a) /\ bcPolls'[p] = bcPolls[p]
                      \/ bcRequests[a].lastPolledAt # None =>
                            bcPolls'[p].at - bcRequests[a].lastPolledAt >= Interval
      PROVE  Goal
  <2>1. Backchannel!PollRate' /\ Backchannel!ReplaysAreRefused'
    BY <1>1 DEF Backchannel!PollRate, Backchannel!ReplaysAreRefused
  <2>2. LastPollIsKept'
    <3> SUFFICES ASSUME NEW a \in AuthReq, a \notin bcRushed'
                 PROVE  /\ Len(honoured[a]) <= 2
                        /\ honoured[a] # <<>> =>
                              bcRequests'[a].lastPolledAt = honoured[a][Len(honoured[a])]
                        /\ \A p \in Poller :
                              Asking(p, a)' /\ bcPolls'[p].pc = "record"
                                  /\ bcRequests'[a].lastPolledAt # None =>
                                 bcPolls'[p].at - bcRequests'[a].lastPolledAt >= Interval
      BY <1>1 DEF LastPollIsKept
    <3>1. /\ Len(honoured[a]) <= 2
          /\ honoured[a] # <<>> => bcRequests[a].lastPolledAt = honoured[a][Len(honoured[a])]
          /\ \A p \in Poller :
                Asking(p, a) /\ bcPolls[p].pc = "record" /\ bcRequests[a].lastPolledAt # None =>
                    bcPolls[p].at - bcRequests[a].lastPolledAt >= Interval
      BY <1>1 DEF LastPollIsKept
    <3> QED
      BY <1>1, <3>1
  <2> QED
    BY <2>1, <2>2
<1>2. ASSUME NEW a \in AuthReq, NEW c \in Client, NEW u \in User, Backchannel!Issue(a, c, u)
      PROVE  Goal
  <2>1. UNCHANGED <<bcPolls, bcMinted, honoured, bcRushed>>
    BY <1>2 DEF Backchannel!Issue, Backchannel!histories
  <2>2. \A b \in AuthReq : bcRequests'[b].lastPolledAt = bcRequests[b].lastPolledAt
    BY <1>2 DEF Backchannel!Issue, Backchannel!TypeOK, Backchannel!AuthRequest
  <2> QED
    BY <1>1, <2>1, <2>2 DEF Asking
<1>3. ASSUME NEW q \in Decider, Backchannel!UpdateStatus(q) PROVE Goal
  <2>1. UNCHANGED <<bcPolls, bcMinted, honoured, bcRushed>>
    BY <1>3 DEF Backchannel!UpdateStatus
  <2>2. \A b \in AuthReq : bcRequests'[b].lastPolledAt = bcRequests[b].lastPolledAt
    BY <1>3, UpdateStatusRows DEF BcKeepsRow
  <2> QED
    BY <1>1, <2>1, <2>2 DEF Asking
<1>4. ASSUME UNCHANGED <<bcRequests, bcPolls, bcMinted, honoured, bcRushed>> PROVE Goal
  BY <1>1, <1>4 DEF Asking
<1>5. ASSUME NEW p \in Poller, NEW a \in AuthReq, NEW c \in Client, Backchannel!Poll(p, a, c)
      PROVE  Goal
  <2>1. UNCHANGED <<bcRequests, bcMinted, honoured>>
    BY <1>5 DEF Backchannel!Poll
  <2>2. ASSUME NEW b \in AuthReq \ bcRushed', NEW o \in Poller,
               Asking(o, b)', bcPolls'[o].pc = "record"
        PROVE  \/ Asking(o, b) /\ bcPolls'[o] = bcPolls[o]
               \/ bcRequests[b].lastPolledAt # None =>
                     bcPolls'[o].at - bcRequests[b].lastPolledAt >= Interval
    BY <1>5, <2>2, PollBegins DEF Asking
  <2>3. \A b \in AuthReq \ bcRushed' : b \notin bcRushed
    BY <1>5, PollBegins
  <2> HIDE DEF Goal
  <2> QED
    BY <1>1, <2>1, <2>2, <2>3
<1>6. ASSUME NEW p \in Poller, Backchannel!RecordPoll(p) PROVE Goal
  <2> DEFINE r == bcPolls[p].request
  <2> DEFINE at == bcPolls[p].at
  <2>1. /\ r \in AuthReq /\ Asking(p, r) /\ at \in 0 .. MaxPollTime /\ bcPolls[p].pc = "record"
        /\ UNCHANGED <<bcMinted, bcRushed>>
    BY <1>6, RecordPollRows DEF Backchannel!RecordPoll, Asking, Backchannel!ReadPoll
  <2>2. \A a \in AuthReq : a # r =>
           honoured'[a] = honoured[a] /\ bcRequests'[a].lastPolledAt = bcRequests[a].lastPolledAt
    BY <1>6, <2>1, RecordPollRows
    DEF Backchannel!RecordPoll, BcKeepsRow, Backchannel!TypeOK
  <2>3. honoured'[r] = IF honoured[r] = <<>> THEN <<at>>
                       ELSE <<honoured[r][Len(honoured[r])], at>>
    BY <1>6, <2>1 DEF Backchannel!RecordPoll, Backchannel!TypeOK
  <2>4. /\ \A o \in Poller : o # p => bcPolls'[o] = bcPolls[o]
        /\ bcPolls'[p] = None \/ bcPolls'[p].pc = "delete"
    BY <1>6, <2>1, PollsAdvance DEF BcPollAdvances
  <2>5. r \notin bcRushed => bcRequests'[r].lastPolledAt = at
    <3>1. r \notin bcRushed => bcRequests[r].status \notin {"unissued", "deleted"}
      BY <2>1 DEF UnissuedIsFresh, MintedOnce
    <3> QED
      BY <1>6, <2>1, <3>1, RecordPollRows DEF Backchannel!Stored
  <2> HIDE DEF at
  <2>6. ASSUME r \notin bcRushed
        PROVE  /\ Len(honoured'[r]) <= 2 /\ honoured'[r] # <<>>
               /\ honoured'[r][Len(honoured'[r])] = at
               /\ Len(honoured'[r]) = 2 => honoured'[r][2] - honoured'[r][1] >= Interval
    <3>1. CASE honoured[r] = <<>>
      BY <2>3, <3>1
    <3>2. CASE honoured[r] # <<>>
      <4> DEFINE last == honoured[r][Len(honoured[r])]
      <4>1. honoured'[r] = <<last, at>>
        BY <2>3, <3>2
      <4>2. bcRequests[r].lastPolledAt = last
        BY <2>1, <2>6, <3>2 DEF LastPollIsKept
      <4>3. last \in 0 .. MaxPollTime
        <5>1. honoured[r] \in Seq(0 .. MaxPollTime)
          BY <2>1 DEF Backchannel!TypeOK
        <5> QED
          BY <3>2, <5>1, LastIsMember
      <4>4. last # None
        BY <4>3, PolledBounds
      <4>5. at - last >= Interval
        BY <2>1, <2>6, <4>2, <4>4 DEF LastPollIsKept, at
      <4> HIDE DEF last
      <4> QED
        BY <4>1, <4>5
    <3> QED
      BY <3>1, <3>2
  <2>7. Backchannel!PollRate'
    BY <2>1, <2>2, <2>6 DEF Backchannel!PollRate
  <2>8. LastPollIsKept'
    <3> SUFFICES ASSUME NEW a \in AuthReq, a \notin bcRushed
                 PROVE  /\ Len(honoured'[a]) <= 2
                        /\ honoured'[a] # <<>> =>
                              bcRequests'[a].lastPolledAt = honoured'[a][Len(honoured'[a])]
                        /\ \A o \in Poller :
                              Asking(o, a)' /\ bcPolls'[o].pc = "record"
                                  /\ bcRequests'[a].lastPolledAt # None =>
                                 bcPolls'[o].at - bcRequests'[a].lastPolledAt >= Interval
      BY <2>1 DEF LastPollIsKept
    <3>1. CASE a = r
      <4>1. \A o \in Poller : ~(Asking(o, a)' /\ bcPolls'[o].pc = "record")
        BY <2>1, <2>4, <3>1 DEF MintedOnce, Asking
      <4> QED
        BY <2>5, <2>6, <3>1, <4>1
    <3>2. CASE a # r
      <4>1. /\ Len(honoured[a]) <= 2
            /\ honoured[a] # <<>> => bcRequests[a].lastPolledAt = honoured[a][Len(honoured[a])]
            /\ \A o \in Poller :
                  Asking(o, a) /\ bcPolls[o].pc = "record"
                      /\ bcRequests[a].lastPolledAt # None =>
                     bcPolls[o].at - bcRequests[a].lastPolledAt >= Interval
        BY DEF LastPollIsKept
      <4>2. \A o \in Poller : Asking(o, a)' /\ bcPolls'[o].pc = "record" =>
               Asking(o, a) /\ bcPolls'[o] = bcPolls[o]
        BY <2>4 DEF Asking
      <4> QED
        BY <2>2, <3>2, <4>1, <4>2
    <3> QED
      BY <3>1, <3>2
  <2>9. Backchannel!ReplaysAreRefused'
    BY <2>1 DEF Backchannel!ReplaysAreRefused
  <2> QED
    BY <2>7, <2>8, <2>9
<1>7. ASSUME NEW p \in Poller, Backchannel!DeleteRow(p) PROVE Goal
  <2>1. UNCHANGED <<bcMinted, honoured, bcRushed>>
    BY <1>7 DEF Backchannel!DeleteRow, Backchannel!histories
  <2>2. \A a \in AuthReq : bcRequests'[a].lastPolledAt = bcRequests[a].lastPolledAt
    BY <1>7, DeleteRowRows DEF BcKeepsRow
  <2>3. \A o \in Poller, a \in AuthReq : Asking(o, a)' /\ bcPolls'[o].pc = "record" =>
           Asking(o, a) /\ bcPolls'[o] = bcPolls[o]
    BY <1>7, PollsAdvance DEF BcPollAdvances, Asking
  <2> HIDE DEF Goal
  <2> QED
    BY <1>1, <2>1, <2>2, <2>3
<1>8. ASSUME NEW p \in Poller, Backchannel!Mint(p) PROVE Goal
  <2> DEFINE r == bcPolls[p].request
  <2>1. /\ UNCHANGED <<bcRequests, honoured, bcRushed>> /\ r \in AuthReq /\ Asking(p, r)
        /\ bcPolls[p].pc = "mint" /\ \A o \in Poller : bcPolls'[o] # bcPolls[o] => o = p
        /\ bcPolls'[p] = None
    BY <1>8, PollsAdvance DEF Backchannel!Mint, Asking, BcPollAdvances
  <2>2. \A a \in AuthReq :
           bcMinted'[a] = IF a = r THEN Append(bcMinted[a], bcPolls[p].read.userSub)
                                   ELSE bcMinted[a]
    BY <1>8, <2>1 DEF Backchannel!Mint, Backchannel!TypeOK
  <2>3. LastPollIsKept'
    BY <2>1 DEF LastPollIsKept, Asking
  <2>4. Backchannel!PollRate'
    BY <2>1 DEF Backchannel!PollRate
  <2>5. Backchannel!ReplaysAreRefused'
    <3> SUFFICES ASSUME NEW a \in AuthReq, a \notin bcRushed PROVE Len(bcMinted'[a]) <= 1
      BY <2>1 DEF Backchannel!ReplaysAreRefused
    <3>1. CASE a = r
      <4>1. bcMinted[a] = <<>>
        BY <2>1, <3>1 DEF MintedOnce
      <4>2. \A t : Len(Append(<<>>, t)) = 1
        OBVIOUS
      <4>3. bcMinted'[a] = Append(<<>>, bcPolls[p].read.userSub)
        BY <2>2, <3>1, <4>1
      <4> QED
        BY <4>2, <4>3
    <3>2. CASE a # r
      BY <2>2, <3>2 DEF Backchannel!ReplaysAreRefused
    <3> QED
      BY <3>1, <3>2
  <2> QED
    BY <2>3, <2>4, <2>5
<1>9. CASE Backchannel!Crash
  <2>1. UNCHANGED <<bcRequests, bcMinted, honoured, bcRushed>>
    BY <1>9 DEF Backchannel!Crash, Backchannel!histories
  <2>2. \A a \in AuthReq, p \in Poller : ~Asking(p, a)'
    BY <1>9 DEF Backchannel!Crash, Asking
  <2>3. LastPollIsKept'
    BY <2>1, <2>2 DEF LastPollIsKept
  <2>4. Backchannel!PollRate' /\ Backchannel!ReplaysAreRefused'
    BY <2>1 DEF Backchannel!PollRate, Backchannel!ReplaysAreRefused
  <2> QED
    BY <2>3, <2>4
<1> QED
  BY <1>2, <1>3, <1>4, <1>5, <1>6, <1>7, <1>8, <1>9
  DEF Backchannel!Next, Backchannel!Decide, Backchannel!Serve, Backchannel!Approve,
      Backchannel!Deny, Backchannel!ReadForDecision, Backchannel!Tick, Backchannel!histories,
      bcVars

LEMMA BackchannelNext == BackchannelInv /\ [Backchannel!Next]_bcVars => BackchannelInv'
BY BackchannelTypeNext, BcApprovedNext, BcStageNext, BcRateNext DEF BackchannelInv

-------------------------------------------------------------------------------
(* The sum.                                                                   *)

\* A behaviour of the sum is one of one module, which keeps its invariant.
THEOREM Invariant == Spec => []AccessInv
<1>1. Init => AccessInv
  BY AgentsInit, ScimInit, OneTimeInit, CredentialsInit, ApiKeysInit,
     OrganizationsInit, InvitationsInit, ClientsInit, FgaInit, SsoInit, DeviceInit, BackchannelInit
  DEF Init, AccessInv
<1>2. AccessInv /\ [Next]_vars => AccessInv'
  <2> SUFFICES ASSUME AccessInv, [Next]_vars PROVE AccessInv'
    OBVIOUS
  <2>1. ASSUME part' = "agents" PROVE AgentsInv'
    <3>1. part = "agents" /\ [Agents!Next]_agVars
      BY <2>1 DEF Next, vars
    <3> QED
      BY <3>1, AgentsNext DEF AccessInv
  <2>2. ASSUME part' = "scim" PROVE ScimInv'
    <3>1. part = "scim" /\ [Scim!Next]_scVars
      BY <2>2 DEF Next, vars
    <3> QED
      BY <3>1, ScimNext DEF AccessInv
  <2>3. ASSUME part' = "proofs" PROVE OneTimeInv'
    <3>1. part = "proofs" /\ [Proofs!Next]_otVars
      BY <2>3 DEF Next, vars
    <3> QED
      BY <3>1, OneTimeNext DEF AccessInv
  <2>4. ASSUME part' = "credentials" PROVE CredentialsInv'
    <3>1. part = "credentials" /\ [Verifiable!Next]_vcVars
      BY <2>4 DEF Next, vars
    <3> QED
      BY <3>1, CredentialsNext DEF AccessInv
  <2>5. ASSUME part' = "api keys" PROVE ApiKeysInv'
    <3>1. part = "api keys" /\ [ApiKeys!Next]_akVars
      BY <2>5 DEF Next, vars
    <3> QED
      BY <3>1, ApiKeysNext DEF AccessInv
  <2>6. ASSUME part' = "organizations" PROVE OrganizationsInv' /\ InvitationsInv'
    <3>1. part = "organizations" /\ [Organizations!Next]_orVars
      BY <2>6 DEF Next, vars
    <3> QED
      BY <3>1, OrganizationsNext, InvitationsNext DEF AccessInv
  <2>7. ASSUME part' = "clients" PROVE ClientsInv'
    <3>1. part = "clients" /\ [Clients!Next]_clVars
      BY <2>7 DEF Next, vars
    <3> QED
      BY <3>1, ClientsNext DEF AccessInv
  <2>8. ASSUME part' = "fga" PROVE FgaInv'
    <3>1. part = "fga" /\ [Fga!Next]_fgVars
      BY <2>8 DEF Next, vars
    <3> QED
      BY <3>1, FgaNext DEF AccessInv
  <2>9. ASSUME part' = "sso" PROVE SsoInv'
    <3>1. part = "sso" /\ [Sso!Next]_ssVars
      BY <2>9 DEF Next, vars
    <3> QED
      BY <3>1, SsoNext DEF AccessInv
  <2>10. ASSUME part' = "device" PROVE DeviceInv'
    <3>1. part = "device" /\ [Codes!Next]_dgVars
      BY <2>10 DEF Next, vars
    <3> QED
      BY <3>1, DeviceNext DEF AccessInv
  <2>11. ASSUME part' = "backchannel" PROVE BackchannelInv'
    <3>1. part = "backchannel" /\ [Backchannel!Next]_bcVars
      BY <2>11 DEF Next, vars
    <3> QED
      BY <3>1, BackchannelNext DEF AccessInv
  <2> QED
    BY <2>1, <2>2, <2>3, <2>4, <2>5, <2>6, <2>7, <2>8, <2>9, <2>10, <2>11 DEF AccessInv
<1> QED
  BY <1>1, <1>2, PTL DEF Spec

\* Once a user has claimed an anonymous agent, no token from before the claim is honoured,
\* whatever crosses the retirement of its tokens, but for those whose request was under way
\* (completeClaim, issueAgentAccessToken).
THEOREM ClaimedKeepNothing == Spec => []ClaimRetiresTokens
<1>1. AccessInv => ClaimRetiresTokens
  BY DEF AccessInv, AgentsInv, RetiredStay, HasRetired, Excused, ClaimRetiresTokens, Agents!ClaimRetiresTokens
<1> QED
  BY <1>1, Invariant, PTL

\* What a provisioning client was acknowledged is what the application keeps, whatever PATCH,
\* PUT, POST and DELETE cross, up to overlapped patches and the operations that are misread
\* (scimRoutes, applyPatch, applyGroupPatch).
THEOREM AskedIsKept == Spec => []KeepsWhatWasAsked
<1>1. AccessInv => KeepsWhatWasAsked
  BY DEF AccessInv, ScimInv, KeepsWhatWasAsked
<1> QED
  BY <1>1, Invariant, PTL

\* What is accepted once is accepted once: a signed proof while its store remembers it, a socket
\* ticket, a pre-authorized code, a c_nonce and a presentation request.  Where a store decides in
\* one call, that is for however many requests present it together; where the code asks and then
\* writes, for all but those that asked between another's two calls (recordIfFresh, verifyDpopProof,
\* consumeSocketTicket, exchangePreAuthorizedCode, verifyProofJwt, verifyPresentationResponse).
THEOREM AcceptedOnce == Spec => []SecretsPassOnce
<1>1. AccessInv => SecretsPassOnce
  <2>1. ASSUME CredentialsInv PROVE Verifiable!CredentialSecretsPassOnce
    BY <2>1 DEF CredentialsInv, SecretsInv, SpentOnce, Verifiable!CredentialSecretsPassOnce
  <2> QED
    BY <2>1, PassedOnce DEF AccessInv, SecretsPassOnce
<1> QED
  BY <1>1, Invariant, PTL

\* Whoever was taken out stays out, however the requests that end a membership, an API key, its
\* tokens or a client cross those that grant one: a member who left or was removed, an invitation
\* that was revoked or has expired, a client that was deleted or revoked with all it held, an API
\* key and its tokens, up to the requests under way that each module names (removeMember,
\* revokeInvitation, acceptInvitation,
\* updateClient, revokeOAuthClientCredentials, deleteApiClient, deleteApiKey).
THEOREM WithdrawnOut == Spec => []WithdrawnStaysOut
<1>1. ASSUME OrganizationsInv PROVE Organizations!EndedStaysEnded
  BY <1>1 DEF OrganizationsInv, Standing, Organizations!EndedStaysEnded, Organizations!Active
<1>2. ASSUME ClientsInv PROVE Clients!RetiredHoldNothing
  BY <1>2 DEF ClientsInv, RevokedHoldNothing, DeletedStayOut, TokensForgotten, AllDry, Dry, Source, FamilyOps,
     Clients!RetiredHoldNothing, Clients!TypeOK
<1>3. ASSUME ApiKeysInv PROVE ApiKeys!DeletedStaysOut
  BY <1>3 DEF ApiKeysInv, ApiTypes, TokensEnd, KeyEnds, Deadline, ApiKeys!DeletedStaysOut, ApiKeys!TypeOK
<1>4. AccessInv => WithdrawnStaysOut
  BY <1>1, <1>2, <1>3 DEF AccessInv, InvitationsInv, Organizations!InvitationsPassOnce, WithdrawnStaysOut
<1> QED
  BY <1>4, Invariant, PTL

\* Whatever the tuples and the rules are, cycles included, and however many checks read while
\* tuples are written: a cached answer is what they say, once the cache is cleared after a
\* write, unless a write overlapped the check that stored it, another instance wrote since, or
\* maxDepth cut it; and no check or listing finds a subject that they do not give the relation
\* (check, writeWarrant, deleteWarrant, listSubjects, evaluate, expand).
THEOREM CacheIsRight == Spec => []CacheFollowsWrites
<1>1. ASSUME FgaInv PROVE Fga!FoundHolds
  <2> SUFFICES ASSUME NEW r \in Checker, fgWork[r] # None, ~fgWork[r].raced, NEW u \in fgWork[r].found
               PROVE  Fga!Holds(<<fgWork[r].key[1], u>>)
    BY DEF Fga!FoundHolds
  <2>1. PICK a : a = fgWork[r].key[1]
    OBVIOUS
  <2>2. PICK n : Grants(a, n) /\ <<n, u>> \in warrants
    BY <1>1, <2>1 DEF FgaInv, Sound
  <2>3. ASSUME NEW S \in SUBSET Node, a \in S, \A m \in S : Fga!Leads(m) \subseteq S
        PROVE  \E m \in S : <<m, u>> \in warrants
    BY <2>2, <2>3 DEF Grants, Closed
  <2> QED
    BY <2>1, <2>3 DEF Fga!Holds
<1>2. AccessInv => CacheFollowsWrites
  BY <1>1 DEF AccessInv, FgaInv, CacheFollowsWrites
<1> QED
  BY <1>2, Invariant, PTL

\* In both stores and however sign-ins, logouts and configurations cross, sign-ins are served the
\* connection acknowledged last, and the logout that ends a SAML session asks its provider to end
\* its own wherever the adapter can sign a request and the connection it reads has the address for
\* one, unless configurations of one type overlapped or a connection was taken away (the
\* setup portal, saveConnection, resolveSsoConnection, the SAML logout).
THEOREM ConfiguredServes == Spec => []ConfiguredIsServed
<1>1. ASSUME SsoInv, ~ssExempt, NEW t \in Sso!Type, answered[t] # 0
      PROVE  Sso!Served({t}) # None /\ Sso!Served({t}).at >= answered[t]
  <2>1. OneEach /\ AnsweredServed
    BY <1>1 DEF SsoInv, Undisturbed
  <2>2. PICK i \in Conns : connections[i].type = t /\ connections[i].at >= answered[t]
    BY <1>1, <2>1 DEF AnsweredServed
  <2>3. Sso!Served({t}) = connections[i]
    BY <2>1, <2>2, ServedIs DEF OneEach
  <2>4. connections[i] \in Sso!Connection
    BY <2>1 DEF OneEach, Conns
  <2> QED
    BY <2>2, <2>3, <2>4, AccessAssumption
<1>2. SsoInv => Sso!ConfiguredIsServed /\ Sso!LogoutReachesProvider
  BY <1>1 DEF Sso!ConfiguredIsServed, Sso!LogoutReachesProvider, SsoInv, Undisturbed
<1>3. AccessInv => ConfiguredIsServed
  BY <1>2 DEF AccessInv, ConfiguredIsServed
<1> QED
  BY <1>3, Invariant, PTL

\* exchangeDeviceCode and exchangeBackchannel: whatever decisions, polls, deletions and
\* crashes interleave, tokens go to a user whose approval was written, to the client the code
\* was issued to, and a denial that no other decision overlapped is final.
THEOREM TokensNeedApproval == Spec => []PolledMintsWhatWasApproved
<1>1. AccessInv => PolledMintsWhatWasApproved
  BY DEF AccessInv, DeviceInv, BackchannelInv, PolledMintsWhatWasApproved
<1> QED
  BY <1>1, Invariant, PTL

\* The record is dropped before minting: a replay that begins after the first exchange is
\* over, or after a crash in the middle of it, never mints.
THEOREM CodesAreSingleUse == Spec => []PolledReplaysAreRefused
<1>1. AccessInv => PolledReplaysAreRefused
  BY DEF AccessInv, DeviceInv, BackchannelInv, PolledReplaysAreRefused
<1> QED
  BY <1>1, Invariant, PTL

\* recordPoll: polls of one auth_req_id that get through one after the other lie at least the
\* interval apart, whichever interval the provider is configured with.
THEOREM PollsKeepTheInterval == Spec => []PollRateHolds
<1>1. AccessInv => PollRateHolds
  BY DEF AccessInv, BackchannelInv, PollRateHolds
<1> QED
  BY <1>1, Invariant, PTL

===============================================================================

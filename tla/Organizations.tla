----------------------------- MODULE Organizations -----------------------------
(***************************************************************************)
(* Members, invitations and roles of one organization (organizations/,     *)
(* roles/).                                                                *)
(*                                                                         *)
(* A route asks whether the caller may manage members, and then reads and  *)
(* writes whole rows, each call an await; only accepting an invitation is  *)
(* one step in both stores.  A user of the model is also the e-mail        *)
(* address that an invitation names.                                       *)
(***************************************************************************)
EXTENDS Naturals, FiniteSets, Sequences

CONSTANTS
    User,
    Request,        \* slots for requests in flight together
    None,
    MaxInvitation   \* bound of the invitations sent

VARIABLES
    organization,   \* the organization's row
    members,        \* the membership rows
    invitations,    \* the invitation rows, a sequence
    work,           \* requests between two steps
    ended,          \* history: how the membership of a user was last ended
    overtaken,      \* history: members brought back by a request already under way
    closed,         \* history: invitations revoked, run out or accepted
    reopened        \* history: those of them that brought a member in all the same

vars == <<organization, members, invitations, work, ended, overtaken, closed, reopened>>
passes == <<closed, reopened>>

Roles == {"joined", "assigned"}      \* the roles a member joined with, and those set later
Membership == [status : {"active", "suspended"}, roles : Roles]
Invitation == [user : User, state : {"pending", "accepted", "revoked"}, expired : BOOLEAN]
Active(roles) == [status |-> "active", roles |-> roles]
Sent == DOMAIN invitations

TypeOK ==
    /\ organization \in {"none", "live", "deleted"} /\ members \in [User -> Membership \cup {None}]
    /\ Sent \subseteq 1 .. MaxInvitation /\ \A i \in Sent : invitations[i] \in Invitation
    /\ \A r \in Request : work[r] # None =>
           /\ work[r].pc \in {"owner", "managing", "send", "revoke", "roles", "assign"}
           /\ work[r].user \in User \cup {None} /\ work[r].late \in BOOLEAN
    /\ ended \in [User -> {"no", "removed", "suspended"}] /\ overtaken \subseteq User
    /\ closed \subseteq Sent /\ reopened \subseteq Sent

Init ==
    /\ organization = "none" /\ members = [u \in User |-> None] /\ invitations = <<>>
    /\ work = [r \in Request |-> None]
    /\ ended = [u \in User |-> "no"] /\ overtaken = {}
    /\ closed = {} /\ reopened = {}

At(r, pc) == work[r] # None /\ work[r].pc = pc
Done(r) == work' = [work EXCEPT ![r] = None]
\* A request holds the user it is about, and the row it read.
Hold(r, pc, u, row) ==
    work' = [work EXCEPT ![r] = [pc |-> pc, user |-> u, row |-> row, late |-> FALSE]]

\* Requests that already read the row of a user whose membership ends.
Overtaken(u) ==
    [r \in Request |-> IF /\ work[r] # None /\ work[r].user = u
                          /\ work[r].pc \in {"owner", "roles", "assign"}
                       THEN [work[r] EXCEPT !.late = TRUE] ELSE work[r]]

\* saveMembership, of a request that may have been overtaken.
SaveMembership(r, row) ==
    LET u == work[r].user IN
    /\ members' = [members EXCEPT ![u] = row] /\ Done(r)
    /\ overtaken' = IF work[r].late THEN overtaken \cup {u} ELSE overtaken

-----------------------------------------------------------------------------
(* The organization.                                                       *)

\* createOrganization saves the organization, and then its owner.
CreateOrganization(r, u) ==
    /\ organization = "none" /\ organization' = "live" /\ work[r] = None
    /\ Hold(r, "owner", u, None)
    /\ UNCHANGED <<members, invitations, ended, overtaken, passes>>

SaveOwner(r) ==
    /\ At(r, "owner") /\ SaveMembership(r, Active("joined"))
    /\ UNCHANGED <<organization, invitations, ended, passes>>

\* The application deletes the organization alone; rows of members and invitations stay.
DeleteOrganization ==
    /\ organization = "live" /\ organization' = "deleted"
    /\ UNCHANGED <<members, invitations, work, ended, overtaken, passes>>

-----------------------------------------------------------------------------
(* Management, by default for every active member.                         *)

MayManage(r, u) ==
    /\ work[r] = None /\ members[u] # None /\ members[u].status = "active"
    /\ Hold(r, "managing", None, None)
    /\ UNCHANGED <<organization, members, invitations, ended, overtaken, passes>>

Pending(u) == [user |-> u, state |-> "pending", expired |-> FALSE]
Invite(r, u) ==
    LET i == Cardinality(Sent) + 1 IN
    /\ At(r, "managing") /\ i <= MaxInvitation
    /\ invitations' = Append(invitations, Pending(u))
    /\ work' = [work EXCEPT ![r].pc = "send", ![r].row = i]
    /\ UNCHANGED <<organization, members, ended, overtaken, passes>>

\* saveInvitation of a row that was read earlier, now revoked.
RevokedAsRead(i) ==                                   \* defect: the state of the row that was read
    [invitations EXCEPT ![i].state = "pending"]
Revoked(i) == [invitations EXCEPT ![i].state = "revoked"]
Revoke(i) == invitations' = Revoked(i) /\ closed' = closed \cup {i} /\ UNCHANGED reopened

\* The message goes out after the row is saved; when it cannot be sent, the row as it was made
\* is written back as revoked.
SendInvitation(r) ==
    /\ At(r, "send") /\ Done(r)
    /\ UNCHANGED <<invitations, passes>> \/ Revoke(work[r].row)
    /\ UNCHANGED <<organization, members, ended, overtaken>>

\* The route reads the invitation, whatever its state, and writes it back as revoked.
ReadInvitation(r) ==
    /\ At(r, "managing")
    /\ \E i \in Sent : work' = [work EXCEPT ![r].pc = "revoke", ![r].row = i]
    /\ UNCHANGED <<organization, members, invitations, ended, overtaken, passes>>

RevokeInvitation(r) ==
    /\ At(r, "revoke") /\ Done(r) /\ Revoke(work[r].row)
    /\ UNCHANGED <<organization, members, ended, overtaken>>

RemoveMember(r, u) ==
    /\ At(r, "managing")
    /\ members' = [members EXCEPT ![u] = None]
    /\ ended' = [ended EXCEPT ![u] = IF members[u] # None THEN "removed" ELSE @]
    /\ overtaken' = overtaken \ {u} /\ work' = [Overtaken(u) EXCEPT ![r] = None]
    /\ UNCHANGED <<organization, invitations, passes>>

\* setMemberRoles replaces the roles of the row it read, and answers not found without one.
Known(u) == members[u] # None
ReadMember(r, u) ==
    /\ At(r, "managing")
    /\ IF Known(u) THEN Hold(r, "roles", u, members[u]) ELSE Done(r)
    /\ UNCHANGED <<organization, members, invitations, ended, overtaken, passes>>

SetMemberRoles(r) ==
    /\ At(r, "roles") /\ SaveMembership(r, [work[r].row EXCEPT !.roles = "assigned"])
    /\ UNCHANGED <<organization, invitations, ended, passes>>

-----------------------------------------------------------------------------
(* Joining.                                                                *)

ExpireInvitation(i) ==
    /\ i \in Sent /\ ~invitations[i].expired
    /\ invitations' = [invitations EXCEPT ![i].expired = TRUE] /\ closed' = closed \cup {i}
    /\ UNCHANGED <<organization, members, work, ended, overtaken, reopened>>

\* Invitations neither bring back a suspended member nor replace the roles of an active one.
AnyPending(i) == invitations[i].state = "pending"     \* defect: a suspended member may accept
Acceptable(i) ==
    /\ invitations[i].state = "pending" /\ ~invitations[i].expired
    /\ organization = "live"
    /\ LET row == members[invitations[i].user] IN row # None => row.status # "suspended"

AcceptInvitation(i) ==
    LET u == invitations[i].user IN
    /\ Acceptable(i)
    /\ invitations' = [invitations EXCEPT ![i].state = "accepted"]
    /\ members' = [members EXCEPT ![u] =
           IF @ # None /\ @ \in {Active(x) : x \in Roles} THEN @ ELSE Active("joined")]
    /\ ended' = [ended EXCEPT ![u] = IF @ = "removed" THEN "no" ELSE @]
    /\ closed' = closed \cup {i} /\ reopened' = reopened \cup (closed \cap {i})
    /\ UNCHANGED <<organization, work, overtaken>>

\* autoAssignOrgsByEmail skips those who have a row, and saves the others a while later.
AssignByDomain(r, u) ==
    /\ organization # "none" /\ work[r] = None /\ ~Known(u)
    /\ Hold(r, "assign", u, None)
    /\ UNCHANGED <<organization, members, invitations, ended, overtaken, passes>>

SaveAssigned(r) ==
    /\ At(r, "assign") /\ SaveMembership(r, Active("joined"))
    /\ ended' = [ended EXCEPT ![work[r].user] = IF work[r].late THEN @ ELSE "no"]
    /\ UNCHANGED <<organization, invitations, passes>>

\* The application suspends a member.
Suspend(u) ==
    /\ Known(u) /\ members[u].status = "active"
    /\ members' = [members EXCEPT ![u].status = "suspended"]
    /\ ended' = [ended EXCEPT ![u] = "suspended"] /\ overtaken' = overtaken \ {u}
    /\ work' = Overtaken(u)
    /\ UNCHANGED <<organization, invitations, passes>>

Next ==
    \/ DeleteOrganization
    \/ \E i \in Sent : ExpireInvitation(i) \/ AcceptInvitation(i)
    \/ \E u \in User : Suspend(u)
    \/ \E r \in Request :
           \/ SaveOwner(r) \/ SendInvitation(r) \/ ReadInvitation(r) \/ RevokeInvitation(r)
           \/ SetMemberRoles(r) \/ SaveAssigned(r)
           \/ \E u \in User : \/ CreateOrganization(r, u) \/ MayManage(r, u) \/ Invite(r, u)
                              \/ RemoveMember(r, u) \/ ReadMember(r, u) \/ AssignByDomain(r, u)

Spec == Init /\ [][Next]_vars

-----------------------------------------------------------------------------
(* Properties.                                                             *)

\* A removed member is out until they accept an invitation or their domain assigns them anew, and
\* a suspended one stays suspended or goes; only a change of roles or an assignment that had read
\* the row before brings them back (setMemberRoles, acceptInvitation, autoAssignOrgsByEmail).
EndedStaysEnded ==
    \A u \in User \ overtaken :
        /\ ended[u] = "removed" => members[u] = None
        /\ ended[u] = "suspended" => \A x \in Roles : members[u] # Active(x)

\* An invitation brings in one member at most, and none once it was revoked, by a member or
\* because its message could not be sent, or has expired, although both revocations write back a
\* row that was read before (acceptInvitation, the invitation routes).
InvitationsPassOnce == reopened = {}

=============================================================================

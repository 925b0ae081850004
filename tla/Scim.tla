--------------------------------- MODULE Scim ---------------------------------
(***************************************************************************)
(* Provisioning by an identity provider over SCIM (scim/routes.ts,         *)
(* scim/serialize.ts): one user or one group of one organization.          *)
(*                                                                         *)
(* A request presents a token, and then creates, replaces, patches or      *)
(* deactivates.  The application keeps the resources; a PATCH reads one,   *)
(* merges the operation into it and hands the whole of it to the hook that *)
(* replaces.  A user is its active flag and one other attribute, a group   *)
(* its name and members.                                                   *)
(***************************************************************************)
EXTENDS Naturals, FiniteSets

CONSTANTS
    Request,        \* slots for requests in flight together
    Member,         \* members of the group
    Name,           \* values of the other attributes
    None

VARIABLES
    valid,          \* the organization's token is in the store
    kind,           \* what is provisioned, a user or a group
    resource,       \* what the application keeps of it
    work,           \* requests between two steps
    asked,          \* history: what the acknowledged requests ask for
    exempt          \* history: a named exception holds of it

vars == <<valid, kind, resource, work, asked, exempt>>

Kind == {"user", "group"}
UserInput == [active : BOOLEAN, name : Name]
Group == [members : SUBSET Member, name : Name]
Input == IF kind = "user" THEN UserInput ELSE Group

\* The operations of a PATCH: on an attribute by its path, on one member by a filter, or without
\* a path by an object of values.
Operation ==
    [kind : {"user"}, op : {"replace", "remove"}, path : {"active"}, value : BOOLEAN] \cup
    [kind : {"user"}, op : {"replace", "remove"}, path : {"name"}, value : Name] \cup
    [kind : {"user"}, op : {"replace"}, path : {"none"}, value : UserInput] \cup
    [kind : {"group"}, op : {"add", "replace", "remove"}, path : {"members", "none"},
     value : SUBSET Member] \cup
    [kind : {"group"}, op : {"remove"}, path : {"filter"}, value : Member] \cup
    [kind : {"group"}, op : {"replace"}, path : {"name"}, value : Name]

TypeOK ==
    /\ valid \in BOOLEAN /\ kind \in Kind /\ exempt \in BOOLEAN
    /\ resource \in Input \cup {None} /\ asked \in Input \cup {None}
    /\ \A r \in Request : work[r] # None =>
           work[r].pc \in {"create", "replace", "deactivate", "read", "write"}

Init ==
    /\ valid = TRUE /\ kind \in Kind /\ resource = None /\ asked = None
    /\ work = [r \in Request |-> None] /\ exempt = FALSE

-----------------------------------------------------------------------------
(* Merging, and what was asked for.                                        *)

\* applyPatch: a remove is passed over.
PatchedUser(user, o) ==
    CASE o.op = "remove"   -> user
      [] o.path = "active" -> [user EXCEPT !.active = o.value]
      [] o.path = "name"   -> [user EXCEPT !.name = o.value]
      [] o.path = "none"   -> o.value

\* applyGroupPatch: without a path the members are replaced, whatever the operation is.
PatchedGroup(group, o) ==
    CASE o.path = "filter" -> [group EXCEPT !.members = @ \ {o.value}]
      [] o.path = "name"   -> [group EXCEPT !.name = o.value]
      [] o.path = "none"   -> [group EXCEPT !.members = o.value]
      [] o.path = "members" ->
             [group EXCEPT !.members = CASE o.op = "add" -> @ \cup o.value
                                         [] o.op = "remove" -> {}
                                         [] o.op = "replace" -> o.value]

ActivatedPatch(current, o) ==                  \* defect: the merge starts from an active user
    IF o.kind = "user" THEN PatchedUser([current EXCEPT !.active = TRUE], o)
    ELSE PatchedGroup(current, o)
Patched(current, o) ==
    IF o.kind = "user" THEN PatchedUser(current, o) ELSE PatchedGroup(current, o)

\* What an operation says of each attribute and of each member.
Meant(x, o) ==
    IF o.kind = "user"
    THEN [active |-> CASE o.path = "active" -> o.value [] o.path = "none" -> o.value.active
                       [] OTHER -> x.active,
          name   |-> CASE o.path = "name" -> o.value [] o.path = "none" -> o.value.name
                       [] OTHER -> x.name]
    ELSE [members |-> IF o.path = "name" THEN x.members
                      ELSE IF o.path = "filter" THEN {m \in x.members : m # o.value}
                      ELSE {m \in Member : CASE o.op = "add" -> m \in x.members \/ m \in o.value
                                             [] o.op = "remove" -> FALSE
                                             [] o.op = "replace" -> m \in o.value},
          name    |-> IF o.path = "name" THEN o.value ELSE x.name]

\* Operations that the merge takes for something else than they say.
Misread(o) ==
    \/ o.kind = "user" /\ o.op = "remove"
    \/ o.kind = "group" /\ o.path = "none" /\ o.op # "replace"

-----------------------------------------------------------------------------
(* Requests.                                                               *)

Begin(r, job) == work[r] = None /\ valid /\ work' = [work EXCEPT ![r] = job]
Done(r) == work' = [work EXCEPT ![r] = None]
At(r, pc) == work[r] # None /\ work[r].pc = pc

\* resolveScimOrganization answers before anything else is awaited. A body that says nothing of
\* active makes an active user.
Authorize(r) ==
    /\ \/ \E pc \in {"create", "replace"}, i \in Input : Begin(r, [pc |-> pc, input |-> i])
       \/ Begin(r, [pc |-> "deactivate"])
       \/ \E o \in Operation : o.kind = kind /\ Begin(r, [pc |-> "read", o |-> o])
    /\ UNCHANGED <<valid, kind, resource, asked, exempt>>

\* POST: onScimUserCreate and onScimGroupCreate, of an application that refuses what it has.
Create(r) ==
    /\ At(r, "create") /\ Done(r)
    /\ IF resource # None THEN UNCHANGED <<resource, asked>>
       ELSE resource' = work[r].input /\ asked' = work[r].input
    /\ UNCHANGED <<valid, kind, exempt>>
CreateUser(r) == kind = "user" /\ Create(r)
CreateGroup(r) == kind = "group" /\ Create(r)

\* PUT: the hook answers undefined for what it does not know. What it replaces is settled again.
Replace(r) ==
    /\ At(r, "replace") /\ Done(r)
    /\ IF resource = None THEN UNCHANGED <<resource, asked, exempt>>
       ELSE resource' = work[r].input /\ asked' = work[r].input /\ exempt' = FALSE
    /\ UNCHANGED <<valid, kind>>
ReplaceUser(r) == kind = "user" /\ Replace(r)
ReplaceGroup(r) == kind = "group" /\ Replace(r)

\* PATCH reads; without the resource it is not found.
ReadCurrent(r) ==
    /\ At(r, "read")
    /\ IF resource = None THEN Done(r)
       ELSE work' = [work EXCEPT ![r] = [pc |-> "write", o |-> work[r].o, current |-> resource]]
    /\ UNCHANGED <<valid, kind, resource, asked, exempt>>

\* ... and replaces the whole by the merge of what it read.
WritePatched(r) ==
    /\ At(r, "write") /\ Done(r)
    /\ IF resource = None THEN UNCHANGED <<resource, asked, exempt>>
       ELSE /\ resource' = Patched(work[r].current, work[r].o)
            /\ asked' = Meant(asked, work[r].o)
            /\ exempt' = (exempt \/ resource # work[r].current \/ Misread(work[r].o))
    /\ UNCHANGED <<valid, kind>>
PatchUser(r) == kind = "user" /\ (ReadCurrent(r) \/ WritePatched(r))
PatchGroup(r) == kind = "group" /\ (ReadCurrent(r) \/ WritePatched(r))

\* DELETE: the application deactivates the user, and deletes the group.
DeactivateUser(r) ==
    LET Deactivated(x) == IF x = None THEN None ELSE [x EXCEPT !.active = FALSE] IN
    /\ kind = "user" /\ At(r, "deactivate") /\ Done(r)
    /\ resource' = Deactivated(resource) /\ asked' = Deactivated(asked)
    /\ UNCHANGED <<valid, kind, exempt>>
DeleteGroup(r) ==
    /\ kind = "group" /\ At(r, "deactivate") /\ Done(r)
    /\ resource' = None /\ asked' = None
    /\ UNCHANGED <<valid, kind, exempt>>

DeleteToken == valid /\ valid' = FALSE /\ UNCHANGED <<kind, resource, work, asked, exempt>>

Next ==
    \/ DeleteToken
    \/ \E r \in Request :
        \/ Authorize(r) \/ CreateUser(r) \/ CreateGroup(r) \/ ReplaceUser(r) \/ ReplaceGroup(r)
        \/ PatchUser(r) \/ PatchGroup(r) \/ DeactivateUser(r) \/ DeleteGroup(r)

Spec == Init /\ [][Next]_vars

-----------------------------------------------------------------------------
(* Properties.                                                             *)

\* What the application keeps is what the acknowledged requests ask for, one after the other, so
\* that no PATCH of another attribute activates a user again or loses a member; the exceptions
\* are a PATCH that overlaps another write, and the operations that the merge misreads
\* (scimRoutes, applyPatch, applyGroupPatch).
KeepsWhatWasAsked == ~exempt => resource = asked

=============================================================================

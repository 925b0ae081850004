---------------------- MODULE LinkedProviderCredentials ----------------------
(***************************************************************************)
(* Credentials of linked provider accounts: grants with a refresh token of *)
(* an outside provider, the bindings that name what an application may use *)
(* of them, and the resolver that hands out access tokens, refreshing them *)
(* when they are stale, and that records the failures callers report.      *)
(*                                                                         *)
(* Three deployments: "tables" is resolver.ts over the two stores,         *)
(* "accounts" is oauthAccountResolver.ts, which keeps grant and binding in *)
(* one account row, and "locked" is coordinatedResolver.ts, where a request*)
(* is a transaction that holds the row lock of its grant.                  *)
(*                                                                         *)
(* A grant and its one binding share an id; owners, scopes and labels only *)
(* refuse a request and are the verdict of Present.  Tokens are numbered   *)
(* as the provider issues them, 0 is none; Fresh stands for a lease that   *)
(* lives as long as the caller asked.                                      *)
(***************************************************************************)
EXTENDS Naturals

CONSTANTS
    Grant,          \* ids of grants
    Request,        \* slots for requests in flight together
    None,
    Configurations, \* pairs of a deployment ("tables", "accounts" or "locked") and a failure
                    \* policy ("latch" or "record")
    MaxToken,       \* bound on the tokens a provider issues for one grant
    MaxLinks        \* bound on the authorizations of one grant

VARIABLES
    deployment, policy, \* configuration
    grants,     \* grant store
    bindings,   \* binding store: status, None when absent
    held,       \* grants a caller holds a resolved credential of
    locks,      \* grant -> the request holding its row lock
    requests,   \* requests between two steps
    honoured,   \* provider: the refresh token it accepts, 0 after consent is withdrawn
    issued,     \* provider: tokens issued so far
    links,      \* history: how often the person authorized this grant
    lost,       \* history: grants whose rotated token died with a process
    overlapped  \* history: grants two requests worked on together

vars == <<deployment, policy, grants, bindings, held, locks, requests,
          honoured, issued, links, lost, overlapped>>
config == <<deployment, policy>>
provider == <<honoured, issued>>
histories == <<links, lost, overlapped>>

GrantRow == [status : {"active", "refresh_required", "revoked", "error"},
             refresh : 0 .. MaxToken, fresh : BOOLEAN]
BindingStatus == {"active", "disconnected", "restricted"}
Code == {"unauthorized", "insufficient_scope", "other"}

Work == [pc : {"grant", "refresh", "save", "report", "save grant", "save binding",
               "save account"},
         op : {"token", "report"}, grant : Grant, code : Code \cup {None},
         row : GrantRow \cup {None}, binding : BindingStatus \cup {None}]

TypeOK ==
    /\ <<deployment, policy>> \in Configurations
    /\ grants \in [Grant -> GrantRow \cup {None}]
    /\ bindings \in [Grant -> BindingStatus \cup {None}]
    /\ held \subseteq Grant
    /\ locks \in [Grant -> Request \cup {None}]
    /\ requests \in [Request -> Work \cup {None}]
    /\ honoured \in [Grant -> 0 .. MaxToken]
    /\ issued \in [Grant -> 0 .. MaxToken]
    /\ links \in [Grant -> 0 .. MaxLinks]
    /\ lost \subseteq Grant /\ overlapped \subseteq Grant

Init ==
    /\ \E c \in Configurations : deployment = c[1] /\ policy = c[2]
    /\ grants = [g \in Grant |-> None] /\ bindings = [g \in Grant |-> None]
    /\ held = {} /\ locks = [g \in Grant |-> None]
    /\ requests = [r \in Request |-> None]
    /\ honoured = [g \in Grant |-> 0] /\ issued = [g \in Grant |-> 0]
    /\ links = [g \in Grant |-> 0] /\ lost = {} /\ overlapped = {}

Locked == deployment = "locked"
UsableRow(row) == row # None /\ row.status \in {"active", "refresh_required"}
Usable(g) == UsableRow(grants[g])

\* getBinding; the account layout derives the binding from the account's status.
AccountBinding(row) ==
    IF row = None THEN None
    ELSE IF row.status \in {"revoked", "error"} THEN "disconnected" ELSE "active"
Binding(g) == IF deployment = "accounts" THEN AccountBinding(grants[g]) ELSE bindings[g]

\* saveGrant over the row that is there: a missing refresh token keeps the stored one.
Upserted(old, row) ==
    IF row.refresh = 0 /\ old # None THEN [row EXCEPT !.refresh = old.refresh] ELSE row
\* accountWithGrant replaces the token, too.  An account that is gone is an error.
Saved(g, row) ==
    IF deployment # "accounts" THEN [grants EXCEPT ![g] = Upserted(@, row)]
    ELSE IF grants[g] = None THEN grants ELSE [grants EXCEPT ![g] = row]

------------------------------------------------------------------------------
(* The person and the provider *)

\* The person authorizes, and the application saves the tokens as the README asks: under
\* the row lock, and never resurrecting the id of a grant that was removed.  A provider may leave
\* out the refresh token when it has given one before.
Link(g) ==
    /\ links[g] < MaxLinks /\ (Locked => locks[g] = None)
    /\ links[g] = 0 \/ grants[g] # None
    /\ \/ /\ issued[g] < MaxToken
          /\ issued' = [issued EXCEPT ![g] = @ + 1]
          /\ honoured' = [honoured EXCEPT ![g] = issued'[g]]
          /\ grants' = [grants EXCEPT ![g] = Upserted(@,
                [status |-> "active", refresh |-> issued'[g], fresh |-> TRUE])]
       \/ /\ grants[g] # None /\ honoured[g] # 0 /\ grants[g].refresh = honoured[g]
          /\ grants' = [grants EXCEPT ![g] = Upserted(@,
                [status |-> "active", refresh |-> 0, fresh |-> TRUE])]
          /\ UNCHANGED provider
    /\ bindings' = [bindings EXCEPT ![g] = IF deployment = "accounts" THEN None ELSE "active"]
    /\ links' = [links EXCEPT ![g] = @ + 1]
    /\ lost' = lost \ {g}
    /\ overlapped' = IF \E r \in Request : requests[r] # None /\ requests[r].grant = g
                     THEN overlapped \cup {g} ELSE overlapped
    /\ UNCHANGED <<config, held, locks, requests>>

\* removeGrant takes the row lock, then deletes bindings and grant.
Disconnect(g) ==
    /\ grants[g] # None /\ (Locked => locks[g] = None)
    /\ grants' = [grants EXCEPT ![g] = None]
    /\ bindings' = [bindings EXCEPT ![g] = None]
    /\ UNCHANGED <<config, held, locks, requests, provider, histories>>

\* Consent withdrawn at the provider: nothing tells the application.
Withdraw(g) ==
    /\ honoured[g] # 0
    /\ honoured' = [honoured EXCEPT ![g] = 0]
    /\ UNCHANGED <<config, grants, bindings, held, locks, requests, issued, histories>>

\* The access token gets too old for the next caller.
LeaseExpires(g) ==
    /\ grants[g] # None /\ grants[g].fresh
    /\ grants' = [grants EXCEPT ![g].fresh = FALSE]
    /\ UNCHANGED <<config, bindings, held, locks, requests, provider, histories>>

------------------------------------------------------------------------------
(* Requests *)

\* resolveCredential: an active binding whose grant is usable.
ResolveCredential(g) ==
    /\ g \notin held /\ Binding(g) = "active" /\ Usable(g)
    /\ held' = held \cup {g}
    /\ UNCHANGED <<config, grants, bindings, locks, requests, provider, histories>>

Busy(g) == {r \in Request : requests[r] # None /\ requests[r].grant = g}

\* run: SELECT ... FOR UPDATE waits for the lock; there is none to take without a row.
TakenUnlocked(r, g) == locks                             \* defect: row read without a lock
Taken(r, g) ==
    IF Locked /\ grants[g] # None THEN [locks EXCEPT ![g] = r] ELSE locks

Begin(r, g, op, pc, code, binding) ==
    /\ requests[r] = None /\ g \in held /\ (Locked => locks[g] = None)
    /\ locks' = Taken(r, g)
    /\ requests' = [requests EXCEPT ![r] = [pc |-> pc, op |-> op, grant |-> g, code |-> code,
                                            row |-> None, binding |-> binding]]
    /\ overlapped' = IF Busy(g) # {} THEN overlapped \cup {g} ELSE overlapped
    /\ UNCHANGED <<config, grants, bindings, held, provider, links, lost>>

\* getAccessToken reads the binding first.
GetAccessToken(r, g) == Binding(g) = "active" /\ Begin(r, g, "token", "grant", None, None)
ReportFailure(r, g, code) == Begin(r, g, "report", "report", code, None)

Released(r) == [g \in Grant |-> IF locks[g] = r THEN None ELSE locks[g]]
Goes(r, pc, row, binding) ==
    requests' = [requests EXCEPT ![r] = [@ EXCEPT !.pc = pc, !.row = row, !.binding = binding]]
Done(r) == requests' = [requests EXCEPT ![r] = None] /\ locks' = Released(r)
At(r, pc) == requests[r] # None /\ requests[r].pc = pc

\* getGrant: refused unless usable; a fresh lease of an active grant is handed out as it
\* is, anything else is refreshed.
LoadGrant(r) ==
    LET row == grants[requests[r].grant] IN
    /\ At(r, "grant")
    /\ IF UsableRow(row) /\ (row.status = "refresh_required" \/ ~row.fresh)
       THEN Goes(r, "refresh", row, None) /\ UNCHANGED locks
       ELSE Done(r)
    /\ UNCHANGED <<config, grants, bindings, held, provider, histories>>

\* refreshAccessTokenLease: what the exchange leaves in the row.
Renewed(row, token) == [row EXCEPT !.status = "active", !.refresh = token, !.fresh = TRUE]
\* credentialRefreshError and the catch of refreshAndRecord.
FailedOpen(row, recovery) == row                         \* defect: failure not recorded
Failed(row, recovery) ==
    [row EXCEPT !.status = IF recovery = "reconnect" THEN "revoked" ELSE "refresh_required"]

RefreshFails(r) ==
    \* No refresh token is left, or the provider is not configured for renewal.
    \/ requests[r].row.refresh = 0 /\ Goes(r, "save", Failed(requests[r].row, "reconnect"), None)
       /\ UNCHANGED provider
    \/ requests[r].row.refresh # 0
       /\ Goes(r, "save", Failed(requests[r].row, "configuration"), None) /\ UNCHANGED provider

\* The provider refuses a token it does not honour: invalid_grant.
RefreshRefused(r) ==
    /\ requests[r].row.refresh \notin {0, honoured[requests[r].grant]}
    /\ Goes(r, "save", Failed(requests[r].row, "reconnect"), None)
    /\ UNCHANGED provider

\* The provider honours the token and may rotate it.  The answer arrives, or the
\* connection breaks (retry), or twenty seconds pass (outcome unknown: reconnect).
RefreshHonoured(r) ==
    LET g == requests[r].grant
        row == requests[r].row IN
    /\ row.refresh # 0 /\ row.refresh = honoured[g]
    /\ \/ UNCHANGED provider
       \/ /\ issued[g] < MaxToken
          /\ issued' = [issued EXCEPT ![g] = @ + 1]
          /\ honoured' = [honoured EXCEPT ![g] = issued'[g]]
    /\ \/ Goes(r, "save", Renewed(row, honoured'[g]), None)
       \/ \E recovery \in {"retry", "reconnect"} : Goes(r, "save", Failed(row, recovery), None)

Refresh(r) ==
    /\ At(r, "refresh")
    /\ RefreshFails(r) \/ RefreshRefused(r) \/ RefreshHonoured(r)
    /\ UNCHANGED <<config, grants, bindings, held, locks, histories>>

\* saveGrant, committed before the lease or the error goes to the caller.
SaveRefreshed(r) ==
    /\ At(r, "save")
    /\ grants' = Saved(requests[r].grant, requests[r].row)
    /\ Done(r)
    /\ UNCHANGED <<config, bindings, held, provider, histories>>

------------------------------------------------------------------------------
(* reportFailure: both rows are read, then both are written back. *)

ReadForReport(r) ==
    LET g == requests[r].grant IN
    /\ At(r, "report")
    /\ IF grants[g] # None /\ Binding(g) # None
       THEN Goes(r, "save grant", grants[g], Binding(g)) /\ UNCHANGED locks
       ELSE Done(r)
    /\ UNCHANGED <<config, grants, bindings, held, provider, histories>>

Fatal(code) == code = "unauthorized"     \* or revoked
NextGrant(row, code) ==
    IF policy = "latch" /\ Fatal(code) THEN [row EXCEPT !.status = "revoked"] ELSE row
NextBinding(status, code) ==
    IF policy = "record" THEN status
    ELSE IF Fatal(code) THEN "disconnected"
    ELSE IF code = "insufficient_scope" THEN "restricted" ELSE status

SaveReportedGrant(r) ==
    LET q == requests[r] IN
    /\ At(r, "save grant") /\ ~Locked
    /\ grants' = Saved(q.grant, NextGrant(q.row, q.code))
    /\ Goes(r, "save binding", None, q.binding)
    /\ UNCHANGED <<config, bindings, held, locks, provider, histories>>

SaveReportedBinding(r) ==
    LET q == requests[r] IN
    /\ At(r, "save binding") /\ deployment # "accounts"
    /\ bindings' = [bindings EXCEPT ![q.grant] = NextBinding(q.binding, q.code)]
    /\ Done(r)
    /\ UNCHANGED <<config, grants, held, provider, histories>>

\* saveBinding of the account layout reads the account and writes it back with the status
\* the binding stands for; an account that is gone is an error.
ReadAccount(r) ==
    LET q == requests[r] IN
    /\ At(r, "save binding") /\ deployment = "accounts"
    /\ IF grants[q.grant] = None THEN Done(r)
       ELSE Goes(r, "save account", grants[q.grant], q.binding) /\ UNCHANGED locks
    /\ UNCHANGED <<config, grants, bindings, held, provider, histories>>

AccountStatus(row, status) ==
    IF status = "disconnected" THEN [row EXCEPT !.status = "revoked"]
    ELSE IF status = "restricted" THEN [row EXCEPT !.status = "error"] ELSE row

SaveAccount(r) ==
    LET q == requests[r] IN
    /\ At(r, "save account")
    /\ grants' = [grants EXCEPT ![q.grant] = AccountStatus(q.row, NextBinding(q.binding, q.code))]
    /\ Done(r)
    /\ UNCHANGED <<config, bindings, held, provider, histories>>

\* The transaction of the coordinated resolver commits both rows at once.
CommitReport(r) ==
    LET q == requests[r] IN
    /\ At(r, "save grant") /\ Locked
    /\ grants' = Saved(q.grant, NextGrant(q.row, q.code))
    /\ bindings' = [bindings EXCEPT ![q.grant] = NextBinding(q.binding, q.code)]
    /\ Done(r)
    /\ UNCHANGED <<config, held, provider, histories>>

\* The process of a request dies: its transaction rolls back and its lock is free, but
\* the provider does not take a rotation back.
Crash(r) ==
    /\ requests[r] # None
    /\ Done(r)
    /\ lost' = IF At(r, "save") THEN lost \cup {requests[r].grant} ELSE lost
    /\ UNCHANGED <<config, grants, bindings, held, provider, links, overlapped>>

Next ==
    \/ \E g \in Grant : Link(g) \/ Disconnect(g) \/ Withdraw(g) \/ LeaseExpires(g)
                        \/ ResolveCredential(g)
    \/ \E r \in Request, g \in Grant :
            GetAccessToken(r, g) \/ \E code \in Code : ReportFailure(r, g, code)
    \/ \E r \in Request :
            \/ LoadGrant(r) \/ Refresh(r) \/ SaveRefreshed(r)
            \/ ReadForReport(r) \/ SaveReportedGrant(r) \/ SaveReportedBinding(r)
            \/ ReadAccount(r) \/ SaveAccount(r) \/ CommitReport(r) \/ Crash(r)

Spec == Init /\ [][Next]_vars

------------------------------------------------------------------------------
Quiet(g) == Busy(g) = {}
Coordinated(g) == Locked \/ g \notin overlapped

\* An active grant holds the refresh token its provider will accept: no renewal loses a
\* rotation, not even one whose answer never came ("Fail closed instead of racing another
\* refresh with the old refresh token").  Promised with the row lock, and without it where
\* no two requests overlapped; not across the death of a process in the middle.
ActiveMeansHonoured ==
    \A g \in Grant :
        /\ Quiet(g) /\ Coordinated(g) /\ g \notin lost
        /\ grants[g] # None /\ grants[g].status = "active" /\ honoured[g] # 0
        => grants[g].refresh = honoured[g]

\* What was disconnected, revoked by the provider's refusal or latched by a report comes
\* back only when the person authorizes again, however long a request with an older row
\* is under way.
DeadUntilLinked ==
    [][\A g \in Grant : (Locked /\ ~Usable(g) /\ Usable(g)') => links'[g] = links[g] + 1]_vars
==============================================================================

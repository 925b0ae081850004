------------------------------- MODULE Sessions -------------------------------
(***************************************************************************)
(* Registered sessions: the session store (inMemoryStore.ts, redisStore.ts,*)
(* neonStore.ts) and the requests that work on it.  The store has no       *)
(* transaction and no compare-and-set: a request reads some rows, awaits   *)
(* hooks or a provider, and then sets and removes rows one by one.  Every  *)
(* request is that shape here, a task with rows to read, rows to set and   *)
(* ids to remove; each store call is an action.                            *)
(*                                                                         *)
(* A session keeps a snapshot of its user, here the version of the         *)
(* application's user record it was taken from.  Unregistered sessions and *)
(* impersonation are left out.                                             *)
(***************************************************************************)
EXTENDS Naturals, FiniteSets

CONSTANTS
    SessionId,      \* session ids; each is generated at most once
    User,
    Browser,        \* user agents with a user_session_id cookie
    Task,           \* slots for requests in flight together
    None,
    Deployments,    \* what applications use: sets of operations
    Duration,       \* sessionDurationMs, in clock ticks
    MaxTime,        \* bound of the clock
    MaxVersion,     \* bound on changes to one user record
    MaxSessions     \* maxSessions of the cleanup

Row == [user : User, version : 0 .. MaxVersion, expiresAt : 0 .. MaxTime + Duration]

ASSUME SessionsAssumption ==
    /\ UNION Deployments \subseteq {"login", "passkey", "signout", "revoke", "revoke one",
                                   "refresh", "renew", "link", "status", "cleanup", "sweep"}
    /\ Duration \in Nat /\ MaxTime \in Nat /\ MaxVersion \in Nat
    /\ MaxSessions \in Nat \ {0}
    /\ None \notin SessionId \cup User \cup Row

VARIABLES
    operations, \* the operations of this deployment
    now,        \* Date.now()
    account,    \* the application's own user records: user -> version
    store,      \* session id -> row, None when absent
    cookie,     \* browser -> the session id it holds
    tasks,      \* requests between two store calls
    generated,  \* history: session ids generated so far
    ended,      \* history: sessions a completed sign-out or revocation covered
    evicted,    \* history: sessions the cleanup chose as overflow
    pushed      \* history: user -> the last version pushed by a refresh that no other
                \* request overlapped

vars == <<operations, now, account, store, cookie, tasks, generated, ended, evicted, pushed>>

Entry == [id : SessionId, row : Row]

Work == [op : operations, phase : {"read", "write"}, browser : Browser \cup {None},
         user : User \cup {None}, own : SessionId \cup {None}, target : SessionId \cup {None},
         version : 0 .. MaxVersion, began : 0 .. MaxTime, alone : BOOLEAN,
         reads : SUBSET SessionId, found : SUBSET Entry,
         sets : SUBSET Entry, removals : SUBSET SessionId,
         ends : SUBSET SessionId, reply : SessionId \cup {None}]

TypeOK ==
    /\ operations \in Deployments
    /\ now \in 0 .. MaxTime
    /\ account \in [User -> 0 .. MaxVersion]
    /\ store \in [SessionId -> Row \cup {None}]
    /\ cookie \in [Browser -> SessionId \cup {None}]
    /\ tasks \in [Task -> Work \cup {None}]
    /\ generated \subseteq SessionId /\ ended \subseteq SessionId
    /\ evicted \subseteq SessionId
    /\ pushed \in [User -> 0 .. MaxVersion]

Present(id) == store[id] # None
Listed == {id \in SessionId : Present(id)}
Held(b) == IF cookie[b] = None THEN {} ELSE {cookie[b]}
Ids(entries) == {e.id : e \in entries}

Init ==
    /\ operations \in Deployments
    /\ now = 0
    /\ account = [u \in User |-> 0]
    /\ store = [id \in SessionId |-> None]
    /\ cookie = [b \in Browser |-> None]
    /\ tasks = [t \in Task |-> None]
    /\ generated = {} /\ ended = {} /\ evicted = {}
    /\ pushed = [u \in User |-> 0]

------------------------------------------------------------------------------
(* A request begins: what it is going to read.  A request for a user carries the *)
(* user record the application gave it.                                    *)

Begin(t, op, b, u, target, reads) ==
    LET others == {o \in Task : tasks[o] # None}
        task == [op |-> op, phase |-> "read", browser |-> b, user |-> u,
                 own |-> IF b = None THEN None ELSE cookie[b], target |-> target,
                 version |-> IF u = None THEN 0 ELSE account'[u],
                 began |-> IF op = "cleanup" THEN now ELSE 0,
                 alone |-> op = "refresh" /\ others = {}, reads |-> reads, found |-> {}, sets |-> {},
                 removals |-> {}, ends |-> {}, reply |-> None] IN
    /\ op \in operations
    /\ tasks[t] = None
    /\ tasks' = [o \in Task |-> IF o = t THEN task
                               ELSE IF o \in others THEN [tasks[o] EXCEPT !.alone = FALSE]
                               ELSE None]
    /\ UNCHANGED <<operations, now, store, cookie, generated, ended, evicted, pushed>>

\* createAccountSession, and promoteToSession that keeps the previous session.
BeginSignIn(t, op, b, u) ==
    /\ op \in {"login", "passkey"} /\ UNCHANGED account
    /\ Begin(t, op, b, u, cookie[b], Held(b))

\* The sign-out route, POST /oauth2/tokens, the callback of a provider that a signed-in user
\* links, and any request that loads the session.
BeginOwn(t, op, b) ==
    /\ op \in {"signout", "renew", "link", "status"} /\ cookie[b] # None /\ UNCHANGED account
    /\ Begin(t, op, b, None, cookie[b], Held(b))

\* DELETE /auth/sessions/:id
BeginRevokeOne(t, b, id) ==
    /\ cookie[b] # None /\ id \in generated /\ UNCHANGED account
    /\ Begin(t, "revoke one", b, None, id, Held(b) \cup {id})

\* revokeUserSessions and, "right after the DB write", refreshUserSessions: both read
\* every listed session.  The load-all cleanup does so too.
BeginRevoke(t, u) == UNCHANGED account /\ Begin(t, "revoke", None, u, None, Listed)
BeginRefresh(t, u) ==
    /\ account[u] < MaxVersion
    /\ account' = [account EXCEPT ![u] = @ + 1]
    /\ Begin(t, "refresh", None, u, None, Listed)
BeginCleanup(t) == UNCHANGED account /\ Begin(t, "cleanup", None, None, None, Listed)

\* getSession of one id.
Read(t, id) ==
    /\ tasks[t] # None /\ tasks[t].phase = "read" /\ id \in tasks[t].reads
    /\ tasks' = [tasks EXCEPT
            ![t].reads = @ \ {id},
            ![t].found = IF Present(id) THEN @ \cup {[id |-> id, row |-> store[id]]} ELSE @]
    /\ UNCHANGED <<operations, now, account, store, cookie, generated, ended, evicted, pushed>>

------------------------------------------------------------------------------
(* The request has read, and awaited what else it needs: what it will write. *)

Plan(t, sets, removals, ends, reply) ==
    tasks' = [tasks EXCEPT ![t] =
        [@ EXCEPT !.phase = "write", !.own = None, !.target = None, !.began = 0, !.found = {},
                  !.sets = sets, !.removals = removals, !.ends = ends, !.reply = reply]]

ExpiresAtInSeconds == (now + Duration) * 1000           \* defect: units mixed
ExpiresAt == now + Duration

\* loadSessionFromSource: an expired row is not found, and is removed.
ExpiredEarly(row, time) == row.expiresAt <= time        \* defect: one tick early
Expired(row, time) == row.expiresAt < time

\* promoteToSession: a new id for the user; the compatibility layer writes the new
\* row and also the previous one, exactly as read, unless it is to be revoked.
RevokesNothing(task) == {}                              \* defect: previous id kept
Revokes(task) == IF task.op = "login" THEN Ids(task.found) ELSE {}

ReusedId(task, id) == id = task.target \/ id \notin generated   \* defect: not rotated
NewId(task, id) == id \notin generated

Promote(t, id) ==
    LET task == tasks[t]
        row == [user |-> task.user, version |-> task.version, expiresAt |-> ExpiresAt] IN
    /\ task.op \in {"login", "passkey"}
    /\ NewId(task, id)
    /\ Plan(t, {[id |-> id, row |-> row]} \cup {e \in task.found : e.id \notin Revokes(task)},
            Revokes(task), Revokes(task), id)
    /\ generated' = generated \cup {id}
    /\ UNCHANGED evicted

\* Sign-out removes the session of the cookie whether or not it was found.
Signout(t) ==
    /\ tasks[t].op = "signout"
    /\ Plan(t, {}, {tasks[t].target}, {tasks[t].target}, None)
    /\ UNCHANGED <<generated, evicted>>

\* The row of the caller's cookie must be live, and the target's of the same user.
RevokeOne(t) ==
    LET task == tasks[t] IN
    /\ task.op = "revoke one"
    /\ \E own, target \in task.found :
          /\ own.id = task.own /\ ~Expired(own.row, now)
          /\ target.id = task.target /\ target.row.user = own.row.user
    /\ Plan(t, {}, {task.target}, {task.target}, None)
    /\ UNCHANGED <<generated, evicted>>

OfUser(task) == {e \in task.found : e.row.user = task.user}

\* One session may be excepted, the one the change was made from.
RevokeAll(t, except) ==
    LET ids == Ids(OfUser(tasks[t])) \ {except} IN
    /\ tasks[t].op = "revoke"
    /\ Plan(t, {}, ids, ids, None)
    /\ UNCHANGED <<generated, evicted>>

RefreshedOwn(task) ==                                   \* defect: one session only
    {[e EXCEPT !.row.version = task.version] : e \in
        {x \in OfUser(task) : \A y \in OfUser(task) : x.row.expiresAt >= y.row.expiresAt}}
Refreshed(task) == {[e EXCEPT !.row.version = task.version] : e \in OfUser(task)}

RefreshAll(t) ==
    /\ tasks[t].op = "refresh"
    /\ Plan(t, Refreshed(tasks[t]), {}, {}, None)
    /\ UNCHANGED <<generated, evicted>>

\* The provider answered with new tokens: the row read gets a new expiry.
Renew(t) ==
    /\ tasks[t].op = "renew"
    /\ \E e \in tasks[t].found :
          /\ ~Expired(e.row, now)
          /\ Plan(t, {[e EXCEPT !.row.expiresAt = ExpiresAt]}, {}, {}, None)
    /\ UNCHANGED <<generated, evicted>>

\* The linking callback persists the row it read before its hook ran, whatever its expiry.
Link(t) ==
    /\ tasks[t].op = "link"
    /\ \E e \in tasks[t].found : Plan(t, {e}, {}, {}, None)
    /\ UNCHANGED <<generated, evicted>>

RemoveExpired(t) ==
    /\ tasks[t].op \in {"status", "renew", "revoke one"}
    /\ \E e \in tasks[t].found :
          /\ e.id = tasks[t].own /\ Expired(e.row, now)
          /\ Plan(t, {}, {e.id}, {}, None)
    /\ UNCHANGED <<generated, evicted>>

\* performStoreCleanup without deleteExpired: what had expired when it began, and of
\* the others the overflow, oldest expiry first.
Overflow(remaining) ==
    {over \in SUBSET remaining :
        /\ Cardinality(over) = IF Cardinality(remaining) > MaxSessions
                               THEN Cardinality(remaining) - MaxSessions ELSE 0
        /\ \A e \in over, kept \in remaining \ over : e.row.expiresAt <= kept.row.expiresAt}

CleanUp(t) ==
    LET expired == {e \in tasks[t].found : Expired(e.row, tasks[t].began)} IN
    /\ tasks[t].op = "cleanup"
    /\ \E over \in Overflow(tasks[t].found \ expired) :
          /\ Plan(t, {}, Ids(expired \cup over), {}, None)
          /\ evicted' = evicted \cup Ids(over)
    /\ UNCHANGED generated

Decide(t) ==
    /\ tasks[t] # None /\ tasks[t].phase = "read" /\ tasks[t].reads = {}
    /\ \/ \E id \in SessionId : Promote(t, id)
       \/ \E except \in SessionId \cup {None} : RevokeAll(t, except)
       \/ Signout(t) \/ RevokeOne(t) \/ RefreshAll(t)
       \/ Renew(t) \/ Link(t) \/ RemoveExpired(t) \/ CleanUp(t)
    /\ UNCHANGED <<operations, now, account, store, cookie, ended, pushed>>

------------------------------------------------------------------------------
(* The request writes, sets before removals, and answers.                  *)

Writing(t) == tasks[t] # None /\ tasks[t].phase = "write"

Set(t, e) ==
    /\ Writing(t) /\ e \in tasks[t].sets
    /\ store' = [store EXCEPT ![e.id] = e.row]
    /\ tasks' = [tasks EXCEPT ![t].sets = @ \ {e}]
    /\ UNCHANGED <<operations, now, account, cookie, generated, ended, evicted, pushed>>

Remove(t, id) ==
    /\ Writing(t) /\ tasks[t].sets = {} /\ id \in tasks[t].removals
    /\ store' = [store EXCEPT ![id] = None]
    /\ tasks' = [tasks EXCEPT ![t].removals = @ \ {id}]
    /\ UNCHANGED <<operations, now, account, cookie, generated, ended, evicted, pushed>>

\* Sign-in and sign-out answer with a cookie.
Answer(t) ==
    LET task == tasks[t] IN
    /\ Writing(t) /\ task.sets = {} /\ task.removals = {}
    /\ cookie' = IF task.op \in {"login", "passkey", "signout"}
                 THEN [cookie EXCEPT ![task.browser] = task.reply] ELSE cookie
    /\ ended' = ended \cup task.ends
    /\ pushed' = IF task.op = "refresh" /\ task.alone THEN [pushed EXCEPT ![task.user] = task.version]
                                        ELSE pushed
    /\ tasks' = [tasks EXCEPT ![t] = None]
    /\ UNCHANGED <<operations, now, account, store, generated, evicted>>

\* The request ends here: there was nothing to do, it is refused, a hook, provider or
\* store call throws, or the process dies.
Abandon(t) ==
    /\ tasks[t] # None
    /\ tasks' = [tasks EXCEPT ![t] = None]
    /\ UNCHANGED <<operations, now, account, store, cookie, generated, ended, evicted, pushed>>

\* deleteExpired, in one statement; the TTL of Redis does the same.
Sweep ==
    /\ "sweep" \in operations
    /\ store' = [id \in SessionId |->
            IF Present(id) /\ Expired(store[id], now) THEN None ELSE store[id]]
    /\ UNCHANGED <<operations, now, account, cookie, tasks, generated, ended, evicted, pushed>>

Tick ==
    /\ now < MaxTime
    /\ now' = now + 1
    /\ UNCHANGED <<operations, account, store, cookie, tasks, generated, ended, evicted, pushed>>

Start(t) ==
    \/ \E b \in Browser, u \in User, op \in operations : BeginSignIn(t, op, b, u)
    \/ \E b \in Browser, op \in operations : BeginOwn(t, op, b)
    \/ \E b \in Browser, id \in SessionId : BeginRevokeOne(t, b, id)
    \/ \E u \in User : BeginRevoke(t, u) \/ BeginRefresh(t, u)
    \/ BeginCleanup(t)

Advance(t) ==
    \/ \E id \in SessionId : Read(t, id) \/ Remove(t, id)
    \/ Decide(t)
    \/ Writing(t) /\ \E e \in tasks[t].sets : Set(t, e)
    \/ Answer(t)
    \/ Abandon(t)

Next == (\E t \in Task : Start(t) \/ Advance(t)) \/ Sweep \/ Tick

Spec == Init /\ [][Next]_vars

------------------------------------------------------------------------------
\* A session that a sign-out, a rotating sign-in or a revocation has answered for is
\* gone and does not come back.
NoneResurrected == \A id \in ended : ~Present(id)

\* A session that was ended, is gone, and whose row no request in flight has.
Gone(id) ==
    /\ id \in ended /\ ~Present(id)
    /\ \A t \in Task : tasks[t] # None => id \notin Ids(tasks[t].found \cup tasks[t].sets)

\* setSession is an upsert, so a request that rewrites a row it read earlier can bring
\* one back.  Where no request does, none comes back; and elsewhere, none does once the
\* requests that were in flight when it ended are over, however often its old cookie or
\* id is presented.
EndedStaysEnded ==
    /\ [](operations \cap {"passkey", "refresh", "renew", "link"} = {} => NoneResurrected)
    /\ [][\A id \in SessionId : Gone(id) => Gone(id)']_vars

\* A session leaves the store only because it expired, was evicted, or a request that
\* ends it is at work (loadSessionFromSource, performStoreCleanup), where expiries are
\* not extended between the read of an expired row and its removal.
LiveSessionsSurvive ==
    [][\A id \in SessionId :
          "renew" \notin operations /\ Present(id) /\ store'[id] = None =>
             \/ store[id].expiresAt < now
             \/ id \in evicted
             \/ \E t \in Task : tasks[t] # None /\ id \in tasks[t].ends]_vars

\* A session id never passes from one user to another, however sign-ins and the
\* rewriting of stored rows interleave (a sign-in takes a new id).
SessionKeepsUser ==
    [][\A id \in SessionId : Present(id) /\ store'[id] # None =>
          store'[id].user = store[id].user]_vars

\* "push the fresh user into every active session for that user": once a refresh that
\* no other request overlapped is done, no session of the user shows an older record,
\* whatever sessions are created or rewritten later.
PushedSnapshotStays ==
    \A id \in Listed : store[id].version >= pushed[store[id].user]

\* Rewriting a row never gives it to another user nor takes back a user record that a
\* refresh nobody overlapped had pushed; and rows and requests keep their types.
RowsStayTheirUsers == [](TypeOK /\ PushedSnapshotStays) /\ SessionKeepsUser
==============================================================================

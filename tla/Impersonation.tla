---------------------------- MODULE Impersonation ----------------------------
(***************************************************************************)
(* Administrators viewing member accounts (session/impersonation.ts).      *)
(* Starting creates a session of the member that carries a stamp: who is   *)
(* acting, in which mode, and which session to return to.  Each of start,  *)
(* change of mode and end loads sessions, awaits the application's         *)
(* authorization, writes the store, and awaits an audit record that can    *)
(* fail.  Freshness of authentication and the wording of the reason only   *)
(* refuse a request and are part of the application's verdict here.        *)
(***************************************************************************)
EXTENDS Naturals

CONSTANTS
    SessionId, User,
    Browser,        \* user agents
    BrowserUser,    \* browser -> the person at it
    Mode,           \* the modes of MODE_FLAGS, all treated alike
    Task,           \* slots for requests in flight together
    None,
    Duration,       \* sessionDurationMs of the member view, in clock ticks
    MaxTime,        \* bound of the clock and of the first sessions' expiry
    KeepsStamp      \* FALSE: the Postgres store, whose table has no such column

Stamp == [actor : User, returnTo : SessionId, mode : Mode]

Row == [user : User, expiresAt : 0 .. MaxTime + Duration, stamp : Stamp \cup {None}]

\* id and row are the session the cookie named, member is the one a start has created.
Work == [pc : {"start", "create", "write back", "start audit", "give back",
               "change", "mode", "mode audit", "end", "remove", "restore"},
         browser : Browser, id : SessionId, row : Row, user : User, mode : Mode,
         previous : Row \cup {None}, member : SessionId \cup {None},
         span : 0 .. Duration, at : 0 .. MaxTime]

ASSUME ImpersonationAssumption ==
    /\ BrowserUser \in [Browser -> User]
    /\ Duration \in Nat \ {0} /\ MaxTime \in Nat /\ KeepsStamp \in BOOLEAN
    /\ None \notin SessionId \cup Stamp \cup Work

VARIABLES
    now,        \* Date.now()
    store,      \* session id -> row, None when absent
    cookie,     \* browser -> session id
    tasks,      \* requests between two awaits
    started,    \* history: <<member session, caller's session, ticks the start took>>
    audited,    \* history: <<session, mode>> for each mode that was audited
    overlapped  \* history: sessions two changes of mode worked on together

vars == <<now, store, cookie, tasks, started, audited, overlapped>>

TypeOK ==
    /\ now \in 0 .. MaxTime
    /\ store \in [SessionId -> Row \cup {None}]
    /\ cookie \in [Browser -> SessionId \cup {None}]
    /\ tasks \in [Task -> Work \cup {None}]
    /\ started \subseteq SessionId \X SessionId \X (0 .. MaxTime)
    /\ audited \subseteq SessionId \X Mode
    /\ overlapped \subseteq SessionId

Present(id) == id # None /\ store[id] # None
Live(id) == Present(id) /\ ~(store[id].expiresAt < now)

\* Ids are random: one that ever named a session is in a cookie, a request or started.
Unused(id) ==
    /\ ~Present(id)
    /\ \A p \in started : id \notin {p[1], p[2]}
    /\ \A b \in Browser : cookie[b] # id
    /\ \A t \in Task : tasks[t] # None => id \notin {tasks[t].id, tasks[t].member}

\* What the store keeps of a row.
KeptUnmarked(row) == [row EXCEPT !.stamp = None]        \* defect: stamp dropped
Kept(row) == IF KeepsStamp THEN row ELSE [row EXCEPT !.stamp = None]

\* Every browser begins signed in as the person at it.
Init ==
    /\ now = 0
    /\ cookie \in [Browser -> SessionId]
    /\ \A b, c \in Browser : cookie[b] = cookie[c] => b = c
    /\ \E expiry \in 1 .. MaxTime :
          store = [id \in SessionId |->
              IF \E b \in Browser : cookie[b] = id
              THEN [user |-> BrowserUser[CHOOSE b \in Browser : cookie[b] = id],
                    expiresAt |-> expiry, stamp |-> None]
              ELSE None]
    /\ tasks = [t \in Task |-> None]
    /\ started = {} /\ audited = {} /\ overlapped = {}

At(t, pc) == tasks[t] # None /\ tasks[t].pc = pc
Goto(t, pc) == tasks' = [tasks EXCEPT ![t].pc = pc]
Done(t) == tasks' = [tasks EXCEPT ![t] = None]
Load(t, pc, b, u, mode) ==
    /\ tasks[t] = None
    /\ tasks' = [tasks EXCEPT ![t] =
           [pc |-> pc, browser |-> b, id |-> cookie[b], row |-> store[cookie[b]],
            user |-> u, mode |-> mode, previous |-> None, member |-> None,
            span |-> 0, at |-> 0]]
    /\ UNCHANGED <<now, store, cookie, started, audited>>

------------------------------------------------------------------------------
(* startImpersonation                                                      *)

MayStartNested(row, u) == row.user # u                  \* defect: nesting unchecked
MayStart(row, u) == row.stamp = None /\ row.user # u

Start(t, b, u, mode) ==
    /\ Live(cookie[b]) /\ MayStart(store[cookie[b]], u)
    /\ Load(t, "start", b, u, mode)
    /\ UNCHANGED overlapped

Least(m, n) == IF m < n THEN m ELSE n

\* How long the member's session is to last: no longer than the caller's has left.
MemberSpanOwn(caller) == Duration                       \* defect: caller's ignored
MemberSpan(caller) == Least(Duration, caller.expiresAt - now)

ExpiryInSeconds(span) == (now + span) * 1000            \* defect: units mixed
Expiry(span) == now + span

\* Authorized, and the row loaded has not expired meanwhile: the span is fixed, and
\* promoteToSession reads the session of the cookie again.
ReadPrevious(t) ==
    /\ At(t, "start") /\ tasks[t].row.expiresAt > now
    /\ tasks' = [tasks EXCEPT ![t].pc = "create", ![t].previous = store[tasks[t].id],
                              ![t].span = MemberSpan(tasks[t].row), ![t].at = now]
    /\ UNCHANGED <<now, store, cookie, started, audited, overlapped>>

\* The compatibility layer writes the new row, and the previous one back beside it: two calls
\* that are awaited together, so either may come first.
Member(t) ==
    [user |-> tasks[t].user, expiresAt |-> Expiry(tasks[t].span),
     stamp |-> [actor |-> tasks[t].row.user, returnTo |-> tasks[t].id, mode |-> tasks[t].mode]]

CreateMember(t, id) ==
    /\ At(t, "create")
    /\ Unused(id)
    /\ store' = [store EXCEPT ![id] = Kept(Member(t))]
    /\ started' = started \cup {<<id, tasks[t].id, now - tasks[t].at>>}
    /\ tasks' = [tasks EXCEPT ![t].member = id, ![t].span = 0, ![t].at = 0,
                     ![t].pc = IF tasks[t].previous = None THEN "start audit" ELSE "write back"]
    /\ UNCHANGED <<now, cookie, audited, overlapped>>

WriteBack(t) ==
    /\ At(t, "create") \/ At(t, "write back")
    /\ tasks[t].previous # None
    /\ store' = [store EXCEPT ![tasks[t].id] = Kept(tasks[t].previous)]
    /\ tasks' = [tasks EXCEPT ![t].previous = None,
                              ![t].pc = IF @ = "create" THEN "create" ELSE "start audit"]
    /\ UNCHANGED <<now, cookie, started, audited, overlapped>>

StartAudited(t) ==
    LET task == tasks[t] IN
    /\ At(t, "start audit")
    /\ audited' = audited \cup {<<task.member, task.mode>>}
    /\ cookie' = [cookie EXCEPT ![task.browser] = task.member]
    /\ Done(t)
    /\ UNCHANGED <<now, store, started, overlapped>>

\* The member's session is removed, and then the cookie of the start is put back, whatever the
\* browser holds by then.
KeptOnFailure(id) == store                              \* defect: session left behind
RolledBack(id) == [store EXCEPT ![id] = None]

StartUnaudited(t) ==
    /\ At(t, "start audit")
    /\ store' = RolledBack(tasks[t].member)
    /\ Goto(t, "give back")
    /\ UNCHANGED <<now, cookie, started, audited, overlapped>>

RestoreCookie(t) ==
    /\ At(t, "give back")
    /\ cookie' = [cookie EXCEPT ![tasks[t].browser] = tasks[t].id]
    /\ Done(t)
    /\ UNCHANGED <<now, store, started, audited, overlapped>>

------------------------------------------------------------------------------
(* changeImpersonationMode                                                 *)

\* Two reads: the member view the cookie names, and then the original actor's own session, which
\* must still be live.
ActorPresent(stamp) ==
    /\ Live(stamp.returnTo)
    /\ store[stamp.returnTo].stamp = None
    /\ store[stamp.returnTo].user = stamp.actor

ChangeMode(t, b, mode) ==
    LET row == store[cookie[b]] IN
    /\ Live(cookie[b]) /\ row.stamp # None
    /\ Load(t, "change", b, row.user, mode)
    /\ overlapped' = IF \E o \in Task : tasks[o] # None /\ tasks[o].id = cookie[b]
                                      /\ tasks[o].pc \in {"change", "mode", "mode audit"}
                     THEN overlapped \cup {cookie[b]} ELSE overlapped

ReadActor(t) ==
    /\ At(t, "change") /\ ActorPresent(tasks[t].row.stamp) /\ Goto(t, "mode")
    /\ UNCHANGED <<now, store, cookie, started, audited, overlapped>>

InMode(row, mode) == Kept([row EXCEPT !.stamp.mode = mode])

SetMode(t) ==
    LET task == tasks[t] IN
    /\ At(t, "mode")
    /\ store' = [store EXCEPT ![task.id] = InMode(task.row, task.mode)]
    /\ Goto(t, "mode audit")
    /\ UNCHANGED <<now, cookie, started, audited, overlapped>>

ModeAudited(t) ==
    /\ At(t, "mode audit")
    /\ audited' = audited \cup {<<tasks[t].id, tasks[t].mode>>}
    /\ Done(t)
    /\ UNCHANGED <<now, store, cookie, started, overlapped>>

ModeUnaudited(t) ==
    /\ At(t, "mode audit")
    /\ store' = [store EXCEPT ![tasks[t].id] = Kept(tasks[t].row)]
    /\ Done(t)
    /\ UNCHANGED <<now, cookie, started, audited, overlapped>>

------------------------------------------------------------------------------
(* endImpersonation: audited first, also for an expired member session.    *)

End(t, b) ==
    /\ Present(cookie[b]) /\ store[cookie[b]].stamp # None
    /\ Load(t, "end", b, store[cookie[b]].user, store[cookie[b]].stamp.mode)
    /\ UNCHANGED overlapped

EndAudited(t) ==
    /\ At(t, "end") /\ Goto(t, "remove")
    /\ UNCHANGED <<now, store, cookie, started, audited, overlapped>>

RemoveMember(t) ==
    /\ At(t, "remove")
    /\ store' = [store EXCEPT ![tasks[t].id] = None]
    /\ Goto(t, "restore")
    /\ UNCHANGED <<now, cookie, started, audited, overlapped>>

\* Back to the actor's session if it is still valid; an expired one is removed.
Restore(t) ==
    LET task == tasks[t]
        prior == task.row.stamp.returnTo IN
    /\ At(t, "restore")
    /\ cookie' = [cookie EXCEPT ![task.browser] = IF Live(prior) THEN prior ELSE None]
    /\ store' = IF Present(prior) /\ ~Live(prior)
                THEN [store EXCEPT ![prior] = None] ELSE store
    /\ Done(t)
    /\ UNCHANGED <<now, started, audited, overlapped>>

------------------------------------------------------------------------------
\* A session is revoked, signed out elsewhere, or removed because it expired.
RemoveSession(id) ==
    /\ Present(id)
    /\ store' = [store EXCEPT ![id] = None]
    /\ UNCHANGED <<now, cookie, tasks, started, audited, overlapped>>

\* The request is refused before it wrote anything, or the audit of the end fails.
Refused(t) ==
    /\ \E pc \in {"start", "change", "mode", "end"} : At(t, pc)
    /\ Done(t)
    /\ UNCHANGED <<now, store, cookie, started, audited, overlapped>>

Tick ==
    /\ now < MaxTime
    /\ now' = now + 1
    /\ UNCHANGED <<store, cookie, tasks, started, audited, overlapped>>

Request(t) ==
    \E b \in Browser :
        \/ \E u \in User, mode \in Mode : Start(t, b, u, mode)
        \/ \E mode \in Mode : ChangeMode(t, b, mode)
        \/ End(t, b)

Progress(t) ==
    \/ ReadPrevious(t) \/ \E id \in SessionId : CreateMember(t, id)
    \/ WriteBack(t) \/ StartAudited(t) \/ StartUnaudited(t) \/ RestoreCookie(t)
    \/ ReadActor(t) \/ SetMode(t) \/ ModeAudited(t) \/ ModeUnaudited(t)
    \/ EndAudited(t) \/ RemoveMember(t) \/ Restore(t)
    \/ Refused(t)

Next ==
    \/ \E t \in Task : Request(t) \/ Progress(t)
    \/ \E id \in SessionId : RemoveSession(id)
    \/ Tick

Spec == Init /\ [][Next]_vars

------------------------------------------------------------------------------
\* "requires a live, non-guest, non-impersonated actor session": a member view is
\* never started from within a member view.
NeverNested == \A p, q \in started : p[1] # q[2]

\* Whoever holds a session of someone else holds one stamped with their own name.
ActingIsMarked ==
    \A b \in Browser : LET id == cookie[b] IN
        Present(id) /\ store[id].user # BrowserUser[b] =>
            store[id].stamp # None /\ store[id].stamp.actor = BrowserUser[b]

\* Whoever holds a session of someone else holds one stamped with their own name, in
\* rows and requests of their types.
ViewsAreMarked == TypeOK /\ ActingIsMarked

\* A member view ends no later than the session it was started from, also after its
\* row has been rewritten by changes of mode; the time its start spent awaiting the
\* store is the only thing added.
NeverOutlivesActor ==
    \A p \in started :
        Present(p[1]) /\ Present(p[2]) =>
            store[p[1]].expiresAt <= store[p[2]].expiresAt + p[3]

\* "Mode changes are audited and rolled back if the audit write fails": a member view
\* no request is working on is in a mode that was audited.  The row put back is the one
\* read before, so this is promised only where changes of mode did not overlap.
ModesAreAudited ==
    \A id \in SessionId \ overlapped :
        /\ Present(id) /\ store[id].stamp # None
        /\ \A t \in Task : tasks[t] # None => id \notin {tasks[t].id, tasks[t].member}
        => <<id, store[id].stamp.mode>> \in audited
==============================================================================

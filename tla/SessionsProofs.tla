---------------------------- MODULE SessionsProofs ----------------------------
(***************************************************************************)
(* Proofs about Sessions, for every number of sessions, users, browsers    *)
(* and requests in flight together, and every set of operations an         *)
(* application uses.                                                       *)
(***************************************************************************)
EXTENDS Sessions, TLAPS

Runs(t) == tasks[t] # None
Knows(t) == tasks[t].found \cup tasks[t].sets

\* The rows of a session: the stored one, and those that requests have read or will write.
IsRow(id, row) ==
    \/ Present(id) /\ row = store[id]
    \/ \E t \in Task : Runs(t) /\ [id |-> id, row |-> row] \in Knows(t)

\* A request first reads, and then writes.
PhasesInOrder ==
    \A t \in Task : Runs(t) =>
        /\ tasks[t].phase = "read" => /\ tasks[t].sets = {} /\ tasks[t].removals = {}
                                      /\ tasks[t].ends = {} /\ tasks[t].reply = None
        /\ tasks[t].phase = "write" => tasks[t].reads = {} /\ tasks[t].found = {}
        /\ tasks[t].began <= now
        /\ tasks[t].op \in {"login", "passkey", "refresh"} => tasks[t].user \in User
        /\ tasks[t].op = "signout" /\ tasks[t].phase = "read" => tasks[t].target \in SessionId

\* All rows of a session are of one user.
IsOwnerOf(owner) == \A id \in SessionId, row \in Row : IsRow(id, row) => row.user = owner[id]
HasOneOwner == \E owner \in [SessionId -> User \cup {None}] : IsOwnerOf(owner)

\* Where no request extends it, all rows of a session have one expiry, and what a request
\* removes has passed it, was evicted or is to end.
IsExpiryOf(expiry) ==
    /\ \A id \in SessionId, row \in Row : IsRow(id, row) => row.expiresAt = expiry[id]
    /\ \A t \in Task : Runs(t) => \A id \in tasks[t].removals :
          id \in tasks[t].ends \/ id \in evicted \/ expiry[id] < now
HasOneExpiry == \E expiry \in [SessionId -> 0 .. MaxTime + Duration] : IsExpiryOf(expiry)

\* A session nobody has met: it was neither stored, read, handed out nor ended.
Unseen(id) ==
    /\ ~Present(id) /\ id \notin ended
    /\ \A b \in Browser : cookie[b] # id
    /\ \A t \in Task : Runs(t) =>
          /\ id \notin Ids(tasks[t].found) /\ id \notin tasks[t].ends
          /\ tasks[t].target = id => tasks[t].op = "revoke one"

\* Ids are new, and each names one sign-in.
IdsAreNew ==
    /\ \A id \in SessionId \ generated :
          /\ Unseen(id)
          /\ \A t \in Task : Runs(t) =>
                tasks[t].reply # id /\ id \notin Ids(tasks[t].sets) \cup tasks[t].removals
    /\ \A t, o \in Task : Runs(t) /\ Runs(o) /\ tasks[t].reply = tasks[o].reply
          /\ tasks[t].reply # None => t = o

\* Where no request rewrites a stored row, the row a request is to write is its sign-in's,
\* unseen until then, and what a request ends stays removed.
RewritesNothing == operations \cap {"passkey", "refresh", "renew", "link"} = {}
EndsAreFinal ==
    /\ \A t \in Task : Runs(t) => \A e \in tasks[t].sets :
          /\ tasks[t].reply = e.id /\ Unseen(e.id)
          /\ \A f \in tasks[t].sets : f = e
    /\ \A id \in ended : ~Present(id)
    /\ \A t \in Task : Runs(t) => \A id \in tasks[t].ends : id \in tasks[t].removals \/ ~Present(id)

\* No row or request shows an older user record than was pushed.
VersionsFollow ==
    /\ \A u \in User : pushed[u] <= account[u]
    /\ \A t \in Task : Runs(t) /\ tasks[t].user # None =>
          pushed[tasks[t].user] <= tasks[t].version /\ tasks[t].version <= account[tasks[t].user]
    /\ \A id \in SessionId, row \in Row : IsRow(id, row) => row.version >= pushed[row.user]

\* A refresh that no request overlaps has read every session, and is to write every one of
\* its user that shows an older record.
RefreshAlone ==
    \A t \in Task : Runs(t) /\ tasks[t].alone =>
        /\ tasks[t].op = "refresh" /\ tasks[t].user \in User
        /\ \A o \in Task : Runs(o) => o = t
        /\ \A e \in tasks[t].sets : e.row.version = tasks[t].version
        /\ \A id \in SessionId : Present(id) =>
              IF tasks[t].phase = "read"
              THEN id \in tasks[t].reads \/ [id |-> id, row |-> store[id]] \in tasks[t].found
              ELSE store[id].user = tasks[t].user =>
                   store[id].version >= tasks[t].version \/ id \in Ids(tasks[t].sets)

IInv ==
    /\ TypeOK
    /\ PhasesInOrder
    /\ HasOneOwner
    /\ "renew" \notin operations => HasOneExpiry
    /\ IdsAreNew
    /\ RewritesNothing => EndsAreFinal
    /\ VersionsFollow
    /\ RefreshAlone

-------------------------------------------------------------------------------
(* What a request is, and what the steps of one do to it.                     *)

LEMMA Bounds ==
    /\ Duration \in Nat /\ MaxTime \in Nat /\ MaxVersion \in Nat
    /\ None \notin SessionId /\ None \notin User /\ None \notin Row
BY SessionsAssumption

LEMMA TaskIsWork ==
    ASSUME TypeOK, NEW t \in Task, Runs(t)
    PROVE  /\ tasks[t] \in Work
           /\ tasks[t].op \in operations /\ tasks[t].phase \in {"read", "write"}
           /\ tasks[t].browser \in Browser \cup {None} /\ tasks[t].user \in User \cup {None}
           /\ tasks[t].own \in SessionId \cup {None} /\ tasks[t].target \in SessionId \cup {None}
           /\ tasks[t].version \in 0 .. MaxVersion
           /\ tasks[t].began \in 0 .. MaxTime /\ tasks[t].alone \in BOOLEAN
           /\ tasks[t].reads \subseteq SessionId /\ tasks[t].found \subseteq Entry
           /\ tasks[t].sets \subseteq Entry /\ tasks[t].removals \subseteq SessionId
           /\ tasks[t].ends \subseteq SessionId /\ tasks[t].reply \in SessionId \cup {None}
<1>1. tasks[t] \in Work
  BY DEF TypeOK, Runs
<1> QED
  BY <1>1 DEF Work

\* A request of the fields given.
Request(op, b, u, target, version, began, alone, reads) ==
    [op |-> op, phase |-> "read", browser |-> b, user |-> u,
     own |-> IF b = None THEN None ELSE cookie[b], target |-> target, version |-> version,
     began |-> began, alone |-> alone, reads |-> reads, found |-> {},
     sets |-> {}, removals |-> {}, ends |-> {}, reply |-> None]

\* A request stays as it is, but for being alone.
Undisturbed(o) ==
    tasks'[o] # None =>
          /\ tasks[o] # None
          /\ tasks'[o].op = tasks[o].op /\ tasks'[o].phase = tasks[o].phase
          /\ tasks'[o].browser = tasks[o].browser /\ tasks'[o].user = tasks[o].user
          /\ tasks'[o].target = tasks[o].target /\ tasks'[o].version = tasks[o].version
          /\ tasks'[o].began = tasks[o].began /\ tasks'[o].reads = tasks[o].reads
          /\ tasks'[o].found = tasks[o].found /\ tasks'[o].sets = tasks[o].sets
          /\ tasks'[o].removals = tasks[o].removals /\ tasks'[o].ends = tasks[o].ends
          /\ tasks'[o].reply = tasks[o].reply

\* What the operations read when they begin.
Begins(t, op, b, u, target, reads) ==
    /\ Begin(t, op, b, u, target, reads)
    /\ \/ /\ op \in {"login", "passkey"} /\ b \in Browser /\ u \in User
          /\ target = cookie[b] /\ reads = Held(b) /\ account' = account
       \/ /\ op \in {"signout", "renew", "link", "status"} /\ b \in Browser /\ u = None
          /\ target = cookie[b] /\ target # None /\ reads = Held(b) /\ account' = account
       \/ /\ op = "revoke one" /\ b \in Browser /\ u = None
          /\ target \in SessionId /\ reads = Held(b) \cup {target} /\ account' = account
       \/ /\ op = "revoke" /\ b = None /\ u \in User
          /\ target = None /\ reads = Listed /\ account' = account
       \/ /\ op = "refresh" /\ b = None /\ u \in User
          /\ target = None /\ reads = Listed
          /\ account[u] < MaxVersion /\ account' = [account EXCEPT ![u] = @ + 1]
       \/ /\ op = "cleanup" /\ b = None /\ u = None
          /\ target = None /\ reads = Listed /\ account' = account

LEMMA StartBegins ==
    ASSUME NEW t \in Task, Start(t)
    PROVE  \E op, b, u, target, reads : Begins(t, op, b, u, target, reads)
<1>1. ASSUME NEW b \in Browser, NEW u \in User, NEW op \in operations, BeginSignIn(t, op, b, u)
      PROVE  Begins(t, op, b, u, cookie[b], Held(b))
  BY <1>1 DEF BeginSignIn, Begins
<1>2. ASSUME NEW b \in Browser, NEW op \in operations, BeginOwn(t, op, b)
      PROVE  Begins(t, op, b, None, cookie[b], Held(b))
  BY <1>2 DEF BeginOwn, Begins
<1>3. ASSUME NEW b \in Browser, NEW id \in SessionId, BeginRevokeOne(t, b, id)
      PROVE  Begins(t, "revoke one", b, None, id, Held(b) \cup {id})
  BY <1>3 DEF BeginRevokeOne, Begins
<1>4. ASSUME NEW u \in User, BeginRevoke(t, u)
      PROVE  Begins(t, "revoke", None, u, None, Listed)
  BY <1>4 DEF BeginRevoke, Begins
<1>5. ASSUME NEW u \in User, BeginRefresh(t, u)
      PROVE  Begins(t, "refresh", None, u, None, Listed)
  BY <1>5 DEF BeginRefresh, Begins
<1>6. ASSUME BeginCleanup(t) PROVE Begins(t, "cleanup", None, None, None, Listed)
  BY <1>6 DEF BeginCleanup, Begins
<1> QED
  BY <1>1, <1>2, <1>3, <1>4, <1>5, <1>6 DEF Start

\* A request that has begun.
Begun(t, op, b, u, target, reads) ==
    /\ tasks'[t].op = op /\ tasks'[t].phase = "read" /\ tasks'[t].browser = b
    /\ tasks'[t].user = u /\ tasks'[t].target = target
    /\ tasks'[t].version = IF u = None THEN 0 ELSE account'[u]
    /\ tasks'[t].began = IF op = "cleanup" THEN now ELSE 0
    /\ tasks'[t].alone = (op = "refresh" /\ \A o \in Task : ~Runs(o))
    /\ tasks'[t].reads = reads /\ tasks'[t].found = {} /\ tasks'[t].sets = {}
    /\ tasks'[t].removals = {} /\ tasks'[t].ends = {} /\ tasks'[t].reply = None

\* A request that begins, and what becomes of the others.
LEMMA BeginsWork ==
    ASSUME TypeOK, NEW t \in Task, NEW op, NEW b, NEW u, NEW target, NEW reads,
           Begins(t, op, b, u, target, reads)
    PROVE  /\ account' \in [User -> 0 .. MaxVersion]
           /\ \A v \in User : account[v] <= account'[v]
           /\ op \in operations /\ reads \subseteq SessionId
           /\ b \in Browser \cup {None} /\ u \in User \cup {None} /\ target \in SessionId \cup {None}
           /\ tasks' \in [Task -> Work \cup {None}]
           /\ \A o \in Task : o # t => Undisturbed(o) /\ (Runs(o) => tasks'[o].alone = FALSE)
           /\ Begun(t, op, b, u, target, reads)
           /\ UNCHANGED <<operations, now, store, cookie, generated, ended, evicted, pushed>>
<1> DEFINE others == {o \in Task : tasks[o] # None}
           task == Request(op, b, u, target, IF u = None THEN 0 ELSE account'[u],
                           IF op = "cleanup" THEN now ELSE 0,
                           op = "refresh" /\ others = {}, reads)
<1>1. /\ op \in operations /\ tasks[t] = None
      /\ tasks' = [o \in Task |-> IF o = t THEN task
                                  ELSE IF o \in others THEN [tasks[o] EXCEPT !.alone = FALSE]
                                  ELSE None]
      /\ UNCHANGED <<operations, now, store, cookie, generated, ended, evicted, pushed>>
  BY DEF Begins, Begin, Request
<1>2. account' \in [User -> 0 .. MaxVersion] /\ \A v \in User : account[v] <= account'[v]
  <2>1. account \in [User -> 0 .. MaxVersion]
    BY DEF TypeOK
  <2>2. CASE account' = account
    <3>1. \A v \in User : account[v] \in 0 .. MaxVersion
      BY <2>1
    <3> QED
      BY <2>1, <2>2, <3>1, Bounds
  <2>3. CASE u \in User /\ account[u] < MaxVersion /\ account' = [account EXCEPT ![u] = @ + 1]
    <3>1. account[u] \in 0 .. MaxVersion
      BY <2>1, <2>3
    <3>2. account[u] + 1 \in 0 .. MaxVersion /\ account[u] <= account[u] + 1
      BY <2>3, <3>1, Bounds
    <3>3. \A v \in User : account[v] \in 0 .. MaxVersion
      BY <2>1
    <3> QED
      BY <2>1, <2>3, <3>2, <3>3, Bounds
  <2> QED
    BY <2>2, <2>3 DEF Begins
<1>3. /\ reads \subseteq SessionId /\ b \in Browser \cup {None} /\ u \in User \cup {None}
      /\ target \in SessionId \cup {None}
  <2>1. \A c \in Browser : cookie[c] \in SessionId \cup {None} /\ Held(c) \subseteq SessionId
    BY DEF TypeOK, Held
  <2> QED
    BY <2>1 DEF Begins, Listed
<1>4. task \in Work
  <2>1. (IF u = None THEN 0 ELSE account'[u]) \in 0 .. MaxVersion
    BY <1>2, <1>3, Bounds
  <2>2. (IF op = "cleanup" THEN now ELSE 0) \in 0 .. MaxTime
    <3>1. now \in 0 .. MaxTime
      BY DEF TypeOK
    <3> QED
      BY <3>1, Bounds
  <2>3. (IF b = None THEN None ELSE cookie[b]) \in SessionId \cup {None}
    BY <1>3 DEF TypeOK
  <2> QED
    BY <1>1, <1>3, <2>1, <2>2, <2>3 DEF Request, Work
<1>5. ASSUME NEW o \in others
      PROVE  /\ [tasks[o] EXCEPT !.alone = FALSE] \in Work
             /\ tasks[o] \in Work
  BY DEF TypeOK, Work
<1> HIDE DEF task
<1>6. tasks' \in [Task -> Work \cup {None}]
  BY <1>1, <1>4, <1>5
<1>7. ASSUME NEW o \in Task, o # t PROVE Undisturbed(o) /\ (Runs(o) => tasks'[o].alone = FALSE)
  <2>1. CASE tasks[o] = None
    BY <1>1, <1>7, <2>1 DEF Undisturbed, Runs
  <2>2. CASE tasks[o] # None
    <3>1. tasks'[o] = [tasks[o] EXCEPT !.alone = FALSE] /\ tasks[o] \in Work
      BY <1>1, <1>5, <1>7, <2>2
    <3> QED
      BY <2>2, <3>1 DEF Undisturbed, Runs, Work
  <2> QED
    BY <2>1, <2>2
<1>8. tasks'[t] = task
  BY <1>1
<1>9. others = {} <=> \A o \in Task : ~Runs(o)
  BY DEF Runs
<1>10. Begun(t, op, b, u, target, reads)
  BY <1>8, <1>9 DEF task, Request, Begun
<1> HIDE DEF others
<1> QED
  BY <1>1, <1>2, <1>3, <1>6, <1>7, <1>10

\* A row that was read, of the same user, with the user record of the request or its own.
Rewrites(t, e) ==
    \E f \in tasks[t].found :
        /\ e.id = f.id /\ e.row.user = f.row.user
        /\ "renew" \notin operations => e.row.expiresAt = f.row.expiresAt
        /\ \/ e.row.version = f.row.version
           \/ e.row.user = tasks[t].user /\ e.row.version = tasks[t].version

\* What the operations decide to write, from what they have read.
Decision(t, sets, removals, ends, reply) ==
    /\ Runs(t) /\ tasks[t].phase = "read" /\ tasks[t].reads = {}
    /\ Plan(t, sets, removals, ends, reply)
    /\ sets \subseteq Entry /\ removals \subseteq SessionId /\ ends \subseteq removals
    /\ reply \in SessionId \cup {None} /\ reply \notin generated
    /\ generated' = generated \cup ({reply} \ {None})
    /\ evicted \subseteq evicted' /\ evicted' \subseteq SessionId
    /\ \A id \in removals : id \in Ids(tasks[t].found)
                            \/ (tasks[t].op = "signout" /\ id = tasks[t].target)
    /\ \A e \in sets :
          \/ Rewrites(t, e)
          \/ /\ e.id = reply /\ tasks[t].user # None
             /\ e.row.user = tasks[t].user /\ e.row.version = tasks[t].version
    /\ \A e, f \in sets : Rewrites(t, e) \/ Rewrites(t, f) \/ e = f
    /\ RewritesNothing => \A e, f \in sets : e.id = reply /\ e = f
    /\ \A id \in removals :
          id \in ends \/ id \in evicted'
          \/ \E e \in tasks[t].found : e.id = id /\ e.row.expiresAt < now
    /\ tasks[t].op = "refresh" =>
          /\ \A e \in sets : e.row.version = tasks[t].version
          /\ \A f \in tasks[t].found : f.row.user = tasks[t].user => f.id \in Ids(sets)
    /\ UNCHANGED <<operations, now, account, store, cookie, ended, pushed>>

LEMMA PromoteDecides ==
    ASSUME TypeOK, PhasesInOrder, NEW t \in Task, Decide(t), NEW id \in SessionId, Promote(t, id)
    PROVE  \E sets, removals, ends, reply : Decision(t, sets, removals, ends, reply)
<1> DEFINE task == tasks[t]
           row == [user |-> task.user, version |-> task.version, expiresAt |-> ExpiresAt]
           new == [id |-> id, row |-> row]
           back == {e \in task.found : e.id \notin Revokes(task)}
<1>1. /\ Runs(t) /\ task.phase = "read" /\ task.reads = {}
      /\ UNCHANGED <<operations, now, account, store, cookie, ended, pushed>>
  BY DEF Decide, Runs
<1>2. /\ task.op \in {"login", "passkey"} /\ id \notin generated
      /\ Plan(t, {new} \cup back, Revokes(task), Revokes(task), id)
      /\ generated' = generated \cup {id} /\ evicted' = evicted
  BY DEF Promote, NewId
<1>3. task.found \subseteq Entry /\ task.user \in User \cup {None} /\ task.op \in operations
  BY <1>1, TaskIsWork
<1>4. Revokes(task) \subseteq Ids(task.found) /\ Ids(task.found) \subseteq SessionId
  BY <1>3 DEF Revokes, Ids, Entry
<1>5. task.user \in User
  BY <1>1, <1>2 DEF PhasesInOrder
<1>6. new \in Entry
  <2>1. now \in 0 .. MaxTime /\ task.version \in 0 .. MaxVersion
    BY <1>1, TaskIsWork DEF TypeOK
  <2>2. ExpiresAt \in 0 .. MaxTime + Duration
    BY <2>1, Bounds DEF ExpiresAt
  <2> QED
    BY <1>5, <2>1, <2>2 DEF Row, Entry
<1>7. RewritesNothing => back = {}
  <2>1. RewritesNothing => task.op = "login"
    BY <1>2, <1>3 DEF RewritesNothing
  <2> QED
    BY <2>1 DEF Revokes, Ids
<1>8. new.id = id /\ new.row.user = task.user /\ new.row.version = task.version
  OBVIOUS
<1>9. id # None /\ {id} \ {None} = {id}
  BY Bounds
<1> HIDE DEF new, row
<1>10. back \subseteq Entry /\ evicted \subseteq SessionId
  BY <1>3 DEF TypeOK
<1>11. \A e \in back : Rewrites(t, e)
  BY DEF Rewrites
<1>12. RewritesNothing => \A e, f \in {new} \cup back : e.id = id /\ e = f
  BY <1>7, <1>8
<1> HIDE DEF back
<1>13. Decision(t, {new} \cup back, Revokes(task), Revokes(task), id)
  BY <1>1, <1>2, <1>4, <1>5, <1>6, <1>8, <1>9, <1>10, <1>11, <1>12, Bounds DEF Decision
<1> QED
  BY <1>13

LEMMA EndingsDecide ==
    ASSUME TypeOK, PhasesInOrder, NEW t \in Task, Decide(t),
           \/ Signout(t) \/ RevokeOne(t)
           \/ \E except \in SessionId \cup {None} : RevokeAll(t, except)
    PROVE  \E sets, removals, ends, reply : Decision(t, sets, removals, ends, reply)
<1>1. /\ Runs(t) /\ tasks[t].phase = "read" /\ tasks[t].reads = {}
      /\ UNCHANGED <<operations, now, account, store, cookie, ended, pushed>>
  BY DEF Decide, Runs
<1>2. /\ generated' = generated /\ evicted' = evicted /\ evicted \subseteq SessionId
      /\ None \notin generated /\ {None} \ {None} = {}
  BY Bounds DEF Signout, RevokeOne, RevokeAll, TypeOK
<1>3. tasks[t].found \subseteq Entry
  BY <1>1, TaskIsWork
<1>4. ASSUME NEW ends, Plan(t, {}, ends, ends, None), ends \subseteq SessionId,
             tasks[t].op # "refresh",
             \A id \in ends : id \in Ids(tasks[t].found)
                              \/ (tasks[t].op = "signout" /\ id = tasks[t].target)
      PROVE  Decision(t, {}, ends, ends, None)
  BY <1>1, <1>2, <1>4 DEF Decision
<1>5. CASE Signout(t)
  <2>1. tasks[t].op = "signout" /\ Plan(t, {}, {tasks[t].target}, {tasks[t].target}, None)
    BY <1>5 DEF Signout
  <2>2. {tasks[t].target} \subseteq SessionId
    BY <1>1, <2>1 DEF PhasesInOrder
  <2>3. Decision(t, {}, {tasks[t].target}, {tasks[t].target}, None)
    BY <1>4, <2>1, <2>2
  <2> QED
    BY <2>3
<1>6. CASE RevokeOne(t)
  <2>1. /\ tasks[t].op = "revoke one"
        /\ Plan(t, {}, {tasks[t].target}, {tasks[t].target}, None)
        /\ \E e \in tasks[t].found : e.id = tasks[t].target
    BY <1>6 DEF RevokeOne
  <2>2. tasks[t].target \in SessionId /\ tasks[t].target \in Ids(tasks[t].found)
    BY <1>3, <2>1 DEF Ids, Entry
  <2>3. Decision(t, {}, {tasks[t].target}, {tasks[t].target}, None)
    BY <1>4, <2>1, <2>2
  <2> QED
    BY <2>3
<1>7. ASSUME NEW except \in SessionId \cup {None}, RevokeAll(t, except)
      PROVE  \E sets, removals, ends, reply : Decision(t, sets, removals, ends, reply)
  <2> DEFINE ids == Ids(OfUser(tasks[t])) \ {except}
  <2>1. tasks[t].op = "revoke" /\ Plan(t, {}, ids, ids, None)
    BY <1>7 DEF RevokeAll
  <2>2. ids \subseteq SessionId /\ \A id \in ids : id \in Ids(tasks[t].found)
    BY <1>3 DEF Ids, OfUser, Entry
  <2> HIDE DEF ids
  <2>3. Decision(t, {}, ids, ids, None)
    BY <1>4, <2>1, <2>2
  <2> QED
    BY <2>3
<1> QED
  BY <1>5, <1>6, <1>7

LEMMA RefreshDecides ==
    ASSUME TypeOK, PhasesInOrder, NEW t \in Task, Decide(t), RefreshAll(t)
    PROVE  \E sets, removals, ends, reply : Decision(t, sets, removals, ends, reply)
<1> DEFINE sets == Refreshed(tasks[t])
<1>1. /\ Runs(t) /\ tasks[t].phase = "read" /\ tasks[t].reads = {}
      /\ UNCHANGED <<operations, now, account, store, cookie, ended, pushed>>
  BY DEF Decide, Runs
<1>2. /\ generated' = generated /\ evicted' = evicted /\ evicted \subseteq SessionId
      /\ None \notin generated /\ {None} \ {None} = {}
      /\ tasks[t].op = "refresh" /\ Plan(t, sets, {}, {}, None)
  BY Bounds DEF RefreshAll, TypeOK
<1>3. tasks[t].found \subseteq Entry /\ tasks[t].version \in 0 .. MaxVersion
      /\ tasks[t].op \in operations
  BY <1>1, TaskIsWork
<1>4. ASSUME NEW f \in tasks[t].found
      PROVE  LET e == [f EXCEPT !.row.version = tasks[t].version] IN
             /\ e \in Entry /\ e.id = f.id /\ e.row.user = f.row.user
             /\ e.row.expiresAt = f.row.expiresAt /\ e.row.version = tasks[t].version
  <2> DEFINE r == [f.row EXCEPT !.version = tasks[t].version]
  <2>1. f \in Entry /\ f.row \in Row
    BY <1>3 DEF Entry
  <2>2. /\ r \in Row /\ r.user = f.row.user /\ r.expiresAt = f.row.expiresAt
        /\ r.version = tasks[t].version
    BY <1>3, <2>1 DEF Row
  <2>3. [f EXCEPT !.row.version = tasks[t].version] = [f EXCEPT !.row = r]
    BY <2>1 DEF Entry
  <2> HIDE DEF r
  <2>4. /\ [f EXCEPT !.row = r] \in Entry /\ [f EXCEPT !.row = r].id = f.id
        /\ [f EXCEPT !.row = r].row = r
    BY <2>1, <2>2 DEF Entry
  <2> QED
    BY <2>2, <2>3, <2>4
<1>5. ASSUME NEW e \in sets
      PROVE  /\ e \in Entry /\ e.row.version = tasks[t].version
             /\ Rewrites(t, e)
  <2>1. PICK f \in tasks[t].found : /\ e = [f EXCEPT !.row.version = tasks[t].version]
                                    /\ f.row.user = tasks[t].user
    BY DEF Refreshed, OfUser
  <2> QED
    BY <1>4, <2>1 DEF Rewrites
<1>6. ASSUME NEW f \in tasks[t].found, f.row.user = tasks[t].user
      PROVE  f.id \in Ids(sets)
  <2>1. [f EXCEPT !.row.version = tasks[t].version] \in sets
    BY <1>6 DEF Refreshed, OfUser
  <2> QED
    BY <1>4, <2>1 DEF Ids
<1>7. ~RewritesNothing
  BY <1>2, <1>3 DEF RewritesNothing
<1> HIDE DEF sets
<1>8. Decision(t, sets, {}, {}, None)
  BY <1>1, <1>2, <1>5, <1>6, <1>7 DEF Decision
<1> QED
  BY <1>8

LEMMA RenewDecides ==
    ASSUME TypeOK, PhasesInOrder, NEW t \in Task, Decide(t), Renew(t)
    PROVE  \E sets, removals, ends, reply : Decision(t, sets, removals, ends, reply)
<1>1. /\ Runs(t) /\ tasks[t].phase = "read" /\ tasks[t].reads = {}
      /\ UNCHANGED <<operations, now, account, store, cookie, ended, pushed>>
  BY DEF Decide, Runs
<1>2. PICK f \in tasks[t].found :
         Plan(t, {[f EXCEPT !.row.expiresAt = ExpiresAt]}, {}, {}, None)
  BY DEF Renew
<1>3. /\ generated' = generated /\ evicted' = evicted /\ evicted \subseteq SessionId
      /\ None \notin generated /\ {None} \ {None} = {} /\ tasks[t].op = "renew"
  BY Bounds DEF Renew, TypeOK
<1>4. f \in Entry /\ "renew" \in operations
  BY <1>1, <1>3, TaskIsWork
<1>5. LET e == [f EXCEPT !.row.expiresAt = ExpiresAt] IN
      /\ e \in Entry /\ e.id = f.id /\ e.row.user = f.row.user /\ e.row.version = f.row.version
  <2> DEFINE r == [f.row EXCEPT !.expiresAt = ExpiresAt]
  <2>1. now \in 0 .. MaxTime /\ f.row \in Row
    BY <1>4 DEF TypeOK, Entry
  <2>2. ExpiresAt \in 0 .. MaxTime + Duration
    BY <2>1, Bounds DEF ExpiresAt
  <2>3. r \in Row /\ r.user = f.row.user /\ r.version = f.row.version
    BY <2>1, <2>2 DEF Row
  <2>4. [f EXCEPT !.row.expiresAt = ExpiresAt] = [f EXCEPT !.row = r]
    BY <1>4 DEF Entry
  <2> HIDE DEF r
  <2>5. /\ [f EXCEPT !.row = r] \in Entry /\ [f EXCEPT !.row = r].id = f.id
        /\ [f EXCEPT !.row = r].row = r
    BY <1>4, <2>3 DEF Entry
  <2> QED
    BY <2>3, <2>4, <2>5
<1> DEFINE new == [f EXCEPT !.row.expiresAt = ExpiresAt]
<1>6. ~RewritesNothing
  BY <1>4 DEF RewritesNothing
<1>7. Plan(t, {new}, {}, {}, None) /\ new \in Entry
      /\ new.id = f.id /\ new.row.user = f.row.user /\ new.row.version = f.row.version
  BY <1>2, <1>5
<1> HIDE DEF new
<1>9. Rewrites(t, new)
  BY <1>4, <1>7 DEF Rewrites
<1>8. Decision(t, {new}, {}, {}, None)
  BY <1>1, <1>3, <1>6, <1>7, <1>9 DEF Decision
<1> QED
  BY <1>8

LEMMA LinkDecides ==
    ASSUME TypeOK, PhasesInOrder, NEW t \in Task, Decide(t), Link(t)
    PROVE  \E sets, removals, ends, reply : Decision(t, sets, removals, ends, reply)
<1>1. /\ Runs(t) /\ tasks[t].phase = "read" /\ tasks[t].reads = {}
      /\ UNCHANGED <<operations, now, account, store, cookie, ended, pushed>>
  BY DEF Decide, Runs
<1>2. PICK e \in tasks[t].found : Plan(t, {e}, {}, {}, None)
  BY DEF Link
<1>3. /\ generated' = generated /\ evicted' = evicted /\ evicted \subseteq SessionId
      /\ None \notin generated /\ {None} \ {None} = {} /\ tasks[t].op = "link"
  BY Bounds DEF Link, TypeOK
<1>4. e \in Entry /\ Rewrites(t, e) /\ "link" \in operations
  BY <1>1, <1>3, TaskIsWork DEF Rewrites
<1>5. ~RewritesNothing
  BY <1>4 DEF RewritesNothing
<1>6. Decision(t, {e}, {}, {}, None)
  BY <1>1, <1>2, <1>3, <1>4, <1>5 DEF Decision
<1> QED
  BY <1>6

LEMMA RemovalsDecide ==
    ASSUME TypeOK, PhasesInOrder, NEW t \in Task, Decide(t), RemoveExpired(t) \/ CleanUp(t)
    PROVE  \E sets, removals, ends, reply : Decision(t, sets, removals, ends, reply)
<1>1. /\ Runs(t) /\ tasks[t].phase = "read" /\ tasks[t].reads = {}
      /\ UNCHANGED <<operations, now, account, store, cookie, ended, pushed>>
  BY DEF Decide, Runs
<1>2. /\ generated' = generated /\ None \notin generated /\ {None} \ {None} = {}
      /\ tasks[t].op # "refresh" /\ evicted \subseteq SessionId
  BY Bounds DEF RemoveExpired, CleanUp, TypeOK
<1>3. /\ tasks[t].found \subseteq Entry /\ tasks[t].began <= now
      /\ tasks[t].began \in 0 .. MaxTime /\ now \in 0 .. MaxTime
  BY <1>1, TaskIsWork DEF PhasesInOrder, TypeOK
<1>4. ASSUME NEW removals, Plan(t, {}, removals, {}, None), removals \subseteq SessionId,
             evicted \subseteq evicted', evicted' \subseteq SessionId,
             removals \subseteq Ids(tasks[t].found),
             \A id \in removals : id \in evicted'
                                  \/ \E e \in tasks[t].found : e.id = id /\ e.row.expiresAt < now
      PROVE  Decision(t, {}, removals, {}, None)
  BY <1>1, <1>2, <1>4 DEF Decision
<1>5. CASE RemoveExpired(t)
  <2>1. PICK e \in tasks[t].found : /\ e.row.expiresAt < now /\ Plan(t, {}, {e.id}, {}, None)
                                    /\ evicted' = evicted
    BY <1>5 DEF RemoveExpired, Expired
  <2>2. e.id \in SessionId /\ {e.id} \subseteq Ids(tasks[t].found)
    BY <1>3, <2>1 DEF Entry, Ids
  <2>3. Decision(t, {}, {e.id}, {}, None)
    BY <1>2, <1>4, <2>1, <2>2
  <2> QED
    BY <2>3
<1>6. CASE CleanUp(t)
  <2> DEFINE expired == {e \in tasks[t].found : Expired(e.row, tasks[t].began)}
  <2>1. PICK over \in Overflow(tasks[t].found \ expired) :
           Plan(t, {}, Ids(expired \cup over), {}, None) /\ evicted' = evicted \cup Ids(over)
    BY <1>6 DEF CleanUp
  <2>2. over \subseteq tasks[t].found
    BY <2>1 DEF Overflow
  <2>3. /\ Ids(over) \subseteq SessionId /\ Ids(expired \cup over) \subseteq SessionId
        /\ Ids(expired \cup over) \subseteq Ids(tasks[t].found)
    BY <1>3, <2>2 DEF Ids, Entry
  <2>4. ASSUME NEW id \in Ids(expired \cup over)
        PROVE  id \in evicted' \/ \E e \in tasks[t].found : e.id = id /\ e.row.expiresAt < now
    <3>1. PICK e \in expired \cup over : e.id = id
      BY DEF Ids
    <3>2. CASE e \in over
      BY <2>1, <3>1, <3>2 DEF Ids
    <3>3. CASE e \in expired
      <4>1. e \in tasks[t].found /\ e.row.expiresAt < tasks[t].began
        BY <3>3 DEF Expired
      <4>2. e.row.expiresAt \in 0 .. MaxTime + Duration
        BY <1>3, <4>1 DEF Entry, Row
      <4>3. e.row.expiresAt < now
        BY <1>3, <4>1, <4>2, Bounds
      <4> QED
        BY <3>1, <4>1, <4>3
    <3> QED
      BY <3>1, <3>2, <3>3
  <2> HIDE DEF expired
  <2>5. Decision(t, {}, Ids(expired \cup over), {}, None)
    BY <1>2, <1>4, <2>1, <2>3, <2>4
  <2> QED
    BY <2>5
<1> QED
  BY <1>5, <1>6

LEMMA DecideDecides ==
    ASSUME TypeOK, PhasesInOrder, NEW t \in Task, Decide(t)
    PROVE  \E sets, removals, ends, reply : Decision(t, sets, removals, ends, reply)
BY PromoteDecides, EndingsDecide, RefreshDecides, RenewDecides, LinkDecides, RemovalsDecide
DEF Decide

\* What a request has in hand once it has decided.
LEMMA DecisionWork ==
    ASSUME TypeOK, NEW t \in Task, NEW sets, NEW removals, NEW ends, NEW reply,
           Decision(t, sets, removals, ends, reply)
    PROVE  /\ tasks' \in [Task -> Work \cup {None}]
           /\ \A o \in Task : o # t => tasks'[o] = tasks[o]
           /\ tasks'[t].phase = "write" /\ tasks'[t].target = None /\ tasks'[t].began = 0
           /\ tasks'[t].found = {} /\ tasks'[t].sets = sets /\ tasks'[t].removals = removals
           /\ tasks'[t].ends = ends /\ tasks'[t].reply = reply /\ tasks'[t].reads = {}
           /\ tasks'[t].op = tasks[t].op /\ tasks'[t].user = tasks[t].user
           /\ tasks'[t].version = tasks[t].version /\ tasks'[t].alone = tasks[t].alone
           /\ tasks'[t].browser = tasks[t].browser
<1> DEFINE next == [tasks[t] EXCEPT !.phase = "write", !.own = None, !.target = None, !.began = 0,
                        !.found = {}, !.sets = sets, !.removals = removals, !.ends = ends,
                        !.reply = reply]
<1>1. /\ Runs(t) /\ tasks[t].reads = {} /\ tasks' = [tasks EXCEPT ![t] = next]
      /\ sets \subseteq Entry /\ removals \subseteq SessionId /\ ends \subseteq SessionId
      /\ reply \in SessionId \cup {None}
  BY DEF Decision, Plan
<1>2. tasks[t] \in Work
  BY <1>1, TaskIsWork
<1>3. /\ next.phase = "write" /\ next.target = None /\ next.began = 0
      /\ next.found = {} /\ next.sets = sets /\ next.removals = removals
      /\ next.ends = ends /\ next.reply = reply /\ next.reads = tasks[t].reads
      /\ next.op = tasks[t].op /\ next.user = tasks[t].user
      /\ next.version = tasks[t].version /\ next.alone = tasks[t].alone
      /\ next.browser = tasks[t].browser
  BY <1>2 DEF Work
<1>4. next \in Work
  <2>1. 0 \in 0 .. MaxTime
    BY Bounds
  <2> QED
    BY <1>1, <1>2, <2>1 DEF Work
<1> HIDE DEF next
<1> QED
  BY <1>1, <1>2, <1>3, <1>4 DEF TypeOK

\* The fields of a request that its store calls leave alone.
SameRequest(t) ==
    /\ tasks'[t].op = tasks[t].op /\ tasks'[t].phase = tasks[t].phase
    /\ tasks'[t].user = tasks[t].user /\ tasks'[t].target = tasks[t].target
    /\ tasks'[t].version = tasks[t].version /\ tasks'[t].began = tasks[t].began
    /\ tasks'[t].alone = tasks[t].alone /\ tasks'[t].ends = tasks[t].ends
    /\ tasks'[t].reply = tasks[t].reply

LEMMA ReadWork ==
    ASSUME TypeOK, NEW t \in Task, NEW id \in SessionId, Read(t, id)
    PROVE  /\ tasks' \in [Task -> Work \cup {None}] /\ Runs(t)
           /\ \A o \in Task : o # t => tasks'[o] = tasks[o]
           /\ SameRequest(t) /\ tasks[t].phase = "read" /\ id \in tasks[t].reads
           /\ tasks'[t].reads = tasks[t].reads \ {id}
           /\ tasks'[t].found = IF Present(id)
                                THEN tasks[t].found \cup {[id |-> id, row |-> store[id]]}
                                ELSE tasks[t].found
           /\ tasks'[t].sets = tasks[t].sets /\ tasks'[t].removals = tasks[t].removals
           /\ UNCHANGED <<operations, now, account, store, cookie, generated, ended, evicted, pushed>>
<1> DEFINE found == IF Present(id) THEN tasks[t].found \cup {[id |-> id, row |-> store[id]]}
                                   ELSE tasks[t].found
           next == [tasks[t] EXCEPT !.reads = tasks[t].reads \ {id}, !.found = found]
<1>1. /\ Runs(t) /\ tasks[t].phase = "read" /\ id \in tasks[t].reads
      /\ UNCHANGED <<operations, now, account, store, cookie, generated, ended, evicted, pushed>>
  BY DEF Read, Runs
<1>2. tasks[t] \in Work /\ tasks[t].found \subseteq Entry /\ tasks[t].reads \subseteq SessionId
  BY <1>1, TaskIsWork
<1>3. tasks' = [tasks EXCEPT ![t] = next]
  <2>1. tasks' = [tasks EXCEPT
            ![t].reads = @ \ {id},
            ![t].found = IF Present(id) THEN @ \cup {[id |-> id, row |-> store[id]]} ELSE @]
    BY DEF Read
  <2> QED
    BY <1>2, <2>1 DEF TypeOK
<1>4. found \subseteq Entry
  <2>1. Present(id) => [id |-> id, row |-> store[id]] \in Entry
    BY DEF Present, TypeOK, Entry
  <2> QED
    BY <1>2, <2>1
<1> HIDE DEF found
<1>5. next \in Work
  BY <1>2, <1>4 DEF Work
<1>6. /\ next.op = tasks[t].op /\ next.phase = tasks[t].phase /\ next.user = tasks[t].user
      /\ next.target = tasks[t].target /\ next.version = tasks[t].version
      /\ next.began = tasks[t].began /\ next.alone = tasks[t].alone /\ next.ends = tasks[t].ends
      /\ next.reply = tasks[t].reply /\ next.reads = tasks[t].reads \ {id} /\ next.found = found
      /\ next.sets = tasks[t].sets /\ next.removals = tasks[t].removals
  BY <1>2 DEF Work
<1> HIDE DEF next
<1>7. tasks'[t] = next /\ \A o \in Task : o # t => tasks'[o] = tasks[o]
  BY <1>3 DEF TypeOK
<1>8. tasks' \in [Task -> Work \cup {None}]
  BY <1>3, <1>5 DEF TypeOK
<1> QED
  BY <1>1, <1>6, <1>7, <1>8 DEF SameRequest, found

LEMMA SetWork ==
    ASSUME TypeOK, NEW t \in Task, NEW e, Set(t, e)
    PROVE  /\ tasks' \in [Task -> Work \cup {None}] /\ Runs(t) /\ tasks[t].phase = "write"
           /\ \A o \in Task : o # t => tasks'[o] = tasks[o]
           /\ SameRequest(t) /\ tasks'[t].reads = tasks[t].reads /\ tasks'[t].found = tasks[t].found
           /\ tasks'[t].sets = tasks[t].sets \ {e} /\ tasks'[t].removals = tasks[t].removals
           /\ e \in tasks[t].sets /\ e \in Entry /\ e.id \in SessionId /\ e.row \in Row
           /\ e.row # None /\ e = [id |-> e.id, row |-> e.row]
           /\ store' \in [SessionId -> Row \cup {None}]
           /\ \A id \in SessionId : store'[id] = IF id = e.id THEN e.row ELSE store[id]
           /\ UNCHANGED <<operations, now, account, cookie, generated, ended, evicted, pushed>>
<1> DEFINE next == [tasks[t] EXCEPT !.sets = tasks[t].sets \ {e}]
<1>1. /\ Runs(t) /\ tasks[t].phase = "write" /\ e \in tasks[t].sets
      /\ UNCHANGED <<operations, now, account, cookie, generated, ended, evicted, pushed>>
      /\ store' = [store EXCEPT ![e.id] = e.row]
      /\ tasks' = [tasks EXCEPT ![t] = next]
  BY DEF Set, Writing, Runs
<1>2. tasks[t] \in Work /\ tasks[t].sets \subseteq Entry
  BY <1>1, TaskIsWork
<1>3. e \in Entry /\ e.id \in SessionId /\ e.row \in Row /\ e = [id |-> e.id, row |-> e.row]
  BY <1>1, <1>2 DEF Entry
<1>4. next \in Work
  BY <1>2 DEF Work
<1>5. /\ next.op = tasks[t].op /\ next.phase = tasks[t].phase /\ next.user = tasks[t].user
      /\ next.target = tasks[t].target /\ next.version = tasks[t].version
      /\ next.began = tasks[t].began /\ next.alone = tasks[t].alone /\ next.ends = tasks[t].ends
      /\ next.reply = tasks[t].reply /\ next.reads = tasks[t].reads /\ next.found = tasks[t].found
      /\ next.sets = tasks[t].sets \ {e} /\ next.removals = tasks[t].removals
  BY <1>2 DEF Work
<1> HIDE DEF next
<1>6. /\ tasks'[t] = next /\ \A o \in Task : o # t => tasks'[o] = tasks[o]
      /\ tasks' \in [Task -> Work \cup {None}]
  BY <1>1, <1>4 DEF TypeOK
<1>7. /\ store' \in [SessionId -> Row \cup {None}]
      /\ \A id \in SessionId : store'[id] = IF id = e.id THEN e.row ELSE store[id]
  BY <1>1, <1>3 DEF TypeOK
<1>8. e.row # None
  BY <1>3, Bounds
<1> QED
  BY <1>1, <1>3, <1>5, <1>6, <1>7, <1>8 DEF SameRequest

LEMMA RemoveWork ==
    ASSUME TypeOK, NEW t \in Task, NEW id \in SessionId, Remove(t, id)
    PROVE  /\ tasks' \in [Task -> Work \cup {None}] /\ Runs(t) /\ tasks[t].phase = "write"
           /\ \A o \in Task : o # t => tasks'[o] = tasks[o]
           /\ SameRequest(t) /\ tasks'[t].reads = tasks[t].reads /\ tasks'[t].found = tasks[t].found
           /\ tasks'[t].sets = tasks[t].sets /\ tasks'[t].removals = tasks[t].removals \ {id}
           /\ id \in tasks[t].removals
           /\ store' \in [SessionId -> Row \cup {None}]
           /\ \A s \in SessionId : store'[s] = IF s = id THEN None ELSE store[s]
           /\ UNCHANGED <<operations, now, account, cookie, generated, ended, evicted, pushed>>
<1> DEFINE next == [tasks[t] EXCEPT !.removals = tasks[t].removals \ {id}]
<1>1. /\ Runs(t) /\ tasks[t].phase = "write" /\ id \in tasks[t].removals
      /\ UNCHANGED <<operations, now, account, cookie, generated, ended, evicted, pushed>>
      /\ store' = [store EXCEPT ![id] = None]
      /\ tasks' = [tasks EXCEPT ![t] = next]
  BY DEF Remove, Writing, Runs
<1>2. tasks[t] \in Work /\ tasks[t].removals \subseteq SessionId
  BY <1>1, TaskIsWork
<1>3. next \in Work
  BY <1>2 DEF Work
<1>4. /\ next.op = tasks[t].op /\ next.phase = tasks[t].phase /\ next.user = tasks[t].user
      /\ next.target = tasks[t].target /\ next.version = tasks[t].version
      /\ next.began = tasks[t].began /\ next.alone = tasks[t].alone /\ next.ends = tasks[t].ends
      /\ next.reply = tasks[t].reply /\ next.reads = tasks[t].reads /\ next.found = tasks[t].found
      /\ next.sets = tasks[t].sets /\ next.removals = tasks[t].removals \ {id}
  BY <1>2 DEF Work
<1> HIDE DEF next
<1>5. /\ tasks'[t] = next /\ \A o \in Task : o # t => tasks'[o] = tasks[o]
      /\ tasks' \in [Task -> Work \cup {None}]
  BY <1>1, <1>3 DEF TypeOK
<1>6. /\ store' \in [SessionId -> Row \cup {None}]
      /\ \A s \in SessionId : store'[s] = IF s = id THEN None ELSE store[s]
  BY <1>1 DEF TypeOK
<1> QED
  BY <1>1, <1>4, <1>5, <1>6 DEF SameRequest

LEMMA AnswerWork ==
    ASSUME TypeOK, PhasesInOrder, NEW t \in Task, Answer(t)
    PROVE  /\ tasks' \in [Task -> Work \cup {None}] /\ Runs(t) /\ tasks[t].phase = "write"
           /\ tasks'[t] = None /\ \A o \in Task : o # t => tasks'[o] = tasks[o]
           /\ tasks[t].sets = {} /\ tasks[t].removals = {}
           /\ ended' = ended \cup tasks[t].ends
           /\ cookie' \in [Browser -> SessionId \cup {None}]
           /\ \A b \in Browser : cookie'[b] \in {cookie[b], tasks[t].reply}
           /\ pushed' \in [User -> 0 .. MaxVersion]
           /\ \A u \in User : pushed'[u] =
                 IF tasks[t].op = "refresh" /\ tasks[t].alone /\ u = tasks[t].user
                 THEN tasks[t].version ELSE pushed[u]
           /\ UNCHANGED <<operations, now, account, store, generated, evicted>>
<1>1. /\ Runs(t) /\ tasks[t].phase = "write" /\ tasks[t].sets = {} /\ tasks[t].removals = {}
      /\ ended' = ended \cup tasks[t].ends
      /\ tasks' = [tasks EXCEPT ![t] = None]
      /\ cookie' = IF tasks[t].op \in {"login", "passkey", "signout"}
                   THEN [cookie EXCEPT ![tasks[t].browser] = tasks[t].reply] ELSE cookie
      /\ pushed' = IF tasks[t].op = "refresh" /\ tasks[t].alone
                   THEN [pushed EXCEPT ![tasks[t].user] = tasks[t].version] ELSE pushed
      /\ UNCHANGED <<operations, now, account, store, generated, evicted>>
  BY DEF Answer, Writing, Runs
<1>2. /\ tasks[t].reply \in SessionId \cup {None} /\ tasks[t].version \in 0 .. MaxVersion
      /\ tasks[t].op = "refresh" => tasks[t].user \in User
  BY <1>1, TaskIsWork DEF PhasesInOrder
<1>3. /\ tasks' \in [Task -> Work \cup {None}] /\ tasks'[t] = None
      /\ \A o \in Task : o # t => tasks'[o] = tasks[o]
  BY <1>1 DEF TypeOK
<1>4. /\ cookie' \in [Browser -> SessionId \cup {None}]
      /\ \A b \in Browser : cookie'[b] \in {cookie[b], tasks[t].reply}
  BY <1>1, <1>2 DEF TypeOK
<1>5. /\ pushed' \in [User -> 0 .. MaxVersion]
      /\ \A u \in User : pushed'[u] =
            IF tasks[t].op = "refresh" /\ tasks[t].alone /\ u = tasks[t].user
            THEN tasks[t].version ELSE pushed[u]
  BY <1>1, <1>2 DEF TypeOK
<1> QED
  BY <1>1, <1>3, <1>4, <1>5

\* The steps in which no request goes on: one ends, expired rows go, time passes.
Idles ==
    /\ \A o \in Task : tasks'[o] \in {tasks[o], None}
    /\ tasks' \in [Task -> Work \cup {None}]
    /\ store' \in [SessionId -> Row \cup {None}]
    /\ \A id \in SessionId : \/ store'[id] = store[id]
                             \/ store'[id] = None /\ store[id].expiresAt < now
    /\ now' \in 0 .. MaxTime /\ now <= now'
    /\ UNCHANGED <<operations, account, cookie, generated, ended, evicted, pushed>>

LEMMA StepKinds ==
    ASSUME TypeOK, PhasesInOrder, [Next]_vars
    PROVE  \/ \E t \in Task : \E op, b, u, target, reads : Begins(t, op, b, u, target, reads)
           \/ \E t \in Task, id \in SessionId : Read(t, id)
           \/ \E t \in Task : \E sets, removals, ends, reply :
                 Decision(t, sets, removals, ends, reply)
           \/ \E t \in Task : \E e : Set(t, e)
           \/ \E t \in Task, id \in SessionId : Remove(t, id)
           \/ \E t \in Task : Answer(t)
           \/ Idles
<1>0. now \in 0 .. MaxTime /\ now <= now
  <2>1. now \in 0 .. MaxTime
    BY DEF TypeOK
  <2> QED
    BY <2>1, Bounds
<1>1. ASSUME NEW t \in Task, Start(t)
      PROVE  \E op, b, u, target, reads : Begins(t, op, b, u, target, reads)
  BY <1>1, StartBegins
<1>2. ASSUME NEW t \in Task, Decide(t)
      PROVE  \E sets, removals, ends, reply : Decision(t, sets, removals, ends, reply)
  BY <1>2, DecideDecides
<1>3. ASSUME NEW t \in Task, Abandon(t) PROVE Idles
  BY <1>0, <1>3 DEF Abandon, Idles, TypeOK
<1>4. CASE Sweep
  <2>1. \A id \in SessionId : \/ store'[id] = store[id]
                              \/ store'[id] = None /\ store[id].expiresAt < now
    BY <1>4 DEF Sweep, Expired
  <2>2. store' \in [SessionId -> Row \cup {None}]
    BY <1>4 DEF Sweep, TypeOK
  <2> QED
    BY <1>0, <1>4, <2>1, <2>2 DEF Sweep, Idles, TypeOK
<1>5. CASE Tick
  <2>1. now' \in 0 .. MaxTime /\ now <= now'
    <3>1. now < MaxTime /\ now' = now + 1
      BY <1>5 DEF Tick
    <3> QED
      BY <1>0, <3>1, Bounds
  <2> QED
    BY <1>5, <2>1 DEF Tick, Idles, TypeOK
<1>6. CASE UNCHANGED vars
  BY <1>0, <1>6 DEF vars, Idles, TypeOK
<1> QED
  BY <1>1, <1>2, <1>3, <1>4, <1>5, <1>6 DEF Next, Advance

LEMMA TypeInit == Init => TypeOK
<1> SUFFICES ASSUME Init PROVE TypeOK
  OBVIOUS
<1>1. 0 \in 0 .. MaxTime /\ 0 \in 0 .. MaxVersion
  BY Bounds
<1> QED
  BY <1>1 DEF Init, TypeOK

LEMMA TypeNext == TypeOK /\ PhasesInOrder /\ [Next]_vars => TypeOK'
<1> SUFFICES ASSUME TypeOK, PhasesInOrder, [Next]_vars PROVE TypeOK'
  OBVIOUS
<1>0. operations' = operations => Work' = Work
  BY DEF Work
<1>1. ASSUME NEW t \in Task, NEW op, NEW b, NEW u, NEW target, NEW reads,
             Begins(t, op, b, u, target, reads)
      PROVE  TypeOK'
  <2>1. /\ account' \in [User -> 0 .. MaxVersion] /\ tasks' \in [Task -> Work \cup {None}]
        /\ UNCHANGED <<operations, now, store, cookie, generated, ended, evicted, pushed>>
    BY <1>1, BeginsWork
  <2> QED
    BY <1>0, <2>1 DEF TypeOK
<1>2. ASSUME NEW t \in Task, NEW id \in SessionId, Read(t, id) PROVE TypeOK'
  BY <1>0, <1>2, ReadWork DEF TypeOK
<1>3. ASSUME NEW t \in Task, NEW sets, NEW removals, NEW ends, NEW reply,
             Decision(t, sets, removals, ends, reply)
      PROVE  TypeOK'
  <2>1. tasks' \in [Task -> Work \cup {None}]
    BY <1>3, DecisionWork
  <2>2. /\ generated' \subseteq SessionId /\ evicted' \subseteq SessionId
        /\ UNCHANGED <<operations, now, account, store, cookie, ended, pushed>>
    BY <1>3 DEF Decision, TypeOK
  <2> QED
    BY <1>0, <2>1, <2>2 DEF TypeOK
<1>4. ASSUME NEW t \in Task, NEW e, Set(t, e) PROVE TypeOK'
  BY <1>0, <1>4, SetWork DEF TypeOK
<1>5. ASSUME NEW t \in Task, NEW id \in SessionId, Remove(t, id) PROVE TypeOK'
  BY <1>0, <1>5, RemoveWork DEF TypeOK
<1>6. ASSUME NEW t \in Task, Answer(t) PROVE TypeOK'
  <2>1. tasks[t].ends \subseteq SessionId
    BY <1>6, AnswerWork, TaskIsWork
  <2> QED
    BY <1>0, <1>6, <2>1, AnswerWork DEF TypeOK
<1>7. CASE Idles
  BY <1>0, <1>7 DEF Idles, TypeOK
<1> QED
  BY <1>1, <1>2, <1>3, <1>4, <1>5, <1>6, <1>7, StepKinds

LEMMA PhasesNext == TypeOK /\ PhasesInOrder /\ [Next]_vars => PhasesInOrder'
<1> SUFFICES ASSUME TypeOK, PhasesInOrder, [Next]_vars, NEW t \in Task, tasks'[t] # None
             PROVE  /\ tasks'[t].phase = "read" =>
                          /\ tasks'[t].sets = {} /\ tasks'[t].removals = {}
                          /\ tasks'[t].ends = {} /\ tasks'[t].reply = None
                    /\ tasks'[t].phase = "write" => tasks'[t].reads = {} /\ tasks'[t].found = {}
                    /\ tasks'[t].began <= now'
                    /\ tasks'[t].op \in {"login", "passkey", "refresh"} => tasks'[t].user \in User
                    /\ tasks'[t].op = "signout" /\ tasks'[t].phase = "read" =>
                          tasks'[t].target \in SessionId
  BY DEF PhasesInOrder, Runs
<1> DEFINE Ordered(r) ==
               /\ r.phase = "read" => /\ r.sets = {} /\ r.removals = {}
                                      /\ r.ends = {} /\ r.reply = None
               /\ r.phase = "write" => r.reads = {} /\ r.found = {}
               /\ r.began <= now'
               /\ r.op \in {"login", "passkey", "refresh"} => r.user \in User
               /\ r.op = "signout" /\ r.phase = "read" => r.target \in SessionId
<1> SUFFICES Ordered(tasks'[t])
  OBVIOUS
<1>1. ASSUME Runs(t), now <= now', now' \in 0 .. MaxTime PROVE Ordered(tasks[t])
  <2>1. tasks[t].began <= now /\ tasks[t].began \in 0 .. MaxTime /\ now \in 0 .. MaxTime
    BY <1>1, TaskIsWork DEF PhasesInOrder, TypeOK
  <2>2. tasks[t].began <= now'
    BY <1>1, <2>1, Bounds
  <2> QED
    BY <1>1, <2>2 DEF PhasesInOrder
<1>2. now \in 0 .. MaxTime /\ now <= now /\ 0 <= now
  <2>1. now \in 0 .. MaxTime
    BY DEF TypeOK
  <2> QED
    BY <2>1, Bounds
<1>3. ASSUME NEW o \in Task, NEW op, NEW b, NEW u, NEW target, NEW reads,
             Begins(o, op, b, u, target, reads)
      PROVE  Ordered(tasks'[t])
  <2>1. CASE t = o
    <3>1. now' = now /\ Begun(o, op, b, u, target, reads)
      BY <1>3, BeginsWork
    <3>2. /\ tasks'[t].op = op /\ tasks'[t].phase = "read" /\ tasks'[t].user = u
          /\ tasks'[t].target = target
          /\ tasks'[t].began = (IF op = "cleanup" THEN now ELSE 0)
          /\ tasks'[t].reads = reads
          /\ tasks'[t].found = {} /\ tasks'[t].sets = {} /\ tasks'[t].removals = {}
          /\ tasks'[t].ends = {} /\ tasks'[t].reply = None
      BY <2>1, <3>1 DEF Begun
    <3>3. op \in {"login", "passkey", "refresh"} => u \in User
      BY <1>3 DEF Begins
    <3>4. op = "signout" => target \in SessionId
      BY <1>3 DEF Begins, TypeOK
    <3> QED
      BY <1>2, <3>1, <3>2, <3>3, <3>4
  <2>2. CASE t # o
    <3>1. Undisturbed(t) /\ now' = now
      BY <1>3, <2>2, BeginsWork
    <3>2. Ordered(tasks[t])
      BY <1>1, <1>2, <3>1 DEF Undisturbed, Runs
    <3> QED
      BY <3>1, <3>2 DEF Undisturbed
  <2> QED
    BY <2>1, <2>2
<1>4. ASSUME tasks'[t] = tasks[t], now' = now PROVE Ordered(tasks'[t])
  BY <1>1, <1>2, <1>4 DEF Runs
<1>5. ASSUME NEW o \in Task, NEW id \in SessionId, Read(o, id) PROVE Ordered(tasks'[t])
  <2>1. CASE t = o
    <3>1. /\ Runs(t) /\ SameRequest(t) /\ tasks[t].phase = "read" /\ id \in tasks[t].reads
          /\ tasks'[t].reads = tasks[t].reads \ {id} /\ now' = now
          /\ tasks'[t].found = IF Present(id)
                               THEN tasks[t].found \cup {[id |-> id, row |-> store[id]]}
                               ELSE tasks[t].found
          /\ tasks'[t].sets = tasks[t].sets /\ tasks'[t].removals = tasks[t].removals
      BY <1>5, <2>1, ReadWork
    <3>2. Ordered(tasks[t])
      BY <1>1, <1>2, <3>1
    <3> QED
      BY <3>1, <3>2 DEF SameRequest
  <2>2. CASE t # o
    BY <1>4, <1>5, <2>2, ReadWork
  <2> QED
    BY <2>1, <2>2
<1>6. ASSUME NEW o \in Task, NEW sets, NEW removals, NEW ends, NEW reply,
             Decision(o, sets, removals, ends, reply)
      PROVE  Ordered(tasks'[t])
  <2>1. now' = now
    BY <1>6 DEF Decision
  <2>2. CASE t = o
    <3>1. /\ tasks'[t].phase = "write" /\ tasks'[t].began = 0 /\ tasks'[t].reads = {}
          /\ tasks'[t].found = {}
          /\ tasks'[t].op = tasks[t].op /\ tasks'[t].user = tasks[t].user
      BY <1>6, <2>2, DecisionWork
    <3>2. Runs(t)
      BY <1>6, <2>2 DEF Decision
    <3> QED
      BY <1>2, <2>1, <3>1, <3>2 DEF PhasesInOrder
  <2>3. CASE t # o
    BY <1>4, <1>6, <2>1, <2>3, DecisionWork
  <2> QED
    BY <2>2, <2>3
<1>7. ASSUME NEW o \in Task, NEW e, Set(o, e) PROVE Ordered(tasks'[t])
  <2>1. CASE t = o
    <3>1. /\ Runs(t) /\ SameRequest(t) /\ tasks[t].phase = "write" /\ now' = now
          /\ tasks'[t].reads = tasks[t].reads /\ tasks'[t].found = tasks[t].found
      BY <1>7, <2>1, SetWork
    <3> QED
      BY <1>1, <1>2, <3>1 DEF SameRequest
  <2>2. CASE t # o
    BY <1>4, <1>7, <2>2, SetWork
  <2> QED
    BY <2>1, <2>2
<1>8. ASSUME NEW o \in Task, NEW id \in SessionId, Remove(o, id) PROVE Ordered(tasks'[t])
  <2>1. CASE t = o
    <3>1. /\ Runs(t) /\ SameRequest(t) /\ tasks[t].phase = "write" /\ now' = now
          /\ tasks'[t].reads = tasks[t].reads /\ tasks'[t].found = tasks[t].found
      BY <1>8, <2>1, RemoveWork
    <3> QED
      BY <1>1, <1>2, <3>1 DEF SameRequest
  <2>2. CASE t # o
    BY <1>4, <1>8, <2>2, RemoveWork
  <2> QED
    BY <2>1, <2>2
<1>9. ASSUME NEW o \in Task, Answer(o) PROVE Ordered(tasks'[t])
  <2>1. tasks'[t] = tasks[t] /\ now' = now
    BY <1>9, AnswerWork
  <2> QED
    BY <1>4, <2>1
<1>10. CASE Idles
  <2>1. tasks'[t] = tasks[t] /\ Runs(t) /\ now <= now' /\ now' \in 0 .. MaxTime
    BY <1>10 DEF Idles, Runs
  <2> HIDE DEF Ordered
  <2> QED
    BY <1>1, <2>1
<1> HIDE DEF Ordered
<1> QED
  BY <1>3, <1>5, <1>6, <1>7, <1>8, <1>9, <1>10, StepKinds

-------------------------------------------------------------------------------
(* Where the rows of a session come from.                                     *)

\* Only a decision makes a row that was not there.
LEMMA RowsKept ==
    ASSUME TypeOK, PhasesInOrder, [Next]_vars, NEW id \in SessionId, NEW row \in Row,
           IsRow(id, row)', ~IsRow(id, row)
    PROVE  \E t \in Task : \E sets, removals, ends, reply :
              Decision(t, sets, removals, ends, reply) /\ [id |-> id, row |-> row] \in sets
<1> DEFINE entry == [id |-> id, row |-> row]
<1>1. /\ Present(id) => row # store[id]
      /\ \A t \in Task : Runs(t) => entry \notin tasks[t].found /\ entry \notin tasks[t].sets
  BY DEF IsRow, Knows
<1>2. \/ store'[id] # None /\ row = store'[id]
      \/ \E t \in Task : tasks'[t] # None /\ (entry \in tasks'[t].found \/ entry \in tasks'[t].sets)
  BY DEF IsRow, Knows, Runs, Present
<1>3. entry.id = id /\ entry.row = row
  OBVIOUS
<1> HIDE DEF entry
<1>4. ASSUME NEW o \in Task, NEW op, NEW b, NEW u, NEW target, NEW reads,
             Begins(o, op, b, u, target, reads)
      PROVE  FALSE
  <2>1. /\ store' = store /\ Begun(o, op, b, u, target, reads)
        /\ \A t \in Task : t # o => Undisturbed(t)
    BY <1>4, BeginsWork
  <2>2. ASSUME NEW t \in Task, tasks'[t] # None, entry \in tasks'[t].found \/ entry \in tasks'[t].sets
        PROVE  FALSE
    <3>1. CASE t = o
      BY <2>1, <2>2, <3>1 DEF Begun
    <3>2. CASE t # o
      BY <1>1, <2>1, <2>2, <3>2 DEF Undisturbed, Runs
    <3> QED
      BY <3>1, <3>2
  <2> QED
    BY <1>1, <1>2, <2>1, <2>2 DEF Present
<1>5. ASSUME NEW o \in Task, NEW s \in SessionId, Read(o, s) PROVE FALSE
  <2>1. /\ Runs(o) /\ \A t \in Task : t # o => tasks'[t] = tasks[t]
        /\ tasks'[o].found = IF Present(s)
                             THEN tasks[o].found \cup {[id |-> s, row |-> store[s]]}
                             ELSE tasks[o].found
        /\ tasks'[o].sets = tasks[o].sets /\ store' = store
    BY <1>5, ReadWork
  <2>2. [id |-> s, row |-> store[s]].id = s /\ [id |-> s, row |-> store[s]].row = store[s]
    OBVIOUS
  <2>3. entry \notin tasks'[o].found /\ entry \notin tasks'[o].sets
    BY <1>1, <1>3, <2>1, <2>2
  <2>4. \A t \in Task : t # o /\ tasks'[t] # None =>
           entry \notin tasks'[t].found /\ entry \notin tasks'[t].sets
    BY <1>1, <2>1 DEF Runs
  <2> QED
    BY <1>1, <1>2, <2>1, <2>3, <2>4 DEF Present
<1>6. ASSUME NEW t \in Task, NEW sets, NEW removals, NEW ends, NEW reply,
             Decision(t, sets, removals, ends, reply)
      PROVE  entry \in sets
  <2>1. store' = store
    BY <1>6 DEF Decision
  <2>2. /\ tasks'[t].found = {} /\ tasks'[t].sets = sets
        /\ \A o \in Task : o # t => tasks'[o] = tasks[o]
    BY <1>6, DecisionWork
  <2>3. \A o \in Task : o # t /\ tasks'[o] # None =>
           entry \notin tasks'[o].found /\ entry \notin tasks'[o].sets
    BY <1>1, <2>2 DEF Runs
  <2> QED
    BY <1>1, <1>2, <2>1, <2>2, <2>3 DEF Present
<1>7. ASSUME NEW o \in Task, NEW e, Set(o, e) PROVE FALSE
  <2>1. /\ Runs(o) /\ \A t \in Task : t # o => tasks'[t] = tasks[t]
        /\ tasks'[o].found = tasks[o].found /\ tasks'[o].sets = tasks[o].sets \ {e}
        /\ e \in tasks[o].sets /\ e = [id |-> e.id, row |-> e.row]
        /\ store'[id] = IF id = e.id THEN e.row ELSE store[id]
    BY <1>7, SetWork
  <2>2. e.id = id => e.row # row
    <3>1. e.id = id /\ e.row = row => e = entry
      BY <2>1 DEF entry
    <3> QED
      BY <1>1, <2>1, <3>1
  <2>3. \A t \in Task : tasks'[t] # None => entry \notin tasks'[t].found /\ entry \notin tasks'[t].sets
    BY <1>1, <2>1 DEF Runs
  <2> QED
    BY <1>1, <1>2, <2>1, <2>2, <2>3 DEF Present
<1>8. ASSUME NEW o \in Task, NEW s \in SessionId, Remove(o, s) PROVE FALSE
  <2>1. /\ Runs(o) /\ \A t \in Task : t # o => tasks'[t] = tasks[t]
        /\ tasks'[o].found = tasks[o].found /\ tasks'[o].sets = tasks[o].sets
        /\ store'[id] = IF id = s THEN None ELSE store[id]
    BY <1>8, RemoveWork
  <2>2. \A t \in Task : tasks'[t] # None => entry \notin tasks'[t].found /\ entry \notin tasks'[t].sets
    BY <1>1, <2>1 DEF Runs
  <2> QED
    BY <1>1, <1>2, <2>1, <2>2 DEF Present
<1>9. ASSUME NEW o \in Task, Answer(o) PROVE FALSE
  <2>1. /\ tasks'[o] = None /\ \A t \in Task : t # o => tasks'[t] = tasks[t]
        /\ store' = store
    BY <1>9, AnswerWork
  <2>2. \A t \in Task : tasks'[t] # None => entry \notin tasks'[t].found /\ entry \notin tasks'[t].sets
    BY <1>1, <2>1 DEF Runs
  <2> QED
    BY <1>1, <1>2, <2>1, <2>2 DEF Present
<1>10. CASE Idles
  <2>1. \A t \in Task : tasks'[t] # None => entry \notin tasks'[t].found /\ entry \notin tasks'[t].sets
    BY <1>1, <1>10 DEF Idles, Runs
  <2>2. store'[id] = store[id] \/ store'[id] = None
    BY <1>10 DEF Idles
  <2> QED
    BY <1>1, <1>2, <2>1, <2>2 DEF Present
<1> QED
  BY <1>4, <1>5, <1>6, <1>7, <1>8, <1>9, <1>10, StepKinds DEF entry

\* What the rows are once a request has decided.
LEMMA DecidedRows ==
    ASSUME TypeOK, NEW t \in Task, NEW sets, NEW removals, NEW ends, NEW reply,
           Decision(t, sets, removals, ends, reply),
           NEW id \in SessionId, NEW row \in Row, IsRow(id, row)'
    PROVE  IsRow(id, row) \/ [id |-> id, row |-> row] \in sets
<1> DEFINE entry == [id |-> id, row |-> row]
<1>1. store' = store
  BY DEF Decision
<1>2. /\ tasks'[t].found = {} /\ tasks'[t].sets = sets
      /\ \A o \in Task : o # t => tasks'[o] = tasks[o]
  BY DecisionWork
<1> HIDE DEF entry
<1>3. \/ store'[id] # None /\ row = store'[id]
      \/ \E o \in Task : tasks'[o] # None /\ (entry \in tasks'[o].found \/ entry \in tasks'[o].sets)
  BY DEF IsRow, Knows, Runs, Present, entry
<1>4. CASE store'[id] # None /\ row = store'[id]
  BY <1>1, <1>4 DEF IsRow, Present
<1>5. ASSUME NEW o \in Task, tasks'[o] # None, entry \in tasks'[o].found \/ entry \in tasks'[o].sets
      PROVE  IsRow(id, row) \/ entry \in sets
  <2>1. CASE o = t
    BY <1>2, <1>5, <2>1
  <2>2. CASE o # t
    BY <1>2, <1>5, <2>2 DEF IsRow, Knows, Runs, entry
  <2> QED
    BY <2>1, <2>2
<1> QED
  BY <1>3, <1>4, <1>5 DEF entry

\* What a request rewrites is a row of the session already.
LEMMA RewrittenRow ==
    ASSUME TypeOK, NEW t \in Task, Runs(t), NEW e, Rewrites(t, e)
    PROVE  \E old \in Row :
              /\ e.id \in SessionId /\ IsRow(e.id, old) /\ e.row.user = old.user
              /\ "renew" \notin operations => e.row.expiresAt = old.expiresAt
              /\ \/ e.row.version = old.version
                 \/ e.row.user = tasks[t].user /\ e.row.version = tasks[t].version
<1>1. PICK f \in tasks[t].found :
         /\ e.id = f.id /\ e.row.user = f.row.user
         /\ "renew" \notin operations => e.row.expiresAt = f.row.expiresAt
         /\ \/ e.row.version = f.row.version
            \/ e.row.user = tasks[t].user /\ e.row.version = tasks[t].version
  BY DEF Rewrites
<1>2. f \in Entry
  BY TaskIsWork
<1>3. f.row \in Row /\ f.id \in SessionId /\ f = [id |-> f.id, row |-> f.row]
  BY <1>2 DEF Entry
<1>4. IsRow(f.id, f.row)
  BY <1>1, <1>3 DEF IsRow, Knows
<1> QED
  BY <1>1, <1>3, <1>4

\* A session that was never generated has no rows, and is not among the ids of a request.
LEMMA NewHasNoRow ==
    ASSUME TypeOK, IdsAreNew, NEW id \in SessionId \ generated
    PROVE  /\ \A row : ~IsRow(id, row)
           /\ \A t \in Task : Runs(t) => id \notin tasks[t].removals
<1>1. /\ ~Present(id)
      /\ \A t \in Task : Runs(t) => /\ id \notin Ids(tasks[t].found) /\ id \notin Ids(tasks[t].sets)
                                    /\ id \notin tasks[t].removals
  BY DEF IdsAreNew, Unseen
<1>2. ASSUME NEW row, NEW t \in Task, Runs(t), [id |-> id, row |-> row] \in Knows(t) PROVE FALSE
  <2>1. [id |-> id, row |-> row].id = id
    OBVIOUS
  <2> QED
    BY <1>1, <1>2, <2>1 DEF Knows, Ids
<1> QED
  BY <1>1, <1>2 DEF IsRow

LEMMA OwnerNext == TypeOK /\ PhasesInOrder /\ IdsAreNew /\ HasOneOwner /\ [Next]_vars => HasOneOwner'
<1> SUFFICES ASSUME TypeOK, PhasesInOrder, IdsAreNew, HasOneOwner, [Next]_vars PROVE HasOneOwner'
  OBVIOUS
<1>1. PICK owner \in [SessionId -> User \cup {None}] : IsOwnerOf(owner)
  BY DEF HasOneOwner
<1>2. ASSUME NEW next \in [SessionId -> User \cup {None}],
             \A id \in SessionId, row \in Row : IsRow(id, row)' => row.user = next[id]
      PROVE  HasOneOwner'
  BY <1>2 DEF HasOneOwner, IsOwnerOf
<1>3. CASE \A id \in SessionId, row \in Row : IsRow(id, row)' => IsRow(id, row)
  BY <1>1, <1>2, <1>3 DEF IsOwnerOf
<1>4. ASSUME NEW t \in Task, NEW sets, NEW removals, NEW ends, NEW reply,
             Decision(t, sets, removals, ends, reply),
             \A id \in SessionId, row \in Row :
                IsRow(id, row)' => IsRow(id, row) \/ [id |-> id, row |-> row] \in sets
      PROVE  HasOneOwner'
  <2> DEFINE next == [owner EXCEPT ![reply] = tasks[t].user]
  <2>1. /\ Runs(t) /\ reply \notin generated
        /\ \A e \in sets : Rewrites(t, e) \/ (e.id = reply /\ e.row.user = tasks[t].user)
    BY <1>4 DEF Decision
  <2>2. tasks[t].user \in User \cup {None}
    BY <2>1, TaskIsWork
  <2>3. next \in [SessionId -> User \cup {None}]
    BY <2>2
  <2>4. \A id \in SessionId : next[id] = IF id = reply THEN tasks[t].user ELSE owner[id]
    BY <2>2
  <2> HIDE DEF next
  <2>5. ASSUME NEW id \in SessionId, NEW row \in Row, IsRow(id, row) PROVE row.user = next[id]
    <3>1. id # reply
      BY <2>1, <2>5, NewHasNoRow
    <3> QED
      BY <1>1, <2>4, <2>5, <3>1 DEF IsOwnerOf
  <2>6. ASSUME NEW id \in SessionId, NEW row \in Row, [id |-> id, row |-> row] \in sets
        PROVE  row.user = next[id]
    <3> DEFINE e == [id |-> id, row |-> row]
    <3>1. e.id = id /\ e.row = row
      OBVIOUS
    <3>2. e \in sets
      BY <2>6
    <3> HIDE DEF e
    <3>3. CASE Rewrites(t, e)
      <4>1. PICK old \in Row : IsRow(id, old) /\ row.user = old.user
        BY <2>1, <3>1, <3>3, RewrittenRow
      <4> QED
        BY <2>5, <4>1
    <3>4. CASE e.id = reply /\ e.row.user = tasks[t].user
      BY <2>4, <3>1, <3>4
    <3> QED
      BY <2>1, <3>2, <3>3, <3>4
  <2> QED
    BY <1>2, <1>4, <2>3, <2>5, <2>6
<1>5. CASE \E id \in SessionId, row \in Row : IsRow(id, row)' /\ ~IsRow(id, row)
  <2>1. PICK t \in Task : \E sets, removals, ends, reply : Decision(t, sets, removals, ends, reply)
    BY <1>5, RowsKept
  <2>2. PICK sets, removals, ends, reply : Decision(t, sets, removals, ends, reply)
    BY <2>1
  <2> QED
    BY <1>4, <2>2, DecidedRows
<1> QED
  BY <1>3, <1>5

\* What a request is to remove, it was to remove or has just decided to.
LEMMA RemovalsKept ==
    ASSUME TypeOK, PhasesInOrder, [Next]_vars, NEW t \in Task, tasks'[t] # None,
           NEW id \in tasks'[t].removals
    PROVE  \/ Runs(t) /\ id \in tasks[t].removals /\ tasks'[t].ends = tasks[t].ends
           \/ \E sets, removals, ends, reply :
                 Decision(t, sets, removals, ends, reply) /\ id \in removals /\ tasks'[t].ends = ends
<1>1. ASSUME NEW o \in Task, NEW op, NEW b, NEW u, NEW target, NEW reads,
             Begins(o, op, b, u, target, reads)
      PROVE  Runs(t) /\ id \in tasks[t].removals /\ tasks'[t].ends = tasks[t].ends
  <2>1. Begun(o, op, b, u, target, reads) /\ (t # o => Undisturbed(t))
    BY <1>1, BeginsWork
  <2>2. t # o
    BY <2>1 DEF Begun
  <2> QED
    BY <2>1, <2>2 DEF Undisturbed, Runs
<1>2. ASSUME tasks'[t] = tasks[t]
      PROVE  Runs(t) /\ id \in tasks[t].removals /\ tasks'[t].ends = tasks[t].ends
  BY <1>2 DEF Runs
<1>3. ASSUME NEW o \in Task, NEW s \in SessionId, Read(o, s)
      PROVE  Runs(t) /\ id \in tasks[t].removals /\ tasks'[t].ends = tasks[t].ends
  BY <1>2, <1>3, ReadWork DEF SameRequest
<1>4. ASSUME NEW o \in Task, NEW sets, NEW removals, NEW ends, NEW reply,
             Decision(o, sets, removals, ends, reply)
      PROVE  \/ tasks'[t] = tasks[t]
             \/ t = o /\ id \in removals /\ tasks'[t].ends = ends
  BY <1>4, DecisionWork
<1>5. ASSUME NEW o \in Task, NEW e, Set(o, e)
      PROVE  Runs(t) /\ id \in tasks[t].removals /\ tasks'[t].ends = tasks[t].ends
  BY <1>2, <1>5, SetWork DEF SameRequest
<1>6. ASSUME NEW o \in Task, NEW s \in SessionId, Remove(o, s)
      PROVE  Runs(t) /\ id \in tasks[t].removals /\ tasks'[t].ends = tasks[t].ends
  <2>1. CASE t = o
    <3>1. Runs(t) /\ SameRequest(t) /\ tasks'[t].removals = tasks[t].removals \ {s}
      BY <1>6, <2>1, RemoveWork
    <3> QED
      BY <3>1 DEF SameRequest
  <2>2. CASE t # o
    BY <1>2, <1>6, <2>2, RemoveWork
  <2> QED
    BY <2>1, <2>2
<1>7. ASSUME NEW o \in Task, Answer(o) PROVE tasks'[t] = tasks[t]
  BY <1>7, AnswerWork
<1>8. CASE Idles
  BY <1>2, <1>8 DEF Idles
<1>9. (\E o \in Task : \E sets, removals, ends, reply :
          Decision(o, sets, removals, ends, reply))
      => \/ tasks'[t] = tasks[t]
         \/ \E sets, removals, ends, reply :
               Decision(t, sets, removals, ends, reply) /\ id \in removals /\ tasks'[t].ends = ends
  BY <1>4
<1> QED
  BY <1>1, <1>2, <1>3, <1>5, <1>6, <1>7, <1>8, <1>9, StepKinds

\* Time passes, and the cleanup evicts more.
LEMMA TimePasses ==
    ASSUME TypeOK, PhasesInOrder, [Next]_vars
    PROVE  /\ now \in 0 .. MaxTime /\ now' \in 0 .. MaxTime /\ now <= now'
           /\ evicted \subseteq evicted' /\ operations' = operations
<1>1. now \in 0 .. MaxTime /\ now <= now
  <2>1. now \in 0 .. MaxTime
    BY DEF TypeOK
  <2> QED
    BY <2>1, Bounds
<1> DEFINE Passes == /\ now' \in 0 .. MaxTime /\ now <= now'
                     /\ evicted \subseteq evicted' /\ operations' = operations
<1>2. ASSUME now' = now, evicted \subseteq evicted', operations' = operations PROVE Passes
  BY <1>1, <1>2
<1>3. ASSUME NEW t \in Task, NEW op, NEW b, NEW u, NEW target, NEW reads,
             Begins(t, op, b, u, target, reads)
      PROVE  Passes
  BY <1>2, <1>3, BeginsWork
<1>4. ASSUME NEW t \in Task, NEW id \in SessionId, Read(t, id) PROVE Passes
  BY <1>2, <1>4, ReadWork
<1>10. ASSUME NEW t \in Task, NEW id \in SessionId, Remove(t, id) PROVE Passes
  BY <1>2, <1>10, RemoveWork
<1>5. ASSUME NEW t \in Task, NEW sets, NEW removals, NEW ends, NEW reply,
             Decision(t, sets, removals, ends, reply)
      PROVE  Passes
  BY <1>2, <1>5 DEF Decision
<1>6. ASSUME NEW t \in Task, NEW e, Set(t, e) PROVE Passes
  BY <1>2, <1>6, SetWork
<1>7. ASSUME NEW t \in Task, Answer(t) PROVE Passes
  BY <1>2, <1>7, AnswerWork
<1>8. CASE Idles
  <2>1. now' \in 0 .. MaxTime /\ now <= now' /\ operations' = operations /\ evicted' = evicted
    BY <1>8 DEF Idles
  <2>2. evicted \subseteq evicted'
    BY <2>1
  <2> QED
    BY <1>1, <2>1, <2>2
<1>9. Passes
  BY <1>3, <1>4, <1>5, <1>6, <1>7, <1>8, <1>10, StepKinds
<1> QED
  BY <1>1, <1>9

LEMMA ExpiryNext ==
    TypeOK /\ PhasesInOrder /\ IdsAreNew /\ "renew" \notin operations /\ HasOneExpiry /\ [Next]_vars
    => HasOneExpiry'
<1> SUFFICES ASSUME TypeOK, PhasesInOrder, IdsAreNew, "renew" \notin operations, HasOneExpiry,
                    [Next]_vars
             PROVE  HasOneExpiry'
  OBVIOUS
<1>1. PICK expiry \in [SessionId -> 0 .. MaxTime + Duration] : IsExpiryOf(expiry)
  BY DEF HasOneExpiry
<1>2. ASSUME NEW next \in [SessionId -> 0 .. MaxTime + Duration],
             \A id \in SessionId \cap generated : next[id] = expiry[id],
             \A id \in SessionId, row \in Row : IsRow(id, row)' => row.expiresAt = next[id]
      PROVE  HasOneExpiry'
  <2>1. ASSUME NEW t \in Task, tasks'[t] # None, NEW id \in tasks'[t].removals
        PROVE  id \in tasks'[t].ends \/ id \in evicted' \/ next[id] < now'
    <3>1. /\ evicted \subseteq evicted' /\ now \in 0 .. MaxTime /\ now' \in 0 .. MaxTime
          /\ now <= now'
      BY TimePasses
    <3>2. ASSUME id \in SessionId \cap generated, expiry[id] < now PROVE next[id] < now'
      <4>1. next[id] = expiry[id] /\ expiry[id] \in 0 .. MaxTime + Duration
        BY <1>2, <3>2
      <4> QED
        BY <3>1, <3>2, <4>1, Bounds
    <3>3. CASE Runs(t) /\ id \in tasks[t].removals /\ tasks'[t].ends = tasks[t].ends
      <4>1. id \in SessionId
        BY <3>3, TaskIsWork
      <4>2. id \in generated
        BY <3>3, <4>1, NewHasNoRow
      <4>3. id \in tasks[t].ends \/ id \in evicted \/ expiry[id] < now
        BY <1>1, <3>3 DEF IsExpiryOf
      <4> QED
        BY <3>1, <3>2, <3>3, <4>1, <4>2, <4>3
    <3>4. ASSUME NEW sets, NEW removals, NEW ends, NEW reply,
                 Decision(t, sets, removals, ends, reply), id \in removals, tasks'[t].ends = ends
          PROVE  id \in tasks'[t].ends \/ id \in evicted' \/ next[id] < now'
      <4>1. /\ Runs(t)
            /\ id \in ends \/ id \in evicted'
               \/ \E e \in tasks[t].found : e.id = id /\ e.row.expiresAt < now
        BY <3>4 DEF Decision
      <4>2. ASSUME NEW e \in tasks[t].found, e.id = id, e.row.expiresAt < now
            PROVE  next[id] < now'
        <5>1. e \in Entry
          BY <4>1, TaskIsWork
        <5>2. e.row \in Row /\ e.id \in SessionId /\ e = [id |-> e.id, row |-> e.row]
          BY <5>1 DEF Entry
        <5>3. IsRow(id, e.row)
          BY <4>1, <4>2, <5>2 DEF IsRow, Knows
        <5>4. id \in SessionId \cap generated
          BY <4>2, <5>2, <5>3, NewHasNoRow
        <5>5. e.row.expiresAt = expiry[id]
          BY <1>1, <5>2, <5>3, <5>4 DEF IsExpiryOf
        <5> QED
          BY <3>2, <4>2, <5>4, <5>5
      <4> QED
        BY <3>4, <4>1, <4>2
    <3> QED
      BY <2>1, <3>3, <3>4, RemovalsKept, Zenon
  <2> QED
    BY <1>2, <2>1 DEF HasOneExpiry, IsExpiryOf, Runs
<1>3. CASE \A id \in SessionId, row \in Row : IsRow(id, row)' => IsRow(id, row)
  BY <1>1, <1>2, <1>3 DEF IsExpiryOf
<1>4. ASSUME NEW t \in Task, NEW sets, NEW removals, NEW ends, NEW reply,
             Decision(t, sets, removals, ends, reply)
      PROVE  HasOneExpiry'
  <2>1. /\ Runs(t) /\ reply \notin generated /\ sets \subseteq Entry
        /\ \A e \in sets : Rewrites(t, e) \/ e.id = reply
        /\ \A e, f \in sets : Rewrites(t, e) \/ Rewrites(t, f) \/ e = f
    BY <1>4 DEF Decision
  <2>2. PICK x \in 0 .. MaxTime + Duration :
           \A e \in sets : Rewrites(t, e) \/ e.row.expiresAt = x
    <3>1. 0 \in 0 .. MaxTime + Duration
      BY Bounds
    <3>2. CASE \A e \in sets : Rewrites(t, e)
      BY <3>1, <3>2
    <3>3. ASSUME NEW f \in sets, ~Rewrites(t, f)
          PROVE  \E x \in 0 .. MaxTime + Duration :
                    \A e \in sets : Rewrites(t, e) \/ e.row.expiresAt = x
      <4>1. f \in Entry
        BY <2>1
      <4>2. f.row.expiresAt \in 0 .. MaxTime + Duration
        BY <4>1 DEF Entry, Row
      <4> QED
        BY <2>1, <3>3, <4>2
    <3> QED
      BY <3>2, <3>3
  <2> DEFINE next == [expiry EXCEPT ![reply] = x]
  <2>3. next \in [SessionId -> 0 .. MaxTime + Duration]
    OBVIOUS
  <2>4. \A id \in SessionId : next[id] = IF id = reply THEN x ELSE expiry[id]
    OBVIOUS
  <2> HIDE DEF next
  <2>5. ASSUME NEW id \in SessionId, NEW row \in Row, IsRow(id, row) PROVE row.expiresAt = next[id]
    <3>1. id # reply
      BY <2>1, <2>5, NewHasNoRow
    <3> QED
      BY <1>1, <2>4, <2>5, <3>1 DEF IsExpiryOf
  <2>6. ASSUME NEW id \in SessionId, NEW row \in Row, [id |-> id, row |-> row] \in sets
        PROVE  row.expiresAt = next[id]
    <3> DEFINE e == [id |-> id, row |-> row]
    <3>1. e.id = id /\ e.row = row /\ e \in sets
      BY <2>6
    <3> HIDE DEF e
    <3>2. CASE Rewrites(t, e)
      <4>1. PICK old \in Row : IsRow(id, old) /\ row.expiresAt = old.expiresAt
        BY <2>1, <3>1, <3>2, RewrittenRow
      <4> QED
        BY <2>5, <4>1
    <3>3. CASE ~Rewrites(t, e)
      BY <2>1, <2>2, <2>4, <3>1, <3>3
    <3> QED
      BY <3>2, <3>3
  <2>7. \A id \in SessionId, row \in Row : IsRow(id, row)' => row.expiresAt = next[id]
    BY <1>4, <2>5, <2>6, DecidedRows
  <2>8. \A id \in SessionId \cap generated : next[id] = expiry[id]
    BY <2>1, <2>4
  <2> QED
    BY <1>2, <2>3, <2>7, <2>8
<1> QED
  BY <1>3, <1>4, RowsKept

-------------------------------------------------------------------------------
(* Ids are new, and what ends stays away.                                     *)

\* Nobody meets a session before its row is set or its cookie given.
LEMMA UnseenStays ==
    ASSUME TypeOK, PhasesInOrder, [Next]_vars, NEW id \in SessionId, Unseen(id),
           \A t \in Task : \A e : Set(t, e) => e.id # id,
           \A t \in Task : Answer(t) => tasks[t].reply # id
    PROVE  Unseen(id)'
<1> DEFINE Apart(task) ==
               /\ id \notin Ids(task.found) /\ id \notin task.ends
               /\ task.target = id => task.op = "revoke one"
<1>1. /\ ~Present(id) /\ id \notin ended /\ \A b \in Browser : cookie[b] # id
      /\ \A t \in Task : Runs(t) => Apart(tasks[t])
  BY DEF Unseen
<1>2. SUFFICES /\ store'[id] = None /\ id \notin ended' /\ \A b \in Browser : cookie'[b] # id
               /\ \A t \in Task : tasks'[t] # None => Apart(tasks'[t])
  BY DEF Unseen, Present, Runs, Ids
<1>3. store[id] = None
  BY <1>1 DEF Present
<1>4. ASSUME NEW o \in Task, NEW op, NEW b, NEW u, NEW target, NEW reads,
             Begins(o, op, b, u, target, reads)
      PROVE  /\ UNCHANGED <<store, ended, cookie>>
             /\ \A t \in Task : tasks'[t] # None => Apart(tasks'[t])
  <2>1. /\ Begun(o, op, b, u, target, reads) /\ \A t \in Task : t # o => Undisturbed(t)
        /\ UNCHANGED <<store, ended, cookie>>
    BY <1>4, BeginsWork
  <2>2. target = id => op = "revoke one"
    BY <1>1, <1>4, Bounds DEF Begins
  <2>3. Apart(tasks'[o])
    BY <2>1, <2>2 DEF Begun, Ids
  <2>4. ASSUME NEW t \in Task, t # o, tasks'[t] # None PROVE Apart(tasks'[t])
    <3>1. Undisturbed(t)
      BY <2>1, <2>4
    <3>2. Apart(tasks[t])
      BY <1>1, <2>4, <3>1 DEF Undisturbed, Runs
    <3> QED
      BY <2>4, <3>1, <3>2 DEF Undisturbed
  <2> QED
    BY <2>1, <2>3, <2>4
<1>5. ASSUME NEW t \in Task, tasks'[t] = tasks[t], tasks'[t] # None PROVE Apart(tasks'[t])
  BY <1>1, <1>5 DEF Runs
<1>6. ASSUME NEW o \in Task, NEW s \in SessionId, Read(o, s)
      PROVE  /\ UNCHANGED <<store, ended, cookie>>
             /\ \A t \in Task : tasks'[t] # None => Apart(tasks'[t])
  <2>1. /\ Runs(o) /\ SameRequest(o) /\ \A t \in Task : t # o => tasks'[t] = tasks[t]
        /\ tasks'[o].found = IF Present(s)
                             THEN tasks[o].found \cup {[id |-> s, row |-> store[s]]}
                             ELSE tasks[o].found
        /\ UNCHANGED <<store, ended, cookie>>
    BY <1>6, ReadWork
  <2>2. [id |-> s, row |-> store[s]].id = s
    OBVIOUS
  <2>3. Apart(tasks[o])
    BY <1>1, <2>1
  <2>4. id \notin Ids(tasks'[o].found)
    BY <1>1, <2>1, <2>2, <2>3 DEF Ids
  <2>5. Apart(tasks'[o])
    BY <2>1, <2>3, <2>4 DEF SameRequest
  <2> QED
    BY <1>5, <2>1, <2>5
<1>7. ASSUME NEW o \in Task, NEW sets, NEW removals, NEW ends, NEW reply,
             Decision(o, sets, removals, ends, reply)
      PROVE  /\ UNCHANGED <<store, ended, cookie>>
             /\ \A t \in Task : tasks'[t] # None => Apart(tasks'[t])
  <2>1. /\ Runs(o) /\ ends \subseteq removals /\ UNCHANGED <<store, ended, cookie>>
        /\ \A s \in removals : s \in Ids(tasks[o].found)
                               \/ (tasks[o].op = "signout" /\ s = tasks[o].target)
    BY <1>7 DEF Decision
  <2>2. /\ tasks'[o].target = None /\ tasks'[o].found = {} /\ tasks'[o].ends = ends
        /\ \A t \in Task : t # o => tasks'[t] = tasks[t]
    BY <1>7, DecisionWork
  <2>3. Apart(tasks[o])
    BY <1>1, <2>1
  <2>4. id \notin ends
    BY <2>1, <2>3
  <2>5. Apart(tasks'[o])
    BY <2>2, <2>4, Bounds DEF Ids
  <2> QED
    BY <1>5, <2>1, <2>2, <2>5
<1>8. ASSUME NEW o \in Task, NEW e, Set(o, e)
      PROVE  /\ store'[id] = None /\ UNCHANGED <<ended, cookie>>
             /\ \A t \in Task : tasks'[t] # None => Apart(tasks'[t])
  <2>1. /\ Runs(o) /\ SameRequest(o) /\ \A t \in Task : t # o => tasks'[t] = tasks[t]
        /\ tasks'[o].found = tasks[o].found /\ UNCHANGED <<ended, cookie>>
        /\ store'[id] = IF id = e.id THEN e.row ELSE store[id]
    BY <1>8, SetWork
  <2>2. Apart(tasks[o])
    BY <1>1, <2>1
  <2>3. Apart(tasks'[o])
    BY <2>1, <2>2 DEF SameRequest
  <2> QED
    BY <1>3, <1>5, <1>8, <2>1, <2>3
<1>9. ASSUME NEW o \in Task, NEW s \in SessionId, Remove(o, s)
      PROVE  /\ store'[id] = None /\ UNCHANGED <<ended, cookie>>
             /\ \A t \in Task : tasks'[t] # None => Apart(tasks'[t])
  <2>1. /\ Runs(o) /\ SameRequest(o) /\ \A t \in Task : t # o => tasks'[t] = tasks[t]
        /\ tasks'[o].found = tasks[o].found /\ UNCHANGED <<ended, cookie>>
        /\ store'[id] = IF id = s THEN None ELSE store[id]
    BY <1>9, RemoveWork
  <2>2. Apart(tasks[o])
    BY <1>1, <2>1
  <2>3. Apart(tasks'[o])
    BY <2>1, <2>2 DEF SameRequest
  <2> QED
    BY <1>3, <1>5, <2>1, <2>3
<1>10. ASSUME NEW o \in Task, Answer(o)
       PROVE  /\ store' = store /\ id \notin ended' /\ \A b \in Browser : cookie'[b] # id
              /\ \A t \in Task : tasks'[t] # None => Apart(tasks'[t])
  <2>1. /\ Runs(o) /\ tasks'[o] = None /\ \A t \in Task : t # o => tasks'[t] = tasks[t]
        /\ ended' = ended \cup tasks[o].ends /\ store' = store
        /\ \A b \in Browser : cookie'[b] \in {cookie[b], tasks[o].reply}
    BY <1>10, AnswerWork
  <2>2. Apart(tasks[o]) /\ tasks[o].reply # id
    BY <1>1, <1>10, <2>1
  <2>3. id \notin ended' /\ \A b \in Browser : cookie'[b] # id
    BY <1>1, <2>1, <2>2
  <2> QED
    BY <1>5, <2>1, <2>3
<1>11. CASE Idles
  <2>1. /\ \A t \in Task : tasks'[t] \in {tasks[t], None}
        /\ store'[id] \in {store[id], None} /\ ended' = ended /\ cookie' = cookie
    BY <1>11 DEF Idles
  <2> QED
    BY <1>1, <1>3, <1>5, <2>1
<1> HIDE DEF Apart
<1> QED
  <2>1. ASSUME UNCHANGED <<store, ended, cookie>>
        PROVE  store'[id] = None /\ id \notin ended' /\ \A b \in Browser : cookie'[b] # id
    BY <1>1, <1>3, <2>1
  <2>2. ASSUME store'[id] = None, UNCHANGED <<ended, cookie>>
        PROVE  store'[id] = None /\ id \notin ended' /\ \A b \in Browser : cookie'[b] # id
    BY <1>1, <2>2
  <2> QED
    BY <1>3, <1>4, <1>6, <1>7, <1>8, <1>9, <1>10, <1>11, <2>1, <2>2, StepKinds

\* A session that was never generated is in no request's hands.
LEMMA NewIsApart ==
    ASSUME TypeOK, IdsAreNew, NEW id \in SessionId \ generated
    PROVE  /\ Unseen(id)
           /\ \A t \in Task : \A e : Set(t, e) => e.id # id
           /\ \A t \in Task : Answer(t) => tasks[t].reply # id
           /\ \A t \in Task : Runs(t) =>
                 tasks[t].reply # id /\ id \notin Ids(tasks[t].sets) \cup tasks[t].removals
<1>1. /\ Unseen(id)
      /\ \A t \in Task : Runs(t) =>
            tasks[t].reply # id /\ id \notin Ids(tasks[t].sets) \cup tasks[t].removals
  BY DEF IdsAreNew
<1>2. ASSUME NEW t \in Task, NEW e, Set(t, e) PROVE e.id # id
  <2>1. Runs(t) /\ e \in tasks[t].sets
    BY <1>2 DEF Set, Writing, Runs
  <2> QED
    BY <1>1, <2>1 DEF Ids
<1>3. ASSUME NEW t \in Task, Answer(t) PROVE tasks[t].reply # id
  <2>1. Runs(t)
    BY <1>3 DEF Answer, Writing, Runs
  <2> QED
    BY <1>1, <2>1
<1> QED
  BY <1>1, <1>2, <1>3

LEMMA IdsNext == TypeOK /\ PhasesInOrder /\ IdsAreNew /\ [Next]_vars => IdsAreNew'
<1> SUFFICES ASSUME TypeOK, PhasesInOrder, IdsAreNew, [Next]_vars PROVE IdsAreNew'
  OBVIOUS
<1> DEFINE Apart(task, id) == task.reply # id /\ id \notin Ids(task.sets) \cup task.removals
           Alone == \A t, o \in Task : tasks'[t] # None /\ tasks'[o] # None
                       /\ tasks'[t].reply = tasks'[o].reply /\ tasks'[t].reply # None => t = o
           New == /\ generated \subseteq generated'
                  /\ \A id \in SessionId \ generated', t \in Task :
                        tasks'[t] # None => Apart(tasks'[t], id)
                  /\ Alone
<1>1. \A id \in SessionId \ generated :
         Unseen(id)' /\ \A t \in Task : Runs(t) => Apart(tasks[t], id)
  BY UnseenStays, NewIsApart
<1>2. SUFFICES New
  <2>1. \A id \in SessionId \ generated' : id \in SessionId \ generated
    BY <1>2
  <2>2. \A id \in SessionId \ generated' : Unseen(id)'
    BY <1>1, <2>1
  <2> QED
    BY <1>2, <2>2 DEF IdsAreNew, Runs, Ids
<1>3. \A t, o \in Task : Runs(t) /\ Runs(o) /\ tasks[t].reply = tasks[o].reply
         /\ tasks[t].reply # None => t = o
  BY DEF IdsAreNew
<1>4. ASSUME generated' = generated,
             \A t \in Task : tasks'[t] # None =>
                 \/ Runs(t) /\ tasks'[t].reply = tasks[t].reply
                    /\ tasks'[t].sets \subseteq tasks[t].sets
                    /\ tasks'[t].removals \subseteq tasks[t].removals
                 \/ tasks'[t].reply = None /\ tasks'[t].sets = {} /\ tasks'[t].removals = {}
      PROVE  New
  <2>1. Alone
    BY <1>3, <1>4
  <2>2. ASSUME NEW id \in SessionId \ generated', NEW t \in Task, tasks'[t] # None
        PROVE  Apart(tasks'[t], id)
    <3>1. CASE /\ Runs(t) /\ tasks'[t].reply = tasks[t].reply
               /\ tasks'[t].sets \subseteq tasks[t].sets
               /\ tasks'[t].removals \subseteq tasks[t].removals
      <4>1. Apart(tasks[t], id)
        BY <1>1, <1>4, <2>2, <3>1
      <4> QED
        BY <3>1, <4>1 DEF Ids
    <3>2. CASE tasks'[t].reply = None /\ tasks'[t].sets = {} /\ tasks'[t].removals = {}
      BY <3>2, Bounds DEF Ids
    <3> QED
      BY <1>4, <2>2, <3>1, <3>2
  <2> QED
    BY <1>4, <2>1, <2>2
<1>5. ASSUME NEW o \in Task, NEW sets, NEW removals, NEW ends, NEW reply,
             Decision(o, sets, removals, ends, reply)
      PROVE  New
  <2>1. /\ Runs(o) /\ generated' = generated \cup ({reply} \ {None})
        /\ reply \in SessionId \cup {None} /\ reply \notin generated
        /\ \A e \in sets : Rewrites(o, e) \/ e.id = reply
        /\ \A s \in removals : s \in Ids(tasks[o].found)
                               \/ (tasks[o].op = "signout" /\ s = tasks[o].target)
    BY <1>5 DEF Decision
  <2>2. /\ tasks'[o].reply = reply /\ tasks'[o].sets = sets /\ tasks'[o].removals = removals
        /\ \A t \in Task : t # o => tasks'[t] = tasks[t]
    BY <1>5, DecisionWork
  <2>3. ASSUME NEW t \in Task, Runs(t), reply # None PROVE tasks[t].reply # reply
    BY <1>1, <2>1, <2>3
  <2>4. Alone
    BY <1>3, <2>2, <2>3 DEF Runs
  <2>5. ASSUME NEW id \in SessionId \ generated' PROVE Apart(tasks'[o], id)
    <3>1. id \in SessionId \ generated /\ id # reply
      BY <2>1, <2>5, Bounds
    <3>2. Unseen(id)
      BY <3>1 DEF IdsAreNew
    <3>3. id \notin Ids(tasks[o].found) /\ (tasks[o].target = id => tasks[o].op = "revoke one")
      BY <2>1, <3>2 DEF Unseen
    <3>4. id \notin Ids(sets)
      BY <2>1, <3>1, <3>3 DEF Rewrites, Ids
    <3>5. id \notin removals
      BY <2>1, <3>3
    <3> QED
      BY <2>2, <3>1, <3>4, <3>5
  <2>6. ASSUME NEW id \in SessionId \ generated', NEW t \in Task, tasks'[t] # None
        PROVE  Apart(tasks'[t], id)
    <3>1. t # o => Apart(tasks[t], id)
      BY <1>1, <2>1, <2>2, <2>6 DEF Runs
    <3> QED
      BY <2>2, <2>5, <2>6, <3>1
  <2> QED
    BY <2>1, <2>4, <2>6
<1> DEFINE Keeps(t) ==
               \/ Runs(t) /\ tasks'[t].reply = tasks[t].reply
                  /\ tasks'[t].sets \subseteq tasks[t].sets
                  /\ tasks'[t].removals \subseteq tasks[t].removals
               \/ tasks'[t].reply = None /\ tasks'[t].sets = {} /\ tasks'[t].removals = {}
<1>6. ASSUME NEW o \in Task, NEW op, NEW b, NEW u, NEW target, NEW reads,
             Begins(o, op, b, u, target, reads)
      PROVE  generated' = generated /\ \A t \in Task : tasks'[t] # None => Keeps(t)
  <2>1. /\ Begun(o, op, b, u, target, reads) /\ \A t \in Task : t # o => Undisturbed(t)
        /\ generated' = generated
    BY <1>6, BeginsWork
  <2>2. Keeps(o)
    BY <2>1 DEF Begun
  <2>3. ASSUME NEW t \in Task, t # o, tasks'[t] # None PROVE Keeps(t)
    BY <2>1, <2>3 DEF Undisturbed, Runs
  <2> QED
    BY <2>1, <2>2, <2>3
<1>7. ASSUME NEW t \in Task, tasks'[t] # None, tasks'[t] = tasks[t] PROVE Keeps(t)
  BY <1>7 DEF Runs
<1>8. ASSUME NEW o \in Task, NEW s \in SessionId, Read(o, s)
      PROVE  generated' = generated /\ \A t \in Task : tasks'[t] # None => Keeps(t)
  BY <1>7, <1>8, ReadWork DEF SameRequest
<1>9. ASSUME NEW o \in Task, NEW e, Set(o, e)
      PROVE  generated' = generated /\ \A t \in Task : tasks'[t] # None => Keeps(t)
  BY <1>7, <1>9, SetWork DEF SameRequest
<1>10. ASSUME NEW o \in Task, NEW s \in SessionId, Remove(o, s)
       PROVE  generated' = generated /\ \A t \in Task : tasks'[t] # None => Keeps(t)
  BY <1>7, <1>10, RemoveWork DEF SameRequest
<1>11. ASSUME NEW o \in Task, Answer(o)
       PROVE  generated' = generated /\ \A t \in Task : tasks'[t] # None => Keeps(t)
  BY <1>7, <1>11, AnswerWork
<1>12. CASE Idles
  <2>1. generated' = generated /\ \A t \in Task : tasks'[t] \in {tasks[t], None}
    BY <1>12 DEF Idles
  <2> QED
    BY <1>4, <1>7, <2>1
<1> HIDE DEF New
<1> QED
  BY <1>4, <1>5, <1>6, <1>8, <1>9, <1>10, <1>11, <1>12, StepKinds

LEMMA EndsNext ==
    TypeOK /\ PhasesInOrder /\ IdsAreNew /\ RewritesNothing /\ EndsAreFinal /\ [Next]_vars
    => EndsAreFinal'
<1> SUFFICES ASSUME TypeOK, PhasesInOrder, IdsAreNew, RewritesNothing, EndsAreFinal, [Next]_vars
             PROVE  EndsAreFinal'
  OBVIOUS
<1> DEFINE Due(task) == \A e \in task.sets : task.reply = e.id /\ \A f \in task.sets : f = e
           Ending(task) == \A id \in task.ends : id \in task.removals \/ store'[id] = None
           Came(t) == Runs(t) /\ tasks'[t].reply = tasks[t].reply /\ tasks'[t].sets \subseteq tasks[t].sets
                      /\ tasks'[t].ends = tasks[t].ends
           Went(t) == tasks'[t].sets = {} /\ tasks'[t].ends = {}
<1>1. \A t \in Task : Runs(t) =>
         /\ Due(tasks[t]) /\ \A e \in tasks[t].sets : Unseen(e.id)
         /\ \A id \in tasks[t].ends : id \in tasks[t].removals \/ store[id] = None
  BY DEF EndsAreFinal, Present
<1>2. \A id \in ended : store[id] = None
  BY DEF EndsAreFinal, Present
<1>3. \A t \in Task : Runs(t) => tasks[t].sets \subseteq Entry /\ tasks[t].ends \subseteq SessionId
  BY TaskIsWork
<1>4. \A e \in Entry : e.id \in SessionId /\ e.id # None
  BY Bounds DEF Entry
<1>5. \A t, o \in Task : Runs(t) /\ Runs(o) /\ tasks[t].reply = tasks[o].reply
         /\ tasks[t].reply # None => t = o
  BY DEF IdsAreNew
\* Setting a row meets no other session.
<1>6. ASSUME NEW o \in Task, NEW e, Set(o, e), NEW t \in Task, Runs(t), NEW f \in tasks[t].sets,
             e.id = f.id
      PROVE  t = o /\ e = f
  <2>1. Runs(o) /\ e \in tasks[o].sets
    BY <1>6, SetWork
  <2>2. tasks[o].reply = e.id /\ tasks[t].reply = f.id /\ e.id # None
    BY <1>1, <1>3, <1>4, <1>6, <2>1
  <2>3. t = o
    BY <1>5, <1>6, <2>1, <2>2
  <2> QED
    BY <1>1, <1>6, <2>1, <2>3
\* What was unseen and is not set yet remains so.
<1>7. ASSUME NEW t \in Task, tasks'[t] # None, Came(t), NEW f \in tasks'[t].sets
      PROVE  Unseen(f.id)'
  <2>1. /\ Runs(t) /\ f \in tasks[t].sets /\ Unseen(f.id) /\ f.id \in SessionId /\ f.id # None
        /\ tasks[t].reply = f.id
    BY <1>1, <1>3, <1>4, <1>7
  <2>2. ASSUME NEW o \in Task, NEW e, Set(o, e) PROVE e.id # f.id
    <3>1. SUFFICES ASSUME e.id = f.id PROVE FALSE
      OBVIOUS
    <3>2. t = o /\ e = f
      BY <1>6, <2>1, <2>2, <3>1
    <3>3. tasks'[o].sets = tasks[o].sets \ {e}
      BY <2>2, SetWork
    <3> QED
      BY <1>7, <3>2, <3>3
  <2>3. ASSUME NEW o \in Task, Answer(o) PROVE tasks[o].reply # f.id
    <3>1. Runs(o) /\ tasks[o].sets = {}
      BY <2>3, AnswerWork
    <3> QED
      BY <1>5, <2>1, <3>1
  <2> QED
    BY <2>1, <2>2, <2>3, UnseenStays
<1>8. SUFFICES /\ \A t \in Task : tasks'[t] # None => Came(t) \/ Due(tasks'[t])
               /\ \A t \in Task : tasks'[t] # None /\ ~Came(t) =>
                     \A e \in tasks'[t].sets : Unseen(e.id)'
               /\ \A id \in ended' : store'[id] = None
               /\ \A t \in Task : tasks'[t] # None => Ending(tasks'[t])
  <2>1. \A t \in Task : tasks'[t] # None =>
           Due(tasks'[t]) /\ \A e \in tasks'[t].sets : Unseen(e.id)'
    BY <1>1, <1>7, <1>8
  <2> QED
    BY <1>8, <2>1 DEF EndsAreFinal, Runs, Present
<1> DEFINE Done == /\ \A t \in Task : tasks'[t] # None => Came(t) \/ Due(tasks'[t])
                   /\ \A t \in Task : tasks'[t] # None /\ ~Came(t) =>
                         \A e \in tasks'[t].sets : Unseen(e.id)'
                   /\ \A id \in ended' : store'[id] = None
                   /\ \A t \in Task : tasks'[t] # None => Ending(tasks'[t])
<1>9. ASSUME \A t \in Task : tasks'[t] # None => Came(t) \/ Went(t),
             \A id \in ended' : store'[id] = None,
             \A t \in Task : tasks'[t] # None /\ Came(t) => Ending(tasks'[t])
      PROVE  Done
  BY <1>9
<1> DEFINE Quiet == \A id \in SessionId : store'[id] \in {store[id], None}
<1>10. ASSUME Quiet, ended' = ended PROVE \A id \in ended' : store'[id] = None
  <2>1. ended \subseteq SessionId
    BY DEF TypeOK
  <2> QED
    BY <1>2, <1>10, <2>1
<1>11. ASSUME Quiet, NEW t \in Task, Came(t), tasks[t].removals \subseteq tasks'[t].removals
       PROVE  Ending(tasks'[t])
  BY <1>1, <1>3, <1>11
<1>12. ASSUME NEW o \in Task, NEW op, NEW b, NEW u, NEW target, NEW reads,
              Begins(o, op, b, u, target, reads)
       PROVE  Done
  <2>1. /\ Begun(o, op, b, u, target, reads) /\ \A t \in Task : t # o => Undisturbed(t)
        /\ store' = store /\ ended' = ended
    BY <1>12, BeginsWork
  <2>2. Went(o) /\ Ending(tasks'[o])
    BY <2>1 DEF Begun
  <2>3. \A t \in Task : tasks'[t] # None /\ t # o =>
           Came(t) /\ tasks[t].removals \subseteq tasks'[t].removals
    BY <2>1 DEF Undisturbed, Runs
  <2>4. Quiet
    BY <2>1
  <2> HIDE DEF Quiet, Came, Went, Ending, Done
  <2> QED
    BY <1>9, <1>10, <1>11, <2>1, <2>2, <2>3, <2>4
<1>13. ASSUME NEW o \in Task, NEW s \in SessionId, Read(o, s) PROVE Done
  <2>1. /\ Runs(o) /\ SameRequest(o) /\ \A t \in Task : t # o => tasks'[t] = tasks[t]
        /\ tasks'[o].sets = tasks[o].sets /\ tasks'[o].removals = tasks[o].removals
        /\ store' = store /\ ended' = ended
    BY <1>13, ReadWork
  <2>2. \A t \in Task : tasks'[t] # None =>
           Came(t) /\ tasks[t].removals \subseteq tasks'[t].removals
    BY <2>1 DEF SameRequest, Runs
  <2>3. Quiet
    BY <2>1
  <2> HIDE DEF Quiet, Came, Went, Ending, Done
  <2> QED
    BY <1>9, <1>10, <1>11, <2>1, <2>2, <2>3
<1>14. ASSUME NEW o \in Task, NEW sets, NEW removals, NEW ends, NEW reply,
              Decision(o, sets, removals, ends, reply)
       PROVE  Done
  <2>1. /\ ends \subseteq removals /\ sets \subseteq Entry /\ reply \notin generated
        /\ \A e, f \in sets : e.id = reply /\ e = f
        /\ store' = store /\ ended' = ended
    BY <1>14 DEF Decision
  <2>2. /\ tasks'[o].sets = sets /\ tasks'[o].reply = reply
        /\ tasks'[o].ends = ends /\ tasks'[o].removals = removals
        /\ \A t \in Task : t # o => tasks'[t] = tasks[t]
    BY <1>14, DecisionWork
  <2>3. Due(tasks'[o]) /\ Ending(tasks'[o])
    BY <2>1, <2>2
  <2>4. ASSUME NEW e \in tasks'[o].sets PROVE Unseen(e.id)'
    <3>1. e.id \in SessionId \ generated
      BY <1>4, <2>1, <2>2
    <3> QED
      BY <3>1, NewIsApart, UnseenStays
  <2>5. \A t \in Task : tasks'[t] # None /\ t # o =>
           Came(t) /\ tasks[t].removals \subseteq tasks'[t].removals
    BY <2>2 DEF Runs
  <2>6. Quiet
    BY <2>1
  <2>7. \A id \in ended' : store'[id] = None
    BY <1>10, <2>1, <2>6
  <2> HIDE DEF Quiet, Came, Went, Ending, Due
  <2>8. \A t \in Task : tasks'[t] # None => Ending(tasks'[t])
    BY <1>11, <2>3, <2>5, <2>6
  <2> QED
    BY <2>3, <2>4, <2>5, <2>7, <2>8
<1>15. ASSUME NEW o \in Task, NEW e, Set(o, e) PROVE Done
  <2>1. /\ Runs(o) /\ SameRequest(o) /\ \A t \in Task : t # o => tasks'[t] = tasks[t]
        /\ tasks'[o].sets = tasks[o].sets \ {e} /\ tasks'[o].removals = tasks[o].removals
        /\ e \in tasks[o].sets /\ ended' = ended
        /\ \A id \in SessionId : store'[id] = IF id = e.id THEN e.row ELSE store[id]
    BY <1>15, SetWork
  <2>2. Unseen(e.id)
    BY <1>1, <2>1
  <2>3. \A id \in ended' : store'[id] = None
    <3>1. ended \subseteq SessionId /\ e.id \notin ended
      BY <2>2 DEF TypeOK, Unseen
    <3> QED
      BY <1>2, <2>1, <3>1
  <2>4. \A t \in Task : tasks'[t] # None =>
           Came(t) /\ tasks[t].removals \subseteq tasks'[t].removals
    BY <2>1 DEF SameRequest, Runs
  <2>5. ASSUME NEW t \in Task, tasks'[t] # None PROVE Ending(tasks'[t])
    <3>1. Runs(t) /\ tasks'[t].ends = tasks[t].ends /\ tasks[t].removals \subseteq tasks'[t].removals
      BY <2>4, <2>5
    <3>2. e.id \notin tasks[t].ends
      BY <2>2, <3>1 DEF Unseen
    <3> QED
      BY <1>1, <1>3, <2>1, <3>1, <3>2
  <2> HIDE DEF Came, Went, Ending, Done
  <2> QED
    BY <1>9, <2>3, <2>4, <2>5
<1>16. ASSUME NEW o \in Task, NEW s \in SessionId, Remove(o, s) PROVE Done
  <2>1. /\ Runs(o) /\ SameRequest(o) /\ \A t \in Task : t # o => tasks'[t] = tasks[t]
        /\ tasks'[o].sets = tasks[o].sets /\ tasks'[o].removals = tasks[o].removals \ {s}
        /\ ended' = ended
        /\ \A id \in SessionId : store'[id] = IF id = s THEN None ELSE store[id]
    BY <1>16, RemoveWork
  <2>2. Quiet
    BY <2>1
  <2>3. \A t \in Task : tasks'[t] # None => Came(t)
    BY <2>1 DEF SameRequest, Runs
  <2>4. ASSUME NEW t \in Task, tasks'[t] # None PROVE Ending(tasks'[t])
    <3>1. Runs(t) /\ tasks'[t].ends = tasks[t].ends
      BY <2>3, <2>4
    <3>2. tasks[t].removals \subseteq tasks'[t].removals \cup {s}
      BY <2>1
    <3> QED
      BY <1>1, <1>3, <2>1, <3>1, <3>2
  <2> HIDE DEF Quiet, Came, Went, Ending, Done
  <2> QED
    BY <1>9, <1>10, <2>1, <2>2, <2>3, <2>4
<1>17. ASSUME NEW o \in Task, Answer(o) PROVE Done
  <2>1. /\ Runs(o) /\ tasks'[o] = None /\ \A t \in Task : t # o => tasks'[t] = tasks[t]
        /\ tasks[o].removals = {} /\ ended' = ended \cup tasks[o].ends /\ store' = store
    BY <1>17, AnswerWork
  <2>2. Quiet
    BY <2>1
  <2>3. \A t \in Task : tasks'[t] # None =>
           Came(t) /\ tasks[t].removals \subseteq tasks'[t].removals
    BY <2>1 DEF Runs
  <2>4. \A id \in ended' : store'[id] = None
    BY <1>1, <1>2, <2>1
  <2> HIDE DEF Quiet, Came, Went, Ending, Done
  <2> QED
    BY <1>9, <1>11, <2>2, <2>3, <2>4
<1>18. CASE Idles
  <2>1. /\ \A t \in Task : tasks'[t] \in {tasks[t], None}
        /\ Quiet /\ ended' = ended
    BY <1>18 DEF Idles
  <2>2. \A t \in Task : tasks'[t] # None =>
           Came(t) /\ tasks[t].removals \subseteq tasks'[t].removals
    BY <2>1 DEF Runs
  <2> HIDE DEF Quiet, Came, Went, Ending, Done
  <2> QED
    BY <1>9, <1>10, <1>11, <2>1, <2>2
<1> QED
  BY <1>12, <1>13, <1>14, <1>15, <1>16, <1>17, <1>18, StepKinds

-------------------------------------------------------------------------------
(* The user records that sessions show.                                       *)

LEMMA VersionsNext ==
    TypeOK /\ PhasesInOrder /\ RefreshAlone /\ VersionsFollow /\ [Next]_vars => VersionsFollow'
<1> SUFFICES ASSUME TypeOK, PhasesInOrder, RefreshAlone, VersionsFollow, [Next]_vars
             PROVE  VersionsFollow'
  OBVIOUS
<1> DEFINE Follows(task) == task.user # None =>
               pushed[task.user] <= task.version /\ task.version <= account[task.user]
           FollowsNext(task) == task.user # None =>
               pushed'[task.user] <= task.version /\ task.version <= account'[task.user]
<1>1. /\ \A u \in User : pushed[u] <= account[u]
      /\ \A t \in Task : Runs(t) => Follows(tasks[t])
      /\ \A id \in SessionId, row \in Row : IsRow(id, row) => row.version >= pushed[row.user]
  BY DEF VersionsFollow
<1>2. \A u \in User : pushed[u] \in Nat /\ account[u] \in Nat
  <2>1. pushed \in [User -> 0 .. MaxVersion] /\ account \in [User -> 0 .. MaxVersion]
    BY DEF TypeOK
  <2> QED
    BY <2>1, Bounds
<1>3. \A t \in Task : Runs(t) => tasks[t].version \in Nat /\ tasks[t].user \in User \cup {None}
  BY TaskIsWork, Bounds
<1>4. \A row \in Row : row.user \in User /\ row.version \in Nat
  BY Bounds DEF Row
<1>5. SUFFICES /\ \A u \in User : pushed'[u] <= account'[u]
               /\ \A t \in Task : tasks'[t] # None => FollowsNext(tasks'[t])
               /\ \A id \in SessionId, row \in Row :
                     IsRow(id, row)' => row.version >= pushed'[row.user]
  BY DEF VersionsFollow, Runs
<1> DEFINE Same(t) == Runs(t) /\ tasks'[t].user = tasks[t].user /\ tasks'[t].version = tasks[t].version
           Done == /\ \A u \in User : pushed'[u] <= account'[u]
                   /\ \A t \in Task : tasks'[t] # None => FollowsNext(tasks'[t])
<1>6. ASSUME UNCHANGED <<pushed, account>>, \A t \in Task : tasks'[t] # None => Same(t) PROVE Done
  BY <1>1, <1>6
\* Every step but an answer.
<1>7. ASSUME pushed' = pushed, NEW id \in SessionId, NEW row \in Row, IsRow(id, row)'
      PROVE  row.version >= pushed'[row.user]
  <2>1. CASE IsRow(id, row)
    BY <1>1, <1>7, <2>1
  <2>2. CASE ~IsRow(id, row)
    <3>1. PICK t \in Task : \E sets, removals, ends, reply :
             Decision(t, sets, removals, ends, reply) /\ [id |-> id, row |-> row] \in sets
      BY <1>7, <2>2, RowsKept
    <3>2. PICK sets, removals, ends, reply :
             Decision(t, sets, removals, ends, reply) /\ [id |-> id, row |-> row] \in sets
      BY <3>1
    <3> DEFINE e == [id |-> id, row |-> row]
    <3>3. e.id = id /\ e.row = row /\ e \in sets
      BY <3>2
    <3> HIDE DEF e
    <3>4. /\ Runs(t)
          /\ Rewrites(t, e) \/ (e.row.user = tasks[t].user /\ e.row.version = tasks[t].version)
      BY <3>2, <3>3 DEF Decision
    <3>5. CASE row.user = tasks[t].user /\ row.version = tasks[t].version
      <4>1. tasks[t].user # None
        BY <1>4, <3>5, Bounds
      <4>2. pushed[row.user] <= row.version
        BY <1>1, <3>4, <3>5, <4>1
      <4> QED
        BY <1>2, <1>4, <1>7, <4>2
    <3>6. CASE Rewrites(t, e)
      <4>1. PICK old \in Row :
               /\ IsRow(id, old) /\ row.user = old.user
               /\ \/ row.version = old.version
                  \/ row.user = tasks[t].user /\ row.version = tasks[t].version
        BY <3>3, <3>4, <3>6, RewrittenRow
      <4>2. CASE row.version = old.version
        <5>1. old.version >= pushed[old.user]
          BY <1>1, <4>1
        <5> QED
          BY <1>7, <4>1, <4>2, <5>1
      <4> QED
        BY <3>5, <4>1, <4>2
    <3> QED
      BY <3>3, <3>4, <3>5, <3>6
  <2> QED
    BY <2>1, <2>2
<1>8. ASSUME NEW o \in Task, NEW op, NEW b, NEW u, NEW target, NEW reads,
             Begins(o, op, b, u, target, reads)
      PROVE  pushed' = pushed /\ Done
  <2>1. /\ Begun(o, op, b, u, target, reads) /\ \A t \in Task : t # o => Undisturbed(t)
        /\ pushed' = pushed /\ account' \in [User -> 0 .. MaxVersion] /\ u \in User \cup {None}
        /\ \A v \in User : account[v] <= account'[v]
    BY <1>8, BeginsWork
  <2>2. \A v \in User : account'[v] \in Nat /\ account[v] <= account'[v]
    BY <2>1, Bounds
  <2>3. \A v \in User : pushed[v] <= account'[v]
    BY <1>1, <1>2, <2>2
  <2>4. FollowsNext(tasks'[o])
    <3>1. tasks'[o].user = u /\ (u # None => tasks'[o].version = account'[u])
      BY <2>1 DEF Begun
    <3>2. u # None => account'[u] <= account'[u]
      BY <2>1, <2>2
    <3> QED
      BY <2>1, <2>3, <3>1, <3>2
  <2>5. ASSUME NEW t \in Task, t # o, tasks'[t] # None PROVE FollowsNext(tasks'[t])
    <3>1. Same(t)
      BY <2>1, <2>5 DEF Undisturbed, Runs
    <3>2. Follows(tasks[t]) /\ tasks[t].version \in Nat /\ tasks[t].user \in User \cup {None}
      BY <1>1, <1>3, <3>1
    <3> QED
      BY <1>2, <2>1, <2>2, <3>1, <3>2
  <2> HIDE DEF FollowsNext
  <2> QED
    BY <2>1, <2>3, <2>4, <2>5
<1>9. ASSUME NEW t \in Task, tasks'[t] # None, tasks'[t] = tasks[t] PROVE Same(t)
  BY <1>9 DEF Runs
<1>10. ASSUME NEW o \in Task, NEW s \in SessionId, Read(o, s) PROVE pushed' = pushed /\ Done
  <2>1. UNCHANGED <<pushed, account>> /\ \A t \in Task : tasks'[t] # None => Same(t)
    BY <1>9, <1>10, ReadWork DEF SameRequest
  <2> QED
    BY <1>6, <2>1
<1>11. ASSUME NEW o \in Task, NEW sets, NEW removals, NEW ends, NEW reply,
              Decision(o, sets, removals, ends, reply)
       PROVE  pushed' = pushed /\ Done
  <2>1. UNCHANGED <<pushed, account>> /\ Runs(o)
    BY <1>11 DEF Decision
  <2>2. \A t \in Task : tasks'[t] # None => Same(t)
    BY <1>9, <1>11, <2>1, DecisionWork
  <2> QED
    BY <1>6, <2>1, <2>2
<1>12. ASSUME NEW o \in Task, NEW e, Set(o, e) PROVE pushed' = pushed /\ Done
  <2>1. UNCHANGED <<pushed, account>> /\ \A t \in Task : tasks'[t] # None => Same(t)
    BY <1>9, <1>12, SetWork DEF SameRequest
  <2> QED
    BY <1>6, <2>1
<1>13. ASSUME NEW o \in Task, NEW s \in SessionId, Remove(o, s) PROVE pushed' = pushed /\ Done
  <2>1. UNCHANGED <<pushed, account>> /\ \A t \in Task : tasks'[t] # None => Same(t)
    BY <1>9, <1>13, RemoveWork DEF SameRequest
  <2> QED
    BY <1>6, <2>1
<1>14. ASSUME Idles PROVE pushed' = pushed /\ Done
  <2>1. UNCHANGED <<pushed, account>> /\ \A t \in Task : tasks'[t] \in {tasks[t], None}
    BY <1>14 DEF Idles
  <2>2. \A t \in Task : tasks'[t] # None => Same(t)
    BY <1>9, <2>1
  <2> QED
    BY <1>6, <2>1, <2>2
\* An answer: if it was a refresh that no request overlapped, no other request runs.
<1>15. ASSUME NEW o \in Task, Answer(o)
       PROVE  /\ Done
              /\ \A id \in SessionId, row \in Row : IsRow(id, row)' => row.version >= pushed'[row.user]
  <2>1. /\ Runs(o) /\ tasks[o].phase = "write" /\ tasks[o].sets = {} /\ tasks'[o] = None
        /\ \A t \in Task : t # o => tasks'[t] = tasks[t]
        /\ UNCHANGED <<store, account>>
        /\ \A u \in User : pushed'[u] =
              IF tasks[o].op = "refresh" /\ tasks[o].alone /\ u = tasks[o].user
              THEN tasks[o].version ELSE pushed[u]
    BY <1>15, AnswerWork
  <2>2. Follows(tasks[o]) /\ tasks[o].version \in Nat
    BY <1>1, <1>3, <2>1
  <2>3. ASSUME NEW u \in User PROVE pushed'[u] <= account'[u]
    <3>1. u = tasks[o].user => tasks[o].version <= account[u]
      BY <2>2, Bounds
    <3>2. pushed[u] <= account[u]
      BY <1>1
    <3>3. account'[u] = account[u]
      BY <2>1
    <3>4. CASE u = tasks[o].user /\ pushed'[u] = tasks[o].version
      BY <3>1, <3>3, <3>4
    <3>5. CASE pushed'[u] = pushed[u]
      BY <3>2, <3>3, <3>5
    <3> QED
      BY <2>1, <3>4, <3>5
  <2>4. CASE ~(tasks[o].op = "refresh" /\ tasks[o].alone)
    <3>1. \A u \in User : pushed'[u] = pushed[u]
      BY <2>1, <2>4
    <3>2. ASSUME NEW t \in Task, tasks'[t] # None PROVE FollowsNext(tasks'[t])
      <4>1. tasks'[t] = tasks[t] /\ Runs(t)
        BY <2>1, <3>2 DEF Runs
      <4>2. Follows(tasks[t]) /\ tasks[t].user \in User \cup {None}
        BY <1>1, <1>3, <4>1
      <4> QED
        BY <2>1, <3>1, <4>1, <4>2
    <3>3. pushed' = pushed
      BY <2>1, <2>4, <1>15 DEF Answer
    <3> HIDE DEF FollowsNext
    <3> QED
      BY <1>7, <2>3, <3>2, <3>3
  <2>5. CASE tasks[o].op = "refresh" /\ tasks[o].alone
    <3>1. /\ \A t \in Task : Runs(t) => t = o
          /\ \A id \in SessionId : Present(id) /\ store[id].user = tasks[o].user =>
                store[id].version >= tasks[o].version
      BY <2>1, <2>5 DEF RefreshAlone, Ids
    <3>2. \A t \in Task : tasks'[t] = None
      BY <2>1, <3>1 DEF Runs
    <3>3. ASSUME NEW id \in SessionId, NEW row \in Row, IsRow(id, row)'
          PROVE  row.version >= pushed'[row.user]
      <4>1. store[id] # None /\ row = store[id]
        BY <2>1, <3>2, <3>3 DEF IsRow, Runs, Present
      <4>2. IsRow(id, row)
        BY <4>1 DEF IsRow, Present
      <4>3. row.version >= pushed[row.user]
        BY <1>1, <4>2
      <4>4. row.user = tasks[o].user => row.version >= tasks[o].version
        BY <3>1, <4>1 DEF Present
      <4> QED
        BY <1>4, <2>1, <4>3, <4>4
    <3> QED
      BY <2>3, <3>2, <3>3
  <2> QED
    BY <2>4, <2>5
<1> DEFINE Rows == \A id \in SessionId, row \in Row :
                       IsRow(id, row)' => row.version >= pushed'[row.user]
<1>16. ASSUME pushed' = pushed, Done PROVE Done /\ Rows
  BY <1>7, <1>16
<1> HIDE DEF Done, Rows
<1>17. ASSUME NEW o \in Task, NEW op, NEW b, NEW u, NEW target, NEW reads,
              Begins(o, op, b, u, target, reads)
       PROVE  Done /\ Rows
  BY <1>8, <1>16, <1>17
<1>18. ASSUME NEW o \in Task, NEW s \in SessionId, Read(o, s) PROVE Done /\ Rows
  BY <1>10, <1>16, <1>18
<1>19. ASSUME NEW o \in Task, NEW sets, NEW removals, NEW ends, NEW reply,
              Decision(o, sets, removals, ends, reply)
       PROVE  Done /\ Rows
  BY <1>11, <1>16, <1>19
<1>20. ASSUME NEW o \in Task, NEW e, Set(o, e) PROVE Done /\ Rows
  BY <1>12, <1>16, <1>20
<1>21. ASSUME NEW o \in Task, NEW s \in SessionId, Remove(o, s) PROVE Done /\ Rows
  BY <1>13, <1>16, <1>21
<1>22. ASSUME NEW o \in Task, Answer(o) PROVE Done /\ Rows
  BY <1>15, <1>22 DEF Rows
<1>23. ASSUME Idles PROVE Done /\ Rows
  BY <1>14, <1>16, <1>23
<1>24. Done /\ Rows
  BY <1>17, <1>18, <1>19, <1>20, <1>21, <1>22, <1>23, StepKinds
<1> QED
  BY <1>24 DEF Done, Rows

\* A refresh that no request overlaps misses no session.
LEMMA AloneNext == TypeOK /\ PhasesInOrder /\ RefreshAlone /\ [Next]_vars => RefreshAlone'
<1> SUFFICES ASSUME TypeOK, PhasesInOrder, RefreshAlone, [Next]_vars,
                    NEW t \in Task, tasks'[t] # None, tasks'[t].alone
             PROVE  /\ tasks'[t].op = "refresh" /\ tasks'[t].user \in User
                    /\ \A o \in Task : tasks'[o] # None => o = t
                    /\ \A e \in tasks'[t].sets : e.row.version = tasks'[t].version
                    /\ \A id \in SessionId : store'[id] # None =>
                          IF tasks'[t].phase = "read"
                          THEN id \in tasks'[t].reads
                               \/ [id |-> id, row |-> store'[id]] \in tasks'[t].found
                          ELSE store'[id].user = tasks'[t].user =>
                               store'[id].version >= tasks'[t].version \/ id \in Ids(tasks'[t].sets)
  BY DEF RefreshAlone, Runs, Present, Ids
<1> DEFINE Only == \A o \in Task : tasks'[o] # None => o = t
           Reads(id) == id \in tasks'[t].reads \/ [id |-> id, row |-> store'[id]] \in tasks'[t].found
           Writes(id) == store'[id].user = tasks'[t].user =>
                         store'[id].version >= tasks'[t].version \/ id \in Ids(tasks'[t].sets)
           Done == /\ tasks'[t].op = "refresh" /\ tasks'[t].user \in User /\ Only
                   /\ \A e \in tasks'[t].sets : e.row.version = tasks'[t].version
                   /\ \A id \in SessionId : store'[id] # None =>
                         IF tasks'[t].phase = "read" THEN Reads(id) ELSE Writes(id)
<1> SUFFICES Done
  OBVIOUS
<1>1. ASSUME Runs(t), tasks[t].alone
      PROVE  /\ tasks[t].op = "refresh" /\ tasks[t].user \in User
             /\ \A o \in Task : Runs(o) => o = t
             /\ \A e \in tasks[t].sets : e.row.version = tasks[t].version
             /\ \A id \in SessionId : store[id] # None =>
                   IF tasks[t].phase = "read"
                   THEN id \in tasks[t].reads \/ [id |-> id, row |-> store[id]] \in tasks[t].found
                   ELSE store[id].user = tasks[t].user =>
                        store[id].version >= tasks[t].version \/ id \in Ids(tasks[t].sets)
  BY <1>1 DEF RefreshAlone, Present
<1>2. ASSUME NEW o \in Task, NEW op, NEW b, NEW u, NEW target, NEW reads,
             Begins(o, op, b, u, target, reads)
      PROVE  Done
  <2>1. /\ Begun(o, op, b, u, target, reads) /\ store' = store
        /\ \A s \in Task : s # o => Undisturbed(s) /\ (Runs(s) => tasks'[s].alone = FALSE)
    BY <1>2, BeginsWork
  <2>2. t = o
    BY <2>1 DEF Undisturbed, Runs
  <2>3. /\ tasks'[t].op = op /\ tasks'[t].user = u /\ tasks'[t].phase = "read"
        /\ tasks'[t].reads = reads /\ tasks'[t].sets = {}
    BY <2>1, <2>2 DEF Begun
  <2>4. op = "refresh" /\ \A s \in Task : ~Runs(s)
    BY <2>1, <2>2 DEF Begun
  <2>5. u \in User /\ reads = Listed
    BY <1>2, <2>4 DEF Begins
  <2>6. Only
    BY <2>1, <2>2, <2>4 DEF Undisturbed, Runs
  <2>7. \A id \in SessionId : store'[id] # None => id \in tasks'[t].reads
    BY <2>1, <2>3, <2>5 DEF Listed, Present
  <2> QED
    BY <2>3, <2>4, <2>5, <2>6, <2>7
<1>3. ASSUME NEW o \in Task, Runs(o), \A s \in Task : s # o => tasks'[s] = tasks[s],
             tasks'[o] # None => tasks'[o].alone = tasks[o].alone
      PROVE  Runs(t) /\ tasks[t].alone /\ t = o /\ Only
  <2>1. Runs(t) /\ tasks[t].alone
    BY <1>3 DEF Runs
  <2>2. \A s \in Task : Runs(s) => s = t
    BY <1>1, <2>1
  <2> QED
    BY <1>3, <2>1, <2>2 DEF Runs
<1>4. ASSUME NEW o \in Task, NEW s \in SessionId, Read(o, s) PROVE Done
  <2>1. /\ Runs(o) /\ SameRequest(o) /\ \A r \in Task : r # o => tasks'[r] = tasks[r]
        /\ tasks[o].phase = "read" /\ store' = store
        /\ tasks'[o].reads = tasks[o].reads \ {s}
        /\ tasks'[o].found = IF Present(s)
                             THEN tasks[o].found \cup {[id |-> s, row |-> store[s]]}
                             ELSE tasks[o].found
        /\ tasks'[o].sets = tasks[o].sets
    BY <1>4, ReadWork
  <2>2. Runs(t) /\ tasks[t].alone /\ t = o /\ Only
    BY <1>3, <2>1 DEF SameRequest
  <2>3. /\ tasks'[t].op = tasks[t].op /\ tasks'[t].user = tasks[t].user
        /\ tasks'[t].version = tasks[t].version /\ tasks'[t].phase = "read"
    BY <2>1, <2>2 DEF SameRequest
  <2>4. ASSUME NEW id \in SessionId, store'[id] # None PROVE Reads(id)
    <3>1. id \in tasks[t].reads \/ [id |-> id, row |-> store[id]] \in tasks[t].found
      BY <1>1, <2>1, <2>2, <2>4
    <3>2. CASE id = s
      BY <2>1, <2>2, <2>4, <3>2 DEF Present
    <3>3. CASE id # s
      BY <2>1, <2>2, <3>1, <3>3
    <3> QED
      BY <3>2, <3>3
  <2> HIDE DEF Reads, Writes, Only
  <2> QED
    BY <1>1, <2>1, <2>2, <2>3, <2>4
<1>5. ASSUME NEW o \in Task, NEW sets, NEW removals, NEW ends, NEW reply,
             Decision(o, sets, removals, ends, reply)
      PROVE  Done
  <2>1. /\ Runs(o) /\ tasks[o].phase = "read" /\ tasks[o].reads = {} /\ store' = store
        /\ tasks[o].op = "refresh" =>
              /\ \A e \in sets : e.row.version = tasks[o].version
              /\ \A f \in tasks[o].found : f.row.user = tasks[o].user => f.id \in Ids(sets)
    BY <1>5 DEF Decision
  <2>2. /\ tasks'[o].phase = "write" /\ tasks'[o].sets = sets
        /\ tasks'[o].op = tasks[o].op /\ tasks'[o].user = tasks[o].user
        /\ tasks'[o].version = tasks[o].version /\ tasks'[o].alone = tasks[o].alone
        /\ \A r \in Task : r # o => tasks'[r] = tasks[r]
    BY <1>5, DecisionWork
  <2>3. Runs(t) /\ tasks[t].alone /\ t = o /\ Only
    BY <1>3, <2>1, <2>2
  <2>4. ASSUME NEW id \in SessionId, store'[id] # None PROVE Writes(id)
    <3> DEFINE f == [id |-> id, row |-> store[id]]
    <3>1. f \in tasks[t].found
      BY <1>1, <2>1, <2>3, <2>4
    <3>2. f.id = id /\ f.row = store[id]
      OBVIOUS
    <3> HIDE DEF f
    <3> QED
      BY <1>1, <2>1, <2>2, <2>3, <3>1, <3>2
  <2> HIDE DEF Reads, Writes, Only
  <2> QED
    BY <1>1, <2>1, <2>2, <2>3, <2>4
<1>6. ASSUME NEW o \in Task, NEW e, Set(o, e) PROVE Done
  <2>1. /\ Runs(o) /\ SameRequest(o) /\ \A r \in Task : r # o => tasks'[r] = tasks[r]
        /\ tasks[o].phase = "write" /\ tasks'[o].sets = tasks[o].sets \ {e}
        /\ e \in tasks[o].sets /\ e.row \in Row
        /\ \A id \in SessionId : store'[id] = IF id = e.id THEN e.row ELSE store[id]
    BY <1>6, SetWork
  <2>2. Runs(t) /\ tasks[t].alone /\ t = o /\ Only
    BY <1>3, <2>1 DEF SameRequest
  <2>3. /\ tasks'[t].op = tasks[t].op /\ tasks'[t].user = tasks[t].user
        /\ tasks'[t].version = tasks[t].version /\ tasks'[t].phase = "write"
    BY <2>1, <2>2 DEF SameRequest
  <2>4. ASSUME NEW id \in SessionId, store'[id] # None PROVE Writes(id)
    <3>1. CASE id = e.id
      <4>1. e.row.version = tasks[t].version
        BY <1>1, <2>1, <2>2
      <4>2. tasks[t].version \in Nat
        BY <2>2, TaskIsWork, Bounds
      <4> QED
        BY <2>1, <2>3, <3>1, <4>1, <4>2
    <3>2. CASE id # e.id
      <4>1. store'[id] = store[id]
        BY <2>1, <3>2
      <4>2. store[id].user = tasks[t].user =>
               store[id].version >= tasks[t].version \/ id \in Ids(tasks[t].sets)
        BY <1>1, <2>1, <2>2, <2>4, <4>1
      <4>3. id \in Ids(tasks[t].sets) => id \in Ids(tasks'[t].sets)
        BY <2>1, <2>2, <3>2 DEF Ids
      <4> QED
        BY <2>3, <4>1, <4>2, <4>3
    <3> QED
      BY <3>1, <3>2
  <2> HIDE DEF Reads, Writes, Only
  <2> QED
    BY <1>1, <2>1, <2>2, <2>3, <2>4
<1>7. ASSUME Runs(t), tasks[t].alone, Only, SameRequest(t), tasks'[t].reads = tasks[t].reads,
             tasks'[t].found = tasks[t].found, tasks'[t].sets = tasks[t].sets,
             \A id \in SessionId : store'[id] \in {store[id], None}
      PROVE  Done
  BY <1>1, <1>7 DEF SameRequest
<1>8. ASSUME NEW o \in Task, NEW s \in SessionId, Remove(o, s) PROVE Done
  <2>1. /\ Runs(o) /\ SameRequest(o) /\ \A r \in Task : r # o => tasks'[r] = tasks[r]
        /\ tasks'[o].reads = tasks[o].reads /\ tasks'[o].found = tasks[o].found
        /\ tasks'[o].sets = tasks[o].sets
        /\ \A id \in SessionId : store'[id] = IF id = s THEN None ELSE store[id]
    BY <1>8, RemoveWork
  <2>2. Runs(t) /\ tasks[t].alone /\ t = o /\ Only
    BY <1>3, <2>1 DEF SameRequest
  <2> HIDE DEF Only, Done
  <2> QED
    BY <1>7, <2>1, <2>2
<1>9. ASSUME NEW o \in Task, Answer(o) PROVE FALSE
  <2>1. Runs(o) /\ tasks'[o] = None /\ \A r \in Task : r # o => tasks'[r] = tasks[r]
    BY <1>9, AnswerWork
  <2> QED
    BY <1>3, <2>1
<1>10. CASE Idles
  <2>1. /\ \A r \in Task : tasks'[r] \in {tasks[r], None}
        /\ \A id \in SessionId : store'[id] \in {store[id], None}
    BY <1>10 DEF Idles
  <2>2. Runs(t) /\ tasks'[t] = tasks[t]
    BY <2>1 DEF Runs
  <2>3. Only
    BY <1>1, <2>1, <2>2 DEF Runs
  <2> HIDE DEF Only, Done
  <2> QED
    BY <1>7, <2>1, <2>2, <2>3 DEF SameRequest
<1> HIDE DEF Done
<1> QED
  BY <1>2, <1>4, <1>5, <1>6, <1>8, <1>9, <1>10, StepKinds

-------------------------------------------------------------------------------
(* The invariant, and what follows from it.                                   *)

LEMMA InvInit == Init => IInv
<1> SUFFICES ASSUME Init PROVE IInv
  OBVIOUS
<1>1. TypeOK
  BY TypeInit
<1>2. /\ \A t \in Task : ~Runs(t)
      /\ \A id \in SessionId : ~Present(id)
  BY DEF Init, Runs, Present
<1>3. \A id \in SessionId : \A row : ~IsRow(id, row)
  BY <1>2 DEF IsRow
<1>4. PhasesInOrder /\ RefreshAlone /\ EndsAreFinal
  BY <1>2 DEF PhasesInOrder, RefreshAlone, EndsAreFinal, Init
<1>5. HasOneOwner
  <2>1. [id \in SessionId |-> None] \in [SessionId -> User \cup {None}]
    OBVIOUS
  <2> QED
    BY <1>3, <2>1 DEF HasOneOwner, IsOwnerOf
<1>6. HasOneExpiry
  <2>1. 0 \in 0 .. MaxTime + Duration
    BY Bounds
  <2>2. [id \in SessionId |-> 0] \in [SessionId -> 0 .. MaxTime + Duration]
    BY <2>1
  <2> QED
    BY <1>2, <1>3, <2>2 DEF HasOneExpiry, IsExpiryOf
<1>7. IdsAreNew
  <2>1. \A id \in SessionId : Unseen(id)
    BY <1>2, Bounds DEF Unseen, Init
  <2> QED
    BY <1>2, <2>1 DEF IdsAreNew
<1>8. VersionsFollow
  <2>1. \A u \in User : pushed[u] = 0 /\ account[u] = 0
    BY DEF Init
  <2> QED
    BY <1>2, <1>3, <2>1 DEF VersionsFollow
<1> QED
  BY <1>1, <1>4, <1>5, <1>6, <1>7, <1>8 DEF IInv

LEMMA InvNext == IInv /\ [Next]_vars => IInv'
<1> SUFFICES ASSUME IInv, [Next]_vars PROVE IInv'
  OBVIOUS
<1>1. TypeOK /\ PhasesInOrder /\ HasOneOwner /\ IdsAreNew /\ VersionsFollow /\ RefreshAlone
  BY DEF IInv
<1>2. operations' = operations
  BY <1>1, TimePasses
<1>3. TypeOK' /\ PhasesInOrder' /\ IdsAreNew' /\ HasOneOwner'
  BY <1>1, TypeNext, PhasesNext, IdsNext, OwnerNext
<1>4. VersionsFollow' /\ RefreshAlone'
  BY <1>1, VersionsNext, AloneNext
<1>5. ("renew" \notin operations => HasOneExpiry)'
  <2>1. "renew" \notin operations => HasOneExpiry'
    BY <1>1, ExpiryNext DEF IInv
  <2> QED
    BY <1>2, <2>1
<1>6. (RewritesNothing => EndsAreFinal)'
  <2>1. RewritesNothing' = RewritesNothing
    BY <1>2 DEF RewritesNothing
  <2>2. RewritesNothing => EndsAreFinal'
    BY <1>1, EndsNext DEF IInv
  <2> QED
    BY <2>1, <2>2
<1> QED
  BY <1>3, <1>4, <1>5, <1>6 DEF IInv

\* In every state requests and rows are consistent: phases in order, new ids, one owner and
\* one expiry for each session, user records that follow the ones pushed.
THEOREM Invariant == Spec => []IInv
<1>1. Init => IInv
  BY InvInit
<1>2. IInv /\ [Next]_vars => IInv'
  BY InvNext
<1> QED
  BY <1>1, <1>2, PTL DEF Spec

\* Rows, cookies and requests keep their types (the stores' schemas).
THEOREM TypeCorrect == Spec => []TypeOK
<1>1. IInv => TypeOK
  BY DEF IInv
<1> QED
  BY <1>1, Invariant, PTL

\* Where no request rewrites a stored row, a session that a sign-out, a rotating sign-in or
\* a revocation has answered for does not come back; where one does, it does not once no
\* request in flight has its row (removeSession after getSession, setSession).
THEOREM EndedIsGone == Spec => EndedStaysEnded
<1> DEFINE Mute == operations \cap {"passkey", "refresh", "renew", "link"} = {} => NoneResurrected
           Keeps == \A id \in SessionId : Gone(id) => Gone(id)'
<1>1. IInv => Mute
  BY DEF IInv, RewritesNothing, EndsAreFinal, NoneResurrected
<1>2. IInv /\ [Next]_vars => Keeps
  <2> SUFFICES ASSUME IInv, [Next]_vars, NEW id \in SessionId, Gone(id)
               PROVE  Gone(id)'
    OBVIOUS
  <2>1. TypeOK /\ PhasesInOrder /\ IdsAreNew /\ TypeOK'
    BY InvNext DEF IInv
  <2>2. \A row \in Row : ~IsRow(id, row)
    <3>1. \A row : [id |-> id, row |-> row].id = id
      OBVIOUS
    <3> QED
      BY <3>1 DEF Gone, IsRow, Knows, Runs, Ids
  <2>3. ASSUME NEW row \in Row, IsRow(id, row)' PROVE FALSE
    <3>0. PICK t \in Task :
             \E sets, removals, ends, reply :
                 Decision(t, sets, removals, ends, reply) /\ [id |-> id, row |-> row] \in sets
      BY <2>1, <2>2, <2>3, RowsKept
    <3>1. PICK sets, removals, ends, reply :
             Decision(t, sets, removals, ends, reply) /\ [id |-> id, row |-> row] \in sets
      BY <3>0
    <3> DEFINE e == [id |-> id, row |-> row]
    <3>2. e.id = id /\ e \in sets
      BY <3>1
    <3> HIDE DEF e
    <3>3. Runs(t) /\ (Rewrites(t, e) \/ e.id = reply)
      BY <3>1, <3>2 DEF Decision
    <3>4. CASE Rewrites(t, e)
      BY <2>1, <2>2, <3>2, <3>3, <3>4, RewrittenRow
    <3>5. CASE e.id = reply
      BY <2>1, <3>1, <3>2, <3>5 DEF Decision, IdsAreNew, Unseen, Gone
    <3> QED
      BY <3>3, <3>4, <3>5
  <2>4. id \in ended'
    <3>1. ended \subseteq ended'
      <4>1. ASSUME NEW t \in Task, NEW op, NEW b, NEW u, NEW target, NEW reads,
                   Begins(t, op, b, u, target, reads)
            PROVE  ended' = ended
        BY <2>1, <4>1, BeginsWork
      <4>2. ASSUME NEW t \in Task, NEW sets, NEW removals, NEW ends, NEW reply,
                   Decision(t, sets, removals, ends, reply)
            PROVE  ended' = ended
        BY <4>2 DEF Decision
      <4>3. ASSUME NEW t \in Task, NEW s \in SessionId, Read(t, s) \/ Remove(t, s)
            PROVE  ended' = ended
        BY <4>3 DEF Read, Remove
      <4>4. ASSUME NEW t \in Task, NEW e, Set(t, e) PROVE ended' = ended
        BY <4>4 DEF Set
      <4>5. ASSUME NEW t \in Task, Answer(t) PROVE ended \subseteq ended'
        BY <4>5 DEF Answer
      <4>6. CASE Idles
        BY <4>6 DEF Idles
      <4> QED
        BY <2>1, <4>1, <4>2, <4>3, <4>4, <4>5, <4>6, StepKinds
    <3> QED
      BY <3>1 DEF Gone
  <2>5. store'[id] = None
    <3>1. store'[id] \in Row \cup {None}
      BY <2>1 DEF TypeOK
    <3> QED
      BY <2>3, <3>1 DEF IsRow, Present
  <2>6. ASSUME NEW t \in Task, tasks'[t] # None, NEW e \in tasks'[t].found \cup tasks'[t].sets
        PROVE  e.id # id
    <3>1. e \in Entry
      BY <2>1, <2>6 DEF TypeOK, Work
    <3>2. e = [id |-> e.id, row |-> e.row] /\ e.row \in Row
      BY <3>1 DEF Entry
    <3>3. e.id = id => IsRow(id, e.row)'
      BY <2>6, <3>2 DEF IsRow, Knows, Runs
    <3> QED
      BY <2>3, <3>2, <3>3
  <2> QED
    BY <2>4, <2>5, <2>6 DEF Gone, Present, Ids
<1>3. IInv /\ [Next]_vars => [Keeps]_vars
  BY <1>2
<1> QED
  BY <1>1, <1>3, Invariant, PTL DEF Spec, EndedStaysEnded

\* A session leaves the store only because it expired, was evicted or is being ended, where
\* no request extends expiries (loadSessionFromSource, performStoreCleanup).
THEOREM LiveSessionsStay == Spec => LiveSessionsSurvive
<1> DEFINE Survives ==
        \A id \in SessionId :
          "renew" \notin operations /\ Present(id) /\ store'[id] = None =>
             \/ store[id].expiresAt < now
             \/ id \in evicted
             \/ \E t \in Task : tasks[t] # None /\ id \in tasks[t].ends
<1>1. IInv /\ [Next]_vars => Survives
  <2> SUFFICES ASSUME IInv, [Next]_vars, NEW id \in SessionId, "renew" \notin operations,
                      Present(id), store'[id] = None
               PROVE  \/ store[id].expiresAt < now
                      \/ id \in evicted
                      \/ \E t \in Task : tasks[t] # None /\ id \in tasks[t].ends
    OBVIOUS
  <2>1. TypeOK /\ PhasesInOrder /\ HasOneExpiry
    BY DEF IInv
  <2>2. store[id] # None /\ store[id] \in Row
    BY <2>1 DEF TypeOK, Present
  <2>3. CASE store' = store
    BY <2>2, <2>3
  <2>4. ASSUME NEW o \in Task, NEW s \in SessionId, Remove(o, s), store'[id] # store[id]
        PROVE  \/ store[id].expiresAt < now
               \/ id \in evicted
               \/ \E t \in Task : tasks[t] # None /\ id \in tasks[t].ends
    <3>1. Runs(o) /\ id \in tasks[o].removals
      BY <2>1, <2>4, RemoveWork
    <3>2. PICK expiry \in [SessionId -> 0 .. MaxTime + Duration] : IsExpiryOf(expiry)
      BY <2>1 DEF HasOneExpiry
    <3>3. id \in tasks[o].ends \/ id \in evicted \/ expiry[id] < now
      BY <3>1, <3>2 DEF IsExpiryOf
    <3>4. IsRow(id, store[id])
      BY DEF IsRow
    <3>5. store[id].expiresAt = expiry[id]
      BY <2>2, <3>2, <3>4 DEF IsExpiryOf
    <3> QED
      BY <3>1, <3>3, <3>5 DEF Runs
  <2>5. ASSUME NEW o \in Task, NEW e, Set(o, e) PROVE FALSE
    <3>1. /\ store'[id] = IF id = e.id THEN e.row ELSE store[id]
          /\ e.row # None
      BY <2>1, <2>5, SetWork
    <3> QED
      BY <2>2, <3>1
  <2>6. CASE Idles
    BY <2>2, <2>6 DEF Idles
  <2>7. ASSUME NEW o \in Task, NEW op, NEW b, NEW u, NEW target, NEW reads,
               Begins(o, op, b, u, target, reads)
        PROVE  store' = store
    BY <2>1, <2>7, BeginsWork
  <2>8. ASSUME NEW o \in Task, NEW s \in SessionId, Read(o, s) PROVE store' = store
    BY <2>1, <2>8, ReadWork
  <2>9. ASSUME NEW o \in Task, NEW sets, NEW removals, NEW ends, NEW reply,
               Decision(o, sets, removals, ends, reply)
        PROVE  store' = store
    BY <2>9 DEF Decision
  <2>10. ASSUME NEW o \in Task, Answer(o) PROVE store' = store
    BY <2>1, <2>10, AnswerWork
  <2>11. store'[id] # store[id]
    BY <2>2
  <2> QED
    BY <2>1, <2>3, <2>4, <2>5, <2>6, <2>7, <2>8, <2>9, <2>10, <2>11, StepKinds
<1>2. IInv /\ [Next]_vars => [Survives]_vars
  BY <1>1
<1> QED
  BY <1>2, Invariant, PTL DEF Spec, LiveSessionsSurvive

\* Sign-ins and requests that rewrite stored rows never give a session to another user nor
\* take back a user record that a refresh nobody overlapped had pushed (refreshUserSessions).
THEOREM RowsAreTheirUsers == Spec => RowsStayTheirUsers
<1> DEFINE Keeps ==
        \A id \in SessionId : Present(id) /\ store'[id] # None => store'[id].user = store[id].user
<1>1. IInv => TypeOK /\ PushedSnapshotStays
  <2> SUFFICES ASSUME IInv PROVE PushedSnapshotStays
    BY DEF IInv
  <2>1. TypeOK /\ VersionsFollow
    BY DEF IInv
  <2>2. ASSUME NEW id \in Listed PROVE store[id].version >= pushed[store[id].user]
    <3>1. id \in SessionId /\ Present(id) /\ store[id] \in Row
      BY <2>1 DEF Listed, Present, TypeOK
    <3>2. IsRow(id, store[id])
      BY <3>1 DEF IsRow
    <3> QED
      BY <2>1, <3>1, <3>2 DEF VersionsFollow
  <2> QED
    BY <2>2 DEF PushedSnapshotStays
<1>2. IInv /\ [Next]_vars => Keeps
  <2> SUFFICES ASSUME IInv, [Next]_vars, NEW id \in SessionId, Present(id), store'[id] # None
               PROVE  store'[id].user = store[id].user
    OBVIOUS
  <2>1. TypeOK /\ PhasesInOrder /\ HasOneOwner /\ TypeOK'
    BY InvNext DEF IInv
  <2>2. store[id] \in Row
    BY <2>1 DEF TypeOK, Present
  <2>3. PICK owner \in [SessionId -> User \cup {None}] : IsOwnerOf(owner)
    BY <2>1 DEF HasOneOwner
  <2>4. PICK row \in Row : row = store'[id]
    BY <2>1 DEF TypeOK
  <2>5. IsRow(id, store[id]) /\ IsRow(id, row)'
    BY <2>4 DEF IsRow, Present
  <2>6. CASE IsRow(id, row)
    BY <2>2, <2>3, <2>4, <2>5, <2>6 DEF IsOwnerOf
  <2>7. CASE ~IsRow(id, row)
    <3>1. PICK t \in Task : \E sets, removals, ends, reply :
             Decision(t, sets, removals, ends, reply)
      BY <2>1, <2>5, <2>7, RowsKept
    <3>2. store' = store
      BY <3>1 DEF Decision
    <3> QED
      BY <3>2
  <2> QED
    BY <2>6, <2>7
<1>3. IInv /\ [Next]_vars => [Keeps]_vars
  BY <1>2
<1> QED
  BY <1>1, <1>3, Invariant, PTL DEF Spec, RowsStayTheirUsers, SessionKeepsUser

===============================================================================

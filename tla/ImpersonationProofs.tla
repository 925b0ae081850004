------------------------- MODULE ImpersonationProofs -------------------------
(***************************************************************************)
(* Proofs about Impersonation, for every number of sessions, browsers and  *)
(* requests in flight together, every length of a member view and both     *)
(* kinds of store.                                                         *)
(***************************************************************************)
EXTENDS Impersonation, TLAPS

Members == {p[1] : p \in started}       \* sessions created as member views
Callers == {p[2] : p \in started}       \* sessions they were started from

Created(t) == At(t, "write back") \/ At(t, "start audit")
Begun(t) == At(t, "start") \/ At(t, "create") \/ Created(t) \/ At(t, "give back")
Changing(t) == At(t, "change") \/ At(t, "mode") \/ At(t, "mode audit")

\* The rows of a session: the stored one, and those that requests have read and may write.
IsRow(id, row) ==
    \/ Present(id) /\ row = store[id]
    \/ \E t \in Task : /\ tasks[t] # None /\ tasks[t].id = id
                       /\ row = tasks[t].row \/ (row = tasks[t].previous /\ row # None)

\* Where stamps are kept, member views are the sessions with a stamp.
StampsAreKept ==
    /\ \A id \in SessionId, row \in Row : IsRow(id, row) =>
          /\ row.stamp # None => KeepsStamp /\ id \in Members /\ row.stamp.returnTo \in Callers
          /\ KeepsStamp /\ id \in Members => row.stamp # None
    /\ \A t \in Task : tasks[t] # None => (tasks[t].row.stamp = None <=> Begun(t))
    /\ \A t \in Task : tasks[t] # None /\ tasks[t].pc \notin {"create", "write back"} =>
          tasks[t].previous = None
    /\ KeepsStamp => NeverNested

\* Whose doing a session is.
Person(row) == IF row.stamp = None THEN row.user ELSE row.stamp.actor

\* Every row of a session is the doing of one person, who sits at the browsers that hold it
\* or work on it, and whose doing the session to return to is.
IsPersonOf(person) ==
    /\ \A id \in SessionId, row \in Row : IsRow(id, row) =>
          /\ Person(row) = person[id]
          /\ row.stamp # None => person[row.stamp.returnTo] = person[id]
    /\ \A b \in Browser : cookie[b] # None => person[cookie[b]] = BrowserUser[b]
    /\ \A t \in Task : tasks[t] # None =>
          /\ person[tasks[t].id] = BrowserUser[tasks[t].browser]
          /\ tasks[t].member # None => person[tasks[t].member] = BrowserUser[tasks[t].browser]

HasOnePerson == \E person \in [SessionId -> User \cup {None}] : IsPersonOf(person)

\* No rewriting of a row moves its expiry, and a member view's was taken from its caller's.
IsExpiryOf(expiry) ==
    /\ \A id \in SessionId, row \in Row : IsRow(id, row) => row.expiresAt = expiry[id]
    /\ \A p \in started : expiry[p[1]] <= expiry[p[2]] + p[3]

HasOneExpiry == \E expiry \in [SessionId -> 0 .. MaxTime + Duration] : IsExpiryOf(expiry)

SpanIsCallers ==
    \A t \in Task : At(t, "create") =>
        tasks[t].at <= now /\ tasks[t].at + tasks[t].span <= tasks[t].row.expiresAt

\* A member view being started is known to nobody else, and shows the mode to be audited.
StartsAlone ==
    \A t \in Task : Created(t) =>
        /\ tasks[t].member \in Members
        /\ \A b \in Browser : cookie[b] # tasks[t].member
        /\ \A o \in Task : tasks[o] # None =>
              /\ tasks[o].id # tasks[t].member
              /\ tasks[o].member = tasks[t].member => o = t
        /\ Present(tasks[t].member) /\ store[tasks[t].member].stamp # None =>
              store[tasks[t].member].stamp.mode = tasks[t].mode

\* Requests that are about to audit the mode a session is in.
Auditing(t, id) ==
    \/ At(t, "mode audit") /\ tasks[t].id = id
    \/ Created(t) /\ tasks[t].member = id

\* The mode a change would put back was audited; the mode it has set is the one it audits;
\* any other mode of a member view was audited.
ModeInHand(id) ==
    /\ \A t, o \in Task : Changing(t) /\ Changing(o) /\ tasks[t].id = id /\ tasks[o].id = id
          => t = o
    /\ \A t \in Task : Changing(t) /\ tasks[t].id = id =>
          <<id, tasks[t].row.stamp.mode>> \in audited
    /\ \A t \in Task : At(t, "mode audit") /\ tasks[t].id = id /\ Present(id) =>
          store[id].stamp.mode = tasks[t].mode
    /\ Present(id) /\ store[id].stamp # None =>
          <<id, store[id].stamp.mode>> \in audited \/ \E t \in Task : Auditing(t, id)

ModesInHand == \A id \in SessionId \ overlapped : ModeInHand(id)

IInv ==
    /\ TypeOK
    /\ StampsAreKept
    /\ KeepsStamp => HasOnePerson
    /\ HasOneExpiry
    /\ SpanIsCallers
    /\ StartsAlone
    /\ ModesInHand

-------------------------------------------------------------------------------
(* Type correctness.                                                          *)

\* What the store keeps of a row.
LEMMA KeptIsRow ==
    ASSUME NEW row \in Row
    PROVE  /\ Kept(row) \in Row
           /\ Kept(row).user = row.user /\ Kept(row).expiresAt = row.expiresAt
           /\ Kept(row).stamp = IF KeepsStamp THEN row.stamp ELSE None
BY DEF Kept, Row

\* The row of a member view in another mode.
LEMMA InModeIsRow ==
    ASSUME NEW row \in Row, row.stamp # None, NEW mode \in Mode
    PROVE  /\ InMode(row, mode) \in Row
           /\ InMode(row, mode).user = row.user
           /\ InMode(row, mode).expiresAt = row.expiresAt
           /\ IF KeepsStamp
              THEN /\ InMode(row, mode).stamp # None
                   /\ InMode(row, mode).stamp.actor = row.stamp.actor
                   /\ InMode(row, mode).stamp.returnTo = row.stamp.returnTo
                   /\ InMode(row, mode).stamp.mode = mode
              ELSE InMode(row, mode).stamp = None
<1> DEFINE stamp == [row.stamp EXCEPT !.mode = mode]
<1>1. row.stamp \in Stamp
  BY DEF Row
<1>2. /\ stamp \in Stamp /\ stamp.mode = mode
      /\ stamp.actor = row.stamp.actor /\ stamp.returnTo = row.stamp.returnTo
  BY <1>1 DEF Stamp
<1>3. stamp # None
  BY <1>2, ImpersonationAssumption
<1>4. [row EXCEPT !.stamp.mode = mode] = [row EXCEPT !.stamp = stamp]
  BY DEF Row
<1> HIDE DEF stamp
<1>5. /\ [row EXCEPT !.stamp = stamp] \in Row
      /\ [row EXCEPT !.stamp = stamp].user = row.user
      /\ [row EXCEPT !.stamp = stamp].expiresAt = row.expiresAt
      /\ [row EXCEPT !.stamp = stamp].stamp = stamp
  BY <1>2 DEF Row
<1> QED
  BY <1>2, <1>3, <1>4, <1>5, KeptIsRow DEF InMode

\* The row of a new member view.
LEMMA MemberIsRow ==
    ASSUME TypeOK, NEW t \in Task, At(t, "create")
    PROVE  /\ tasks[t] \in Work
           /\ Member(t) \in Row /\ Member(t).stamp \in Stamp /\ Member(t).stamp # None
<1>1. tasks[t] \in Work /\ now \in 0 .. MaxTime
  BY DEF TypeOK, At
<1>2. now + tasks[t].span \in 0 .. MaxTime + Duration
  <2>1. tasks[t].span \in 0 .. Duration
    BY <1>1 DEF Work
  <2> QED
    BY <1>1, <2>1, ImpersonationAssumption
<1>3. Member(t).stamp \in Stamp
  <2>1. tasks[t].row.user \in User /\ tasks[t].id \in SessionId /\ tasks[t].mode \in Mode
    BY <1>1 DEF Work, Row
  <2> QED
    BY <2>1 DEF Member, Stamp
<1>4. tasks[t].user \in User
  BY <1>1 DEF Work
<1>5. Member(t) \in Row
  <2>1. [actor |-> tasks[t].row.user, returnTo |-> tasks[t].id, mode |-> tasks[t].mode] \in Stamp
    BY <1>3 DEF Member
  <2> QED
    BY <1>2, <1>4, <2>1 DEF Member, Row, Expiry
<1> QED
  BY <1>1, <1>3, <1>5, ImpersonationAssumption

LEMMA TypeInit == Init => TypeOK
<1> SUFFICES ASSUME Init PROVE TypeOK
  OBVIOUS
<1>1. store \in [SessionId -> Row \cup {None}]
  <2>1. PICK expiry \in 1 .. MaxTime :
          store = [id \in SessionId |->
              IF \E b \in Browser : cookie[b] = id
              THEN [user |-> BrowserUser[CHOOSE b \in Browser : cookie[b] = id],
                    expiresAt |-> expiry, stamp |-> None]
              ELSE None]
    BY DEF Init
  <2>2. expiry \in 0 .. MaxTime + Duration
    BY ImpersonationAssumption
  <2>3. ASSUME NEW id \in SessionId, \E b \in Browser : cookie[b] = id
        PROVE  [user |-> BrowserUser[CHOOSE b \in Browser : cookie[b] = id],
                expiresAt |-> expiry, stamp |-> None] \in Row
    <3>1. (CHOOSE b \in Browser : cookie[b] = id) \in Browser
      BY <2>3
    <3>2. BrowserUser[CHOOSE b \in Browser : cookie[b] = id] \in User
      BY <3>1, ImpersonationAssumption
    <3> QED
      BY <2>2, <3>2 DEF Row
  <2> QED
    BY <2>1, <2>3
<1> QED
  BY <1>1, ImpersonationAssumption DEF Init, TypeOK

\* What a request that loads a session has in hand.
LEMMA LoadedIsWork ==
    ASSUME TypeOK, NEW t \in Task, NEW b \in Browser, NEW u \in User, NEW mode \in Mode,
           NEW pc \in {"start", "change", "end"}, Present(cookie[b]), Load(t, pc, b, u, mode)
    PROVE  /\ cookie[b] \in SessionId /\ store[cookie[b]] \in Row
           /\ tasks'[t] = [pc |-> pc, browser |-> b, id |-> cookie[b],
                           row |-> store[cookie[b]], user |-> u, mode |-> mode,
                           previous |-> None, member |-> None, span |-> 0, at |-> 0]
           /\ tasks'[t] \in Work
           /\ \A o \in Task : o # t => tasks'[o] = tasks[o]
           /\ tasks[t] = None
           /\ tasks' \in [Task -> Work \cup {None}]
<1>1. cookie[b] \in SessionId /\ store[cookie[b]] \in Row
  BY DEF TypeOK, Present
<1>2. [pc |-> pc, browser |-> b, id |-> cookie[b], row |-> store[cookie[b]], user |-> u,
       mode |-> mode, previous |-> None, member |-> None, span |-> 0, at |-> 0] \in Work
  <2>1. 0 \in 0 .. Duration /\ 0 \in 0 .. MaxTime
    BY ImpersonationAssumption
  <2> QED
    BY <1>1, <2>1 DEF Work
<1> QED
  BY <1>1, <1>2 DEF TypeOK, Load

\* The store, and the requests, after a write of one row.
LEMMA WrittenRow ==
    ASSUME TypeOK, NEW id \in SessionId, NEW row \in Row \cup {None},
           store' = [store EXCEPT ![id] = row]
    PROVE  /\ store' \in [SessionId -> Row \cup {None}]
           /\ \A s \in SessionId : store'[s] = IF s = id THEN row ELSE store[s]
BY DEF TypeOK

\* A request that goes on to another stage, or is over.
Stages == {"mode", "mode audit", "remove", "restore", "give back"}

LEMMA GoesOn ==
    ASSUME TypeOK, NEW t \in Task, tasks[t] # None,
           Done(t) \/ \E pc \in Stages : Goto(t, pc)
    PROVE  /\ tasks[t] \in Work /\ tasks' \in [Task -> Work \cup {None}]
           /\ \A o \in Task : o # t => tasks'[o] = tasks[o]
           /\ \/ tasks'[t] = None
              \/ /\ tasks'[t] \in Work /\ tasks'[t].pc \in Stages /\ Goto(t, tasks'[t].pc)
                 /\ tasks'[t].id = tasks[t].id /\ tasks'[t].row = tasks[t].row
                 /\ tasks'[t].mode = tasks[t].mode /\ tasks'[t].previous = tasks[t].previous
                 /\ tasks'[t].browser = tasks[t].browser /\ tasks'[t].member = tasks[t].member
<1>1. tasks[t] \in Work
  BY DEF TypeOK
<1>2. CASE Done(t)
  BY <1>1, <1>2 DEF Done, TypeOK
<1>3. ASSUME NEW pc \in Stages, Goto(t, pc)
      PROVE  /\ tasks' \in [Task -> Work \cup {None}]
             /\ \A o \in Task : o # t => tasks'[o] = tasks[o]
             /\ tasks'[t] \in Work /\ tasks'[t].pc = pc
             /\ tasks'[t].id = tasks[t].id /\ tasks'[t].row = tasks[t].row
             /\ tasks'[t].mode = tasks[t].mode /\ tasks'[t].previous = tasks[t].previous
             /\ tasks'[t].browser = tasks[t].browser /\ tasks'[t].member = tasks[t].member
  <2> DEFINE next == [tasks[t] EXCEPT !.pc = pc]
  <2>1. /\ next \in Work /\ next.pc = pc /\ next.id = tasks[t].id /\ next.row = tasks[t].row
        /\ next.mode = tasks[t].mode /\ next.previous = tasks[t].previous
        /\ next.browser = tasks[t].browser /\ next.member = tasks[t].member
    BY <1>1 DEF Work, Stages
  <2>2. tasks' = [tasks EXCEPT ![t] = next]
    BY <1>3 DEF Goto
  <2> HIDE DEF next
  <2> QED
    BY <2>1, <2>2 DEF TypeOK
<1> QED
  BY <1>1, <1>2, <1>3

\* The steps of a start that write a request's own fields.
LEMMA PreviousRead ==
    ASSUME TypeOK, NEW t \in Task, ReadPrevious(t)
    PROVE  /\ tasks[t] \in Work /\ tasks' \in [Task -> Work \cup {None}]
           /\ \A o \in Task : o # t => tasks'[o] = tasks[o]
           /\ tasks'[t].pc = "create" /\ tasks'[t].id = tasks[t].id
           /\ tasks'[t].row = tasks[t].row /\ tasks'[t].previous = store[tasks[t].id]
           /\ tasks'[t].browser = tasks[t].browser /\ tasks'[t].member = tasks[t].member
           /\ tasks'[t].at = now /\ now + tasks'[t].span <= tasks[t].row.expiresAt
<1> DEFINE span == MemberSpan(tasks[t].row)
<1>1. tasks[t] \in Work /\ now \in 0 .. MaxTime
  BY DEF TypeOK, ReadPrevious, At
<1>2. tasks[t].id \in SessionId /\ store[tasks[t].id] \in Row \cup {None}
  BY <1>1 DEF TypeOK, Work
<1>3. span \in 0 .. Duration /\ now + span <= tasks[t].row.expiresAt
  <2>1. tasks[t].row.expiresAt \in 0 .. MaxTime + Duration
    BY <1>1 DEF Work, Row
  <2>2. tasks[t].row.expiresAt > now
    BY DEF ReadPrevious
  <2> QED
    BY <1>1, <2>1, <2>2, ImpersonationAssumption DEF MemberSpan, Least
<1> HIDE DEF span
<1> DEFINE next == [tasks[t] EXCEPT !.pc = "create", !.previous = store[tasks[t].id],
                                    !.span = span, !.at = now]
<1>4. /\ next.pc = "create" /\ next.id = tasks[t].id
      /\ next.row = tasks[t].row /\ next.previous = store[tasks[t].id]
      /\ next.browser = tasks[t].browser /\ next.member = tasks[t].member
      /\ next.span = span /\ next.at = now
  BY <1>1 DEF Work
<1>5. next \in Work
  BY <1>1, <1>2, <1>3 DEF Work
<1>6. tasks' = [tasks EXCEPT ![t] = next]
  BY <1>1 DEF ReadPrevious, span, TypeOK
<1> HIDE DEF next
<1> QED
  BY <1>1, <1>3, <1>4, <1>5, <1>6 DEF TypeOK

LEMMA MemberCreated ==
    ASSUME TypeOK, NEW t \in Task, NEW id \in SessionId, CreateMember(t, id)
    PROVE  /\ tasks[t] \in Work /\ tasks' \in [Task -> Work \cup {None}]
           /\ \A o \in Task : o # t => tasks'[o] = tasks[o]
           /\ tasks'[t] \in Work
           /\ tasks'[t].pc = IF tasks[t].previous = None THEN "start audit" ELSE "write back"
           /\ tasks'[t].member = id /\ tasks'[t].id = tasks[t].id
           /\ tasks'[t].row = tasks[t].row /\ tasks'[t].previous = tasks[t].previous
           /\ tasks'[t].mode = tasks[t].mode /\ tasks'[t].browser = tasks[t].browser
           /\ store' \in [SessionId -> Row \cup {None}]
           /\ id # tasks[t].id
           /\ \A s \in SessionId : store'[s] = IF s = id THEN Kept(Member(t)) ELSE store[s]
           /\ started' = started \cup {<<id, tasks[t].id, now - tasks[t].at>>}
<1> DEFINE stage == IF tasks[t].previous = None THEN "start audit" ELSE "write back"
           next == [tasks[t] EXCEPT !.member = id, !.span = 0, !.at = 0, !.pc = stage]
<1>1. tasks[t] \in Work /\ At(t, "create") /\ id # tasks[t].id
  BY DEF TypeOK, CreateMember, At, Unused
<1>2. stage \in {"start audit", "write back"}
  OBVIOUS
<1>3. tasks' = [tasks EXCEPT ![t] = next]
  BY DEF CreateMember
<1> HIDE DEF stage
<1>4. /\ next.pc = stage /\ next.member = id /\ next.id = tasks[t].id
      /\ next.row = tasks[t].row /\ next.previous = tasks[t].previous
      /\ next.mode = tasks[t].mode /\ next.browser = tasks[t].browser
  BY <1>1 DEF Work
<1>5. next \in Work
  <2>1. 0 \in 0 .. Duration /\ 0 \in 0 .. MaxTime
    BY ImpersonationAssumption
  <2> QED
    BY <1>1, <1>2, <2>1 DEF Work
<1> HIDE DEF next
<1>6. Kept(Member(t)) \in Row
  BY <1>1, MemberIsRow, KeptIsRow
<1>7. store' = [store EXCEPT ![id] = Kept(Member(t))]
  BY DEF CreateMember
<1>8. /\ store' \in [SessionId -> Row \cup {None}]
      /\ \A s \in SessionId : store'[s] = IF s = id THEN Kept(Member(t)) ELSE store[s]
  BY <1>6, <1>7 DEF TypeOK
<1>9. started' = started \cup {<<id, tasks[t].id, now - tasks[t].at>>}
  BY DEF CreateMember
<1> QED
  BY <1>1, <1>3, <1>4, <1>5, <1>8, <1>9 DEF TypeOK, stage

LEMMA PreviousWritten ==
    ASSUME TypeOK, NEW t \in Task, WriteBack(t)
    PROVE  /\ tasks[t] # None /\ tasks[t] \in Work /\ tasks' \in [Task -> Work \cup {None}]
           /\ \A o \in Task : o # t => tasks'[o] = tasks[o]
           /\ tasks'[t] \in Work
           /\ \/ tasks[t].pc = "create" /\ tasks'[t].pc = "create"
              \/ tasks[t].pc = "write back" /\ tasks'[t].pc = "start audit"
           /\ tasks'[t].member = tasks[t].member /\ tasks'[t].id = tasks[t].id
           /\ tasks'[t].row = tasks[t].row /\ tasks'[t].previous = None
           /\ tasks'[t].mode = tasks[t].mode /\ tasks'[t].browser = tasks[t].browser
           /\ tasks'[t].at = tasks[t].at /\ tasks'[t].span = tasks[t].span
           /\ store' \in [SessionId -> Row \cup {None}]
           /\ tasks[t].previous \in Row /\ tasks[t].previous # None /\ tasks[t].id \in SessionId
           /\ \A s \in SessionId : store'[s] =
                 IF s = tasks[t].id THEN Kept(tasks[t].previous) ELSE store[s]
           /\ UNCHANGED <<now, cookie, started, audited, overlapped>>
<1> DEFINE stage == IF tasks[t].pc = "create" THEN "create" ELSE "start audit"
           next == [tasks[t] EXCEPT !.previous = None, !.pc = stage]
<1>1. /\ tasks[t] # None /\ tasks[t] \in Work /\ tasks[t].previous # None
      /\ tasks[t].pc \in {"create", "write back"}
  BY DEF TypeOK, WriteBack, At
<1>2. /\ stage \in {"create", "start audit"}
      /\ \/ tasks[t].pc = "create" /\ stage = "create"
         \/ tasks[t].pc = "write back" /\ stage = "start audit"
  BY <1>1
<1>3. tasks' = [tasks EXCEPT ![t] = next]
  BY DEF WriteBack
<1> HIDE DEF stage
<1>4. /\ next \in Work /\ next.pc = stage /\ next.member = tasks[t].member
      /\ next.id = tasks[t].id /\ next.row = tasks[t].row /\ next.previous = None
      /\ next.mode = tasks[t].mode /\ next.browser = tasks[t].browser
      /\ next.at = tasks[t].at /\ next.span = tasks[t].span
  BY <1>1, <1>2 DEF Work
<1> HIDE DEF next
<1>5. tasks[t].previous \in Row /\ tasks[t].id \in SessionId
  BY <1>1 DEF Work
<1>6. store' = [store EXCEPT ![tasks[t].id] = Kept(tasks[t].previous)]
  BY DEF WriteBack
<1>7. Kept(tasks[t].previous) \in Row
  BY <1>5, KeptIsRow
<1>8. /\ store' \in [SessionId -> Row \cup {None}]
      /\ \A s \in SessionId : store'[s] =
            IF s = tasks[t].id THEN Kept(tasks[t].previous) ELSE store[s]
  BY <1>5, <1>6, <1>7 DEF TypeOK
<1>9. UNCHANGED <<now, cookie, started, audited, overlapped>>
  BY DEF WriteBack
<1> QED
  BY <1>1, <1>2, <1>3, <1>4, <1>5, <1>8, <1>9 DEF TypeOK

\* The row a change of mode writes, and the one it may put back.
LEMMA ModeWritten ==
    ASSUME TypeOK, StampsAreKept, NEW t \in Task, SetMode(t) \/ ModeUnaudited(t)
    PROVE  /\ tasks[t] \in Work /\ tasks[t].id \in SessionId /\ tasks[t].mode \in Mode
           /\ Changing(t) /\ tasks[t].row \in Row /\ tasks[t].row.stamp # None
           /\ store' \in [SessionId -> Row \cup {None}]
           /\ \A s \in SessionId : s # tasks[t].id => store'[s] = store[s]
           /\ SetMode(t) => store'[tasks[t].id] = InMode(tasks[t].row, tasks[t].mode)
           /\ ModeUnaudited(t) => store'[tasks[t].id] = Kept(tasks[t].row)
<1>1. tasks[t] \in Work /\ tasks[t] # None /\ Changing(t)
  BY DEF TypeOK, SetMode, ModeUnaudited, At, Changing
<1>2. tasks[t].id \in SessionId /\ tasks[t].mode \in Mode /\ tasks[t].row \in Row
  BY <1>1 DEF Work
<1>3. tasks[t].row.stamp # None
  BY <1>1 DEF StampsAreKept, Begun, Created, Changing, At
<1>4. InMode(tasks[t].row, tasks[t].mode) \in Row /\ Kept(tasks[t].row) \in Row
  BY <1>2, <1>3, InModeIsRow, KeptIsRow
<1>5. SetMode(t) => store' = [store EXCEPT ![tasks[t].id] = InMode(tasks[t].row, tasks[t].mode)]
  BY DEF SetMode
<1>6. ModeUnaudited(t) => store' = [store EXCEPT ![tasks[t].id] = Kept(tasks[t].row)]
  BY DEF ModeUnaudited
<1> QED
  BY <1>1, <1>2, <1>3, <1>4, <1>5, <1>6 DEF TypeOK

LEMMA TypeNext ==
    TypeOK /\ StampsAreKept /\ SpanIsCallers /\ StartsAlone /\ [Next]_vars => TypeOK'
<1> SUFFICES ASSUME TypeOK, StampsAreKept, SpanIsCallers, StartsAlone, [Next]_vars PROVE TypeOK'
  OBVIOUS
<1>1. ASSUME NEW t \in Task, NEW b \in Browser, NEW u \in User, NEW mode \in Mode,
             Start(t, b, u, mode)
      PROVE  TypeOK'
  BY <1>1, LoadedIsWork DEF Start, Live, TypeOK, Load
<1>2. ASSUME NEW t \in Task, NEW b \in Browser, NEW mode \in Mode, ChangeMode(t, b, mode)
      PROVE  TypeOK'
  <2>1. Present(cookie[b])
    BY <1>2 DEF ChangeMode, Live
  <2>2. store[cookie[b]].user \in User /\ cookie[b] \in SessionId
    BY <2>1 DEF TypeOK, Present, Row
  <2>3. Load(t, "change", b, store[cookie[b]].user, mode)
    BY <1>2 DEF ChangeMode
  <2>4. tasks' \in [Task -> Work \cup {None}]
    BY <2>1, <2>2, <2>3, LoadedIsWork
  <2> QED
    BY <1>2, <2>2, <2>4 DEF ChangeMode, TypeOK, Load
<1>3. ASSUME NEW t \in Task, NEW b \in Browser, End(t, b) PROVE TypeOK'
  <2>1. Present(cookie[b]) /\ store[cookie[b]].stamp # None
    BY <1>3 DEF End
  <2>2. store[cookie[b]].user \in User /\ store[cookie[b]].stamp \in Stamp
    BY <2>1 DEF TypeOK, Present, Row
  <2>3. store[cookie[b]].stamp.mode \in Mode
    BY <2>2 DEF Stamp
  <2>4. Load(t, "end", b, store[cookie[b]].user, store[cookie[b]].stamp.mode)
    BY <1>3 DEF End
  <2>5. tasks' \in [Task -> Work \cup {None}]
    BY <2>1, <2>2, <2>3, <2>4, LoadedIsWork
  <2> QED
    BY <1>3, <2>5 DEF End, TypeOK, Load
<1>4. ASSUME NEW t \in Task, ReadPrevious(t) PROVE TypeOK'
  BY <1>4, PreviousRead DEF ReadPrevious, TypeOK
<1>5. ASSUME NEW t \in Task, NEW id \in SessionId, CreateMember(t, id) PROVE TypeOK'
  <2>1. tasks[t].id \in SessionId /\ now - tasks[t].at \in 0 .. MaxTime
    <3>1. tasks[t] \in Work
      BY <1>5, MemberCreated
    <3>2. tasks[t].at \in 0 .. MaxTime /\ tasks[t].at <= now /\ now \in 0 .. MaxTime
      BY <3>1, <1>5 DEF Work, TypeOK, SpanIsCallers, CreateMember
    <3>3. tasks[t].id \in SessionId
      BY <3>1 DEF Work
    <3> QED
      BY <3>2, <3>3, ImpersonationAssumption
  <2>2. <<id, tasks[t].id, now - tasks[t].at>> \in SessionId \X SessionId \X (0 .. MaxTime)
    BY <2>1
  <2>3. started' \subseteq SessionId \X SessionId \X (0 .. MaxTime)
    <3>1. started' = started \cup {<<id, tasks[t].id, now - tasks[t].at>>}
      BY <1>5, MemberCreated
    <3>2. started \subseteq SessionId \X SessionId \X (0 .. MaxTime)
      BY DEF TypeOK
    <3> QED
      BY <2>2, <3>1, <3>2
  <2>4. tasks' \in [Task -> Work \cup {None}] /\ store' \in [SessionId -> Row \cup {None}]
    BY <1>5, MemberCreated
  <2> QED
    BY <1>5, <2>3, <2>4 DEF CreateMember, TypeOK
<1>6. ASSUME NEW t \in Task, StartAudited(t) PROVE TypeOK'
  <2>1. tasks[t] # None
    BY <1>6 DEF StartAudited, At
  <2>2. tasks[t] \in Work /\ tasks' \in [Task -> Work \cup {None}]
    BY <1>6, <2>1, GoesOn DEF StartAudited
  <2>3. tasks[t].member \in SessionId /\ tasks[t].mode \in Mode
    <3>1. tasks[t].member \in Members
      BY <1>6 DEF StartAudited, StartsAlone, Created
    <3> QED
      BY <2>2, <3>1 DEF Work, Members, TypeOK
  <2>4. audited' \subseteq SessionId \X Mode
    <3>1. audited' = audited \cup {<<tasks[t].member, tasks[t].mode>>}
      BY <1>6 DEF StartAudited
    <3>2. audited \subseteq SessionId \X Mode
      BY DEF TypeOK
    <3> QED
      BY <2>3, <3>1, <3>2
  <2>5. cookie' \in [Browser -> SessionId \cup {None}]
    BY <1>6, <2>3 DEF StartAudited, TypeOK
  <2> QED
    BY <1>6, <2>2, <2>4, <2>5 DEF StartAudited, TypeOK
<1>7. ASSUME NEW t \in Task, StartUnaudited(t) \/ RemoveMember(t) PROVE TypeOK'
  <2>1. tasks[t] # None /\ \E pc \in Stages : Goto(t, pc)
    BY <1>7 DEF StartUnaudited, RemoveMember, At, Stages
  <2>2. tasks' \in [Task -> Work \cup {None}]
    BY <2>1, GoesOn
  <2>3. \/ store' = [store EXCEPT ![tasks[t].id] = None]
        \/ store' = [store EXCEPT ![tasks[t].member] = None]
    BY <1>7 DEF StartUnaudited, RemoveMember, RolledBack
  <2> QED
    BY <1>7, <2>2, <2>3 DEF StartUnaudited, RemoveMember, TypeOK
<1>8. ASSUME NEW t \in Task, SetMode(t) \/ ModeUnaudited(t) PROVE TypeOK'
  <2>1. tasks[t] # None /\ (Done(t) \/ \E pc \in Stages : Goto(t, pc))
    BY <1>8 DEF SetMode, ModeUnaudited, At, Stages
  <2>2. tasks' \in [Task -> Work \cup {None}]
    BY <2>1, GoesOn
  <2> QED
    BY <1>8, <2>2, ModeWritten DEF SetMode, ModeUnaudited, TypeOK
<1>9. ASSUME NEW t \in Task, ModeAudited(t) PROVE TypeOK'
  <2>1. tasks[t] # None
    BY <1>9 DEF ModeAudited, At
  <2>2. tasks[t] \in Work /\ tasks' \in [Task -> Work \cup {None}]
    BY <1>9, <2>1, GoesOn DEF ModeAudited
  <2>3. tasks[t].id \in SessionId /\ tasks[t].mode \in Mode
    BY <2>2 DEF Work
  <2>4. audited' \subseteq SessionId \X Mode
    <3>1. audited' = audited \cup {<<tasks[t].id, tasks[t].mode>>}
      BY <1>9 DEF ModeAudited
    <3>2. audited \subseteq SessionId \X Mode
      BY DEF TypeOK
    <3> QED
      BY <2>3, <3>1, <3>2
  <2> QED
    BY <1>9, <2>2, <2>4 DEF ModeAudited, TypeOK
<1>10. ASSUME NEW t \in Task, ReadActor(t) \/ EndAudited(t) \/ Refused(t) PROVE TypeOK'
  <2>1. tasks[t] # None /\ (Done(t) \/ \E pc \in Stages : Goto(t, pc))
    BY <1>10 DEF ReadActor, EndAudited, Refused, At, Stages
  <2>2. tasks' \in [Task -> Work \cup {None}]
    BY <2>1, GoesOn
  <2> QED
    BY <1>10, <2>2 DEF ReadActor, EndAudited, Refused, TypeOK
<1>11. ASSUME NEW t \in Task, Restore(t) PROVE TypeOK'
  <2> DEFINE prior == tasks[t].row.stamp.returnTo
  <2>1. tasks[t] # None /\ Done(t) /\ tasks[t].pc = "restore"
    BY <1>11 DEF Restore, At
  <2>2. tasks[t] \in Work /\ tasks' \in [Task -> Work \cup {None}]
    BY <2>1, GoesOn
  <2>3. tasks[t].row.stamp # None /\ tasks[t].row \in Row
    BY <2>1, <2>2 DEF StampsAreKept, Begun, Created, At, Work
  <2>4. prior \in SessionId
    BY <2>3 DEF Row, Stamp
  <2>5. /\ cookie' = [cookie EXCEPT ![tasks[t].browser] = IF Live(prior) THEN prior ELSE None]
        /\ store' = IF Present(prior) /\ ~Live(prior)
                    THEN [store EXCEPT ![prior] = None] ELSE store
    BY <1>11 DEF Restore
  <2> HIDE DEF prior
  <2> QED
    BY <1>11, <2>2, <2>4, <2>5 DEF Restore, TypeOK
<1>12. ASSUME NEW id \in SessionId, RemoveSession(id) PROVE TypeOK'
  BY <1>12 DEF RemoveSession, TypeOK
<1>13. CASE Tick
  BY <1>13, ImpersonationAssumption DEF Tick, TypeOK
<1>14. CASE UNCHANGED vars
  BY <1>14 DEF vars, TypeOK
<1>15. ASSUME NEW t \in Task, WriteBack(t) PROVE TypeOK'
  BY <1>15, PreviousWritten DEF TypeOK
<1>16. ASSUME NEW t \in Task, RestoreCookie(t) PROVE TypeOK'
  <2>1. tasks[t] # None /\ Done(t)
    BY <1>16 DEF RestoreCookie, At
  <2>2. tasks[t] \in Work /\ tasks' \in [Task -> Work \cup {None}]
    BY <2>1, GoesOn
  <2>3. tasks[t].id \in SessionId
    BY <2>2 DEF Work
  <2> QED
    BY <1>16, <2>2, <2>3 DEF RestoreCookie, TypeOK
<1> QED
  BY <1>1, <1>2, <1>3, <1>4, <1>5, <1>6, <1>7, <1>8, <1>9, <1>10, <1>11, <1>12, <1>13, <1>14,
     <1>15, <1>16 DEF Next, Request, Progress

-------------------------------------------------------------------------------
(* Where the rows of a session come from.                                     *)

\* A row that another was copied from, as this kind of store keeps it.
Alike(row, old) ==
    /\ row.user = old.user /\ row.expiresAt = old.expiresAt
    /\ \/ row.stamp = old.stamp
       \/ ~KeepsStamp /\ row.stamp = None
       \/ /\ KeepsStamp /\ row.stamp # None /\ old.stamp # None
          /\ row.stamp.actor = old.stamp.actor /\ row.stamp.returnTo = old.stamp.returnTo

\* Requests go on with what they have read, or are over.
Continues(t) ==
    \/ tasks'[t] = None \/ tasks'[t] = tasks[t]
    \/ /\ tasks[t] # None /\ tasks[t].pc \notin {"start", "create", "write back"}
       /\ tasks'[t].pc \notin {"start", "create", "write back", "start audit"}
       /\ Begun(t)' <=> Begun(t)
       /\ tasks'[t].id = tasks[t].id /\ tasks'[t].row = tasks[t].row
       /\ tasks'[t].previous = tasks[t].previous /\ tasks'[t].browser = tasks[t].browser
       /\ tasks'[t].member = tasks[t].member

Writes(t) ==
    \/ StartAudited(t) \/ StartUnaudited(t) \/ RestoreCookie(t)
    \/ ReadActor(t) \/ SetMode(t) \/ ModeAudited(t) \/ ModeUnaudited(t)
    \/ EndAudited(t) \/ RemoveMember(t) \/ Restore(t) \/ Refused(t)

LEMMA WritesContinue ==
    ASSUME TypeOK, NEW t \in Task, Writes(t)
    PROVE  /\ tasks[t] # None /\ Continues(t) /\ \A o \in Task : o # t => tasks'[o] = tasks[o]
           /\ started' = started
<1>1. /\ tasks[t] # None
      /\ \/ Done(t)
         \/ At(t, "change") /\ Goto(t, "mode")
         \/ At(t, "mode") /\ Goto(t, "mode audit")
         \/ At(t, "end") /\ Goto(t, "remove")
         \/ At(t, "remove") /\ Goto(t, "restore")
         \/ At(t, "start audit") /\ Goto(t, "give back")
  BY DEF Writes, StartAudited, StartUnaudited, RestoreCookie, ReadActor, SetMode, ModeAudited,
         ModeUnaudited, EndAudited, RemoveMember, Restore, Refused, At
<1>2. started' = started
  BY DEF Writes, StartAudited, StartUnaudited, RestoreCookie, ReadActor, SetMode, ModeAudited,
         ModeUnaudited, EndAudited, RemoveMember, Restore, Refused
<1>3. CASE Done(t)
  <2>1. tasks'[t] = None /\ \A o \in Task : o # t => tasks'[o] = tasks[o]
    BY <1>3 DEF TypeOK, Done
  <2> QED
    BY <1>1, <1>2, <2>1 DEF Continues
<1>4. ASSUME NEW pc \in Stages, Goto(t, pc),
             tasks[t].pc \in {"change", "mode", "end", "remove", "start audit"},
             pc = "give back" <=> tasks[t].pc = "start audit"
      PROVE  Continues(t) /\ \A o \in Task : o # t => tasks'[o] = tasks[o]
  <2> DEFINE next == [tasks[t] EXCEPT !.pc = pc]
  <2>1. tasks[t] \in Work
    BY <1>1 DEF TypeOK
  <2>2. /\ next.pc = pc /\ next.id = tasks[t].id /\ next.row = tasks[t].row
        /\ next.previous = tasks[t].previous /\ next.browser = tasks[t].browser
        /\ next.member = tasks[t].member /\ next \in Work
    BY <2>1 DEF Work, Stages
  <2>3. tasks' = [tasks EXCEPT ![t] = next]
    BY <1>4 DEF Goto
  <2> HIDE DEF next
  <2>4. tasks'[t] = next /\ \A o \in Task : o # t => tasks'[o] = tasks[o]
    BY <2>3 DEF TypeOK
  <2>5. next # None
    BY <2>2, ImpersonationAssumption
  <2>6. Begun(t)' <=> Begun(t)
    BY <1>1, <1>4, <2>2, <2>4, <2>5 DEF Begun, Created, At, Stages
  <2> QED
    BY <1>1, <1>4, <2>2, <2>4, <2>6 DEF Continues, Stages
<1> QED
  BY <1>1, <1>2, <1>3, <1>4 DEF At, Stages

\* A request that begins has read the row of the cookie's session.
Loads(t, b, pc) ==
    \/ pc = "start" /\ \E u \in User, mode \in Mode : Start(t, b, u, mode)
    \/ pc = "change" /\ \E mode \in Mode : ChangeMode(t, b, mode)
    \/ pc = "end" /\ End(t, b)

LEMMA LoadsRead ==
    ASSUME TypeOK, NEW t \in Task, NEW b \in Browser, NEW pc, Loads(t, b, pc)
    PROVE  /\ Present(cookie[b]) /\ cookie[b] \in SessionId /\ store[cookie[b]] \in Row
           /\ tasks[t] = None
           /\ tasks'[t].pc = pc /\ tasks'[t].browser = b /\ tasks'[t].id = cookie[b]
           /\ tasks'[t].row = store[cookie[b]] /\ tasks'[t].previous = None
           /\ tasks'[t].member = None
           /\ \A o \in Task : o # t => tasks'[o] = tasks[o]
           /\ UNCHANGED <<now, store, cookie, started, audited>>
           /\ store[cookie[b]].stamp = None <=> pc = "start"
           /\ pc \in {"start", "change", "end"}
<1>1. ASSUME NEW u \in User, NEW mode \in Mode, Start(t, b, u, mode), pc = "start"
      PROVE  /\ Present(cookie[b]) /\ Load(t, pc, b, u, mode)
             /\ store[cookie[b]].stamp = None
  BY <1>1 DEF Start, Live, MayStart
<1>2. ASSUME NEW mode \in Mode, ChangeMode(t, b, mode), pc = "change"
      PROVE  /\ Present(cookie[b]) /\ store[cookie[b]].user \in User
             /\ Load(t, pc, b, store[cookie[b]].user, mode)
             /\ store[cookie[b]].stamp # None
  BY <1>2 DEF ChangeMode, Live, Present, TypeOK, Row
<1>3. ASSUME End(t, b), pc = "end"
      PROVE  /\ Present(cookie[b]) /\ store[cookie[b]].user \in User
             /\ store[cookie[b]].stamp.mode \in Mode
             /\ Load(t, pc, b, store[cookie[b]].user, store[cookie[b]].stamp.mode)
             /\ store[cookie[b]].stamp # None
  BY <1>3 DEF End, Present, TypeOK, Row, Stamp
<1>4. ASSUME NEW u \in User, NEW mode \in Mode, Present(cookie[b]), Load(t, pc, b, u, mode),
             pc \in {"start", "change", "end"}
      PROVE  /\ cookie[b] \in SessionId /\ store[cookie[b]] \in Row /\ tasks[t] = None
             /\ tasks'[t].pc = pc /\ tasks'[t].browser = b /\ tasks'[t].id = cookie[b]
             /\ tasks'[t].row = store[cookie[b]] /\ tasks'[t].previous = None
             /\ tasks'[t].member = None
             /\ \A o \in Task : o # t => tasks'[o] = tasks[o]
             /\ UNCHANGED <<now, store, cookie, started, audited>>
  <2>1. UNCHANGED <<now, store, cookie, started, audited>>
    BY <1>4 DEF Load
  <2> DEFINE loaded == [pc |-> pc, browser |-> b, id |-> cookie[b],
                        row |-> store[cookie[b]], user |-> u, mode |-> mode,
                        previous |-> None, member |-> None, span |-> 0, at |-> 0]
  <2>2. /\ cookie[b] \in SessionId /\ store[cookie[b]] \in Row
        /\ tasks[t] = None
    BY <1>4 DEF Load, Present, TypeOK
  <2>5. \A o \in Task : o # t => tasks'[o] = tasks[o]
    BY <1>4 DEF Load, TypeOK
  <2>4. tasks'[t] = loaded
    BY <1>4, LoadedIsWork
  <2>3. /\ loaded.pc = pc /\ loaded.browser = b /\ loaded.id = cookie[b]
        /\ loaded.row = store[cookie[b]] /\ loaded.previous = None /\ loaded.member = None
    OBVIOUS
  <2> HIDE DEF loaded
  <2> QED
    BY <2>1, <2>2, <2>3, <2>4, <2>5
<1> QED
  BY <1>1, <1>2, <1>3, <1>4 DEF Loads

LEMMA StepKinds ==
    [Next]_vars =>
        \/ \E t \in Task, b \in Browser, pc \in {"start", "change", "end"} : Loads(t, b, pc)
        \/ \E t \in Task : ReadPrevious(t)
        \/ \E t \in Task : WriteBack(t)
        \/ \E t \in Task, id \in SessionId : CreateMember(t, id)
        \/ \E t \in Task : Writes(t)
        \/ \E id \in SessionId : RemoveSession(id)
        \/ Tick
        \/ UNCHANGED vars
BY DEF Next, Request, Progress, Loads, Writes

LEMMA WritesRows ==
    ASSUME TypeOK, StampsAreKept, NEW t \in Task, Writes(t), NEW s \in SessionId
    PROVE  \/ store'[s] \in {store[s], None}
           \/ /\ SetMode(t) \/ ModeUnaudited(t)
              /\ s = tasks[t].id /\ tasks[t].row \in Row /\ tasks[t].row.stamp # None
              /\ Changing(t) /\ tasks[t].mode \in Mode
              /\ SetMode(t) => store'[s] = InMode(tasks[t].row, tasks[t].mode)
              /\ ModeUnaudited(t) => store'[s] = Kept(tasks[t].row)
<1>1. CASE SetMode(t) \/ ModeUnaudited(t)
  BY <1>1, ModeWritten
<1>2. CASE StartUnaudited(t) \/ RemoveMember(t)
  BY <1>2 DEF StartUnaudited, RemoveMember, RolledBack, TypeOK
<1>3. CASE Restore(t)
  <2>1. \/ store' = store
        \/ store' = [store EXCEPT ![tasks[t].row.stamp.returnTo] = None]
    BY <1>3 DEF Restore
  <2> QED
    BY <2>1 DEF TypeOK
<1>4. CASE \/ StartAudited(t) \/ RestoreCookie(t) \/ ReadActor(t) \/ ModeAudited(t)
           \/ EndAudited(t) \/ Refused(t)
  BY <1>4 DEF StartAudited, RestoreCookie, ReadActor, ModeAudited, EndAudited, Refused
<1> QED
  BY <1>1, <1>2, <1>3, <1>4 DEF Writes

\* Every row of a session was one before, but for its mode, or begins a member view.
LEMMA RowsComeFrom ==
    ASSUME TypeOK, StampsAreKept, [Next]_vars,
           NEW id \in SessionId, NEW row \in Row, IsRow(id, row)'
    PROVE  \/ \E old \in Row : IsRow(id, old) /\ Alike(row, old)
           \/ \E t \in Task : CreateMember(t, id) /\ row = Kept(Member(t))
<1> DEFINE Goal == \/ \E old \in Row : IsRow(id, old) /\ Alike(row, old)
                   \/ \E t \in Task : CreateMember(t, id) /\ row = Kept(Member(t))
<1>1. ASSUME IsRow(id, row) PROVE Goal
  BY <1>1 DEF Alike
<1>2. \/ store'[id] # None /\ row = store'[id]
      \/ \E t \in Task : /\ tasks'[t] # None /\ tasks'[t].id = id
                         /\ row = tasks'[t].row \/ (row = tasks'[t].previous /\ row # None)
  BY DEF IsRow, Present
<1>3. ASSUME store'[id] = store[id], \A t \in Task : Continues(t) PROVE Goal
  <2>1. IsRow(id, row)
    BY <1>2, <1>3, ImpersonationAssumption DEF IsRow, Present, Continues, At
  <2> QED
    BY <1>1, <2>1
<1>4. ASSUME NEW t \in Task, NEW b \in Browser, NEW pc \in {"start", "change", "end"},
             Loads(t, b, pc)
      PROVE  Goal
  <2>0. /\ Present(cookie[b]) /\ UNCHANGED store
        /\ tasks'[t].id = cookie[b] /\ tasks'[t].row = store[cookie[b]]
        /\ tasks'[t].previous = None
        /\ \A o \in Task : o # t => tasks'[o] = tasks[o]
    BY <1>4, LoadsRead
  <2>1. IsRow(id, row)
    BY <1>2, <2>0, ImpersonationAssumption DEF IsRow, Present
  <2> QED
    BY <1>1, <2>1
<1>5. ASSUME NEW t \in Task, ReadPrevious(t) PROVE Goal
  <2>1. UNCHANGED store /\ tasks[t] # None /\ tasks[t].pc = "start"
    BY <1>5 DEF ReadPrevious, At
  <2>3. /\ tasks'[t].id = tasks[t].id /\ tasks'[t].row = tasks[t].row
        /\ tasks'[t].previous = store[tasks[t].id]
        /\ \A o \in Task : o # t => tasks'[o] = tasks[o]
    BY <1>5, PreviousRead
  <2>2. IsRow(id, row)
    BY <1>2, <2>1, <2>3, ImpersonationAssumption DEF IsRow, Present
  <2> QED
    BY <1>1, <2>2
<1>6. ASSUME NEW t \in Task, NEW s \in SessionId, CreateMember(t, s) PROVE Goal
  <2>1. /\ \A o \in Task : o # t => tasks'[o] = tasks[o]
        /\ tasks'[t].id = tasks[t].id /\ tasks'[t].row = tasks[t].row
        /\ tasks'[t].previous = tasks[t].previous /\ tasks[t] # None
        /\ \A x \in SessionId : store'[x] = IF x = s THEN Kept(Member(t)) ELSE store[x]
    BY <1>6, MemberCreated DEF CreateMember, At
  <2>2. CASE id = s /\ row = store'[id]
    BY <1>6, <2>1, <2>2
  <2>3. CASE id # s \/ row # store'[id]
    <3>1. IsRow(id, row)
      BY <1>2, <2>1, <2>3 DEF IsRow, Present
    <3> QED
      BY <1>1, <3>1
  <2> QED
    BY <2>2, <2>3
<1>10. ASSUME NEW t \in Task, WriteBack(t) PROVE Goal
  <2>1. /\ \A o \in Task : o # t => tasks'[o] = tasks[o]
        /\ tasks'[t].id = tasks[t].id /\ tasks'[t].row = tasks[t].row
        /\ tasks'[t].previous = None /\ tasks[t] # None
        /\ tasks[t].previous \in Row /\ tasks[t].previous # None
        /\ \A x \in SessionId : store'[x] =
              IF x = tasks[t].id THEN Kept(tasks[t].previous) ELSE store[x]
    BY <1>10, PreviousWritten
  <2>2. CASE id = tasks[t].id /\ row = store'[id]
    <3>1. row = Kept(tasks[t].previous) /\ IsRow(id, tasks[t].previous)
      BY <2>1, <2>2 DEF IsRow
    <3>2. Alike(row, tasks[t].previous)
      BY <2>1, <3>1, KeptIsRow DEF Alike
    <3> QED
      BY <2>1, <3>1, <3>2
  <2>3. CASE id # tasks[t].id \/ row # store'[id]
    <3>1. IsRow(id, row)
      BY <1>2, <2>1, <2>3 DEF IsRow, Present
    <3> QED
      BY <1>1, <3>1
  <2> QED
    BY <2>2, <2>3
<1>7. ASSUME NEW t \in Task, Writes(t) PROVE Goal
  <2>1. /\ \A o \in Task : Continues(o)
        /\ tasks[t] # None
    BY <1>7, WritesContinue DEF Continues
  <2>2. CASE store'[id] \in {store[id], None}
    <3>1. CASE store'[id] = store[id]
      BY <1>3, <2>1, <3>1
    <3>2. CASE store'[id] = None
      <4>1. IsRow(id, row)
        BY <1>2, <2>1, <3>2 DEF IsRow, Continues, At
      <4> QED
        BY <1>1, <4>1
    <3> QED
      BY <2>2, <3>1, <3>2
  <2>3. CASE /\ SetMode(t) \/ ModeUnaudited(t)
             /\ id = tasks[t].id /\ tasks[t].row \in Row /\ tasks[t].row.stamp # None
             /\ Changing(t) /\ tasks[t].mode \in Mode
             /\ SetMode(t) => store'[id] = InMode(tasks[t].row, tasks[t].mode)
             /\ ModeUnaudited(t) => store'[id] = Kept(tasks[t].row)
    <3>1. IsRow(id, tasks[t].row)
      BY <2>1, <2>3 DEF IsRow, Changing, At
    <3>2. CASE row = store'[id]
      <4>1. Alike(InMode(tasks[t].row, tasks[t].mode), tasks[t].row)
        BY <2>3, InModeIsRow DEF Alike
      <4>2. Alike(Kept(tasks[t].row), tasks[t].row)
        BY <2>3, KeptIsRow DEF Alike
      <4> QED
        BY <2>3, <3>1, <3>2, <4>1, <4>2
    <3>3. CASE row # store'[id]
      <4>1. IsRow(id, row)
        BY <1>2, <2>1, <3>3 DEF IsRow, Continues, At
      <4> QED
        BY <1>1, <4>1
    <3> QED
      BY <3>2, <3>3
  <2> QED
    BY <1>7, <2>2, <2>3, WritesRows
<1>8. ASSUME NEW s \in SessionId, RemoveSession(s) PROVE Goal
  <2>1. UNCHANGED tasks /\ store'[id] \in {store[id], None}
    BY <1>8 DEF RemoveSession, TypeOK
  <2>2. IsRow(id, row)
    BY <1>2, <2>1, ImpersonationAssumption DEF IsRow, Present
  <2> QED
    BY <1>1, <2>2
<1>9. CASE Tick \/ UNCHANGED vars
  BY <1>3, <1>9 DEF Tick, vars, Continues
<1> QED
  BY <1>4, <1>5, <1>6, <1>7, <1>8, <1>9, <1>10, StepKinds

\* Only the creation of a member view adds to started, under an id that had no row.
LEMMA StartedGrows ==
    ASSUME TypeOK, [Next]_vars
    PROVE  /\ \/ started' = started
              \/ \E t \in Task, id \in SessionId : CreateMember(t, id)
           /\ Members \subseteq Members' /\ Callers \subseteq Callers'
<1>1. \/ started' = started
      \/ \E t \in Task, id \in SessionId : CreateMember(t, id)
  <2>1. ASSUME NEW t \in Task, NEW b \in Browser, NEW pc \in {"start", "change", "end"},
               Loads(t, b, pc)
        PROVE  started' = started
    BY <2>1, LoadsRead
  <2>2. ASSUME NEW t \in Task, Writes(t) PROVE started' = started
    BY <2>2, WritesContinue
  <2> QED
    BY <2>1, <2>2, StepKinds DEF ReadPrevious, WriteBack, RemoveSession, Tick, vars
<1>2. started \subseteq started'
  BY <1>1 DEF CreateMember
<1> QED
  BY <1>1, <1>2 DEF Members, Callers

LEMMA CreatedIsNew ==
    ASSUME TypeOK, NEW t \in Task, NEW id \in SessionId, CreateMember(t, id)
    PROVE  /\ \A row : ~IsRow(id, row)
           /\ id \notin Members /\ id \notin Callers /\ id # tasks[t].id
           /\ \A b \in Browser : cookie[b] # id
           /\ \A o \in Task : tasks[o] # None => tasks[o].id # id /\ tasks[o].member # id
           /\ At(t, "create") /\ tasks[t].id \in SessionId
           /\ started' = started \cup {<<id, tasks[t].id, now - tasks[t].at>>}
           /\ Members' = Members \cup {id} /\ Callers' = Callers \cup {tasks[t].id}
<1>1. Unused(id) /\ At(t, "create") /\ tasks[t] \in Work
  BY DEF CreateMember, At, TypeOK
<1>2. /\ started' = started \cup {<<id, tasks[t].id, now - tasks[t].at>>}
      /\ id # tasks[t].id /\ tasks[t].id \in SessionId
  <2>1. tasks[t].id \in SessionId
    BY <1>1 DEF Work
  <2> QED
    BY <2>1, MemberCreated
<1>3. Members' = Members \cup {id} /\ Callers' = Callers \cup {tasks[t].id}
  <2> DEFINE p == <<id, tasks[t].id, now - tasks[t].at>>
  <2>1. p[1] = id /\ p[2] = tasks[t].id
    OBVIOUS
  <2>2. started' = started \cup {p}
    BY <1>2
  <2> HIDE DEF p
  <2>3. Members' = Members \cup {id}
    BY <2>1, <2>2 DEF Members
  <2>4. Callers' = Callers \cup {tasks[t].id}
    BY <2>1, <2>2 DEF Callers
  <2> QED
    BY <2>3, <2>4
<1>4. id \notin Members /\ id \notin Callers
  BY <1>1 DEF Unused, Members, Callers
<1> QED
  BY <1>1, <1>2, <1>3, <1>4 DEF Unused, IsRow

\* A step creates one member view.
LEMMA CreatedOnce ==
    ASSUME TypeOK, NEW t \in Task, NEW id \in SessionId, CreateMember(t, id),
           NEW o \in Task, NEW s \in SessionId, CreateMember(o, s)
    PROVE  o = t /\ s = id
<1>1. Members' = Members \cup {id} /\ id \notin Members
  BY CreatedIsNew
<1>2. Members' = Members \cup {s} /\ s \notin Members /\ At(o, "create")
  BY CreatedIsNew
<1>3. \A x \in Task : x # t => tasks'[x] = tasks[x]
  BY MemberCreated
<1>4. tasks'[o].pc # "create"
  BY MemberCreated
<1> QED
  BY <1>1, <1>2, <1>3, <1>4 DEF At

LEMMA StampsNext == TypeOK /\ StampsAreKept /\ [Next]_vars => StampsAreKept'
<1> SUFFICES ASSUME TypeOK, StampsAreKept, [Next]_vars PROVE StampsAreKept'
  OBVIOUS
<1>1. ASSUME NEW id \in SessionId, NEW row \in Row, IsRow(id, row)'
      PROVE  /\ row.stamp # None =>
                    KeepsStamp /\ id \in Members' /\ row.stamp.returnTo \in Callers'
             /\ KeepsStamp /\ id \in Members' => row.stamp # None
  <2>1. ASSUME NEW old \in Row, IsRow(id, old), Alike(row, old)
        PROVE  /\ row.stamp # None =>
                      KeepsStamp /\ id \in Members' /\ row.stamp.returnTo \in Callers'
               /\ KeepsStamp /\ id \in Members' => row.stamp # None
    <3>1. /\ old.stamp # None =>
                KeepsStamp /\ id \in Members /\ old.stamp.returnTo \in Callers
          /\ KeepsStamp /\ id \in Members => old.stamp # None
      BY <2>1 DEF StampsAreKept
    <3>2. id \in Members' => id \in Members
      <4>1. CASE started' = started
        BY <4>1 DEF Members
      <4>2. ASSUME NEW t \in Task, NEW s \in SessionId, CreateMember(t, s)
            PROVE  id \in Members' => id \in Members
        <5>1. Members' = Members \cup {s} /\ ~IsRow(s, old)
          BY <4>2, CreatedIsNew
        <5> QED
          BY <2>1, <5>1
      <4> QED
        BY <4>1, <4>2, StartedGrows
    <3>3. Members \subseteq Members' /\ Callers \subseteq Callers'
      BY StartedGrows
    <3> QED
      BY <2>1, <3>1, <3>2, <3>3 DEF Alike
  <2>2. ASSUME NEW t \in Task, CreateMember(t, id), row = Kept(Member(t))
        PROVE  /\ row.stamp # None =>
                      KeepsStamp /\ id \in Members' /\ row.stamp.returnTo \in Callers'
               /\ KeepsStamp /\ id \in Members' => row.stamp # None
    <3>1. /\ At(t, "create")
          /\ Members' = Members \cup {id} /\ Callers' = Callers \cup {tasks[t].id}
      BY <2>2, CreatedIsNew
    <3>2. Member(t) \in Row /\ Member(t).stamp # None
      BY <3>1, MemberIsRow
    <3>3. Member(t).stamp.returnTo = tasks[t].id
      BY DEF Member
    <3>4. row.stamp = IF KeepsStamp THEN Member(t).stamp ELSE None
      BY <2>2, <3>2, KeptIsRow
    <3> QED
      BY <3>1, <3>2, <3>3, <3>4
  <2> QED
    BY <1>1, <2>1, <2>2, RowsComeFrom
<1>2. ASSUME NEW t \in Task, tasks'[t] # None
      PROVE  /\ tasks'[t].row.stamp = None <=> Begun(t)'
             /\ tasks'[t].pc \notin {"create", "write back"} => tasks'[t].previous = None
  <2>1. CASE Continues(t)
    <3>1. CASE tasks'[t] = tasks[t]
      BY <1>2, <3>1 DEF StampsAreKept, Begun, Created, At
    <3>2. CASE tasks'[t] # tasks[t]
      BY <1>2, <2>1, <3>2 DEF Continues, StampsAreKept
    <3> QED
      BY <3>1, <3>2
  <2>2. ASSUME NEW o \in Task, NEW b \in Browser, NEW pc \in {"start", "change", "end"},
               Loads(o, b, pc), ~Continues(t)
        PROVE  /\ tasks'[t].row.stamp = None <=> Begun(t)'
               /\ tasks'[t].pc \notin {"create", "write back"} => tasks'[t].previous = None
    <3>1. /\ tasks'[o].pc = pc /\ tasks'[o].row = store[cookie[b]]
          /\ tasks'[o].previous = None
          /\ \A x \in Task : x # o => tasks'[x] = tasks[x]
          /\ store[cookie[b]].stamp = None <=> pc = "start"
      BY <2>2, LoadsRead
    <3>2. t = o
      BY <2>2, <3>1 DEF Continues
    <3> QED
      BY <1>2, <3>1, <3>2 DEF Begun, Created, At
  <2>3. ASSUME NEW o \in Task, ReadPrevious(o), ~Continues(t)
        PROVE  /\ tasks'[t].row.stamp = None <=> Begun(t)'
               /\ tasks'[t].pc \notin {"create", "write back"} => tasks'[t].previous = None
    <3>1. /\ tasks'[o].pc = "create" /\ tasks'[o].row = tasks[o].row
          /\ \A x \in Task : x # o => tasks'[x] = tasks[x]
      BY <2>3, PreviousRead
    <3>2. t = o
      BY <2>3, <3>1 DEF Continues
    <3>3. tasks[o].row.stamp = None
      BY <2>3 DEF ReadPrevious, StampsAreKept, Begun, Created, At
    <3> QED
      BY <1>2, <3>1, <3>2, <3>3 DEF Begun, Created, At
  <2>4. ASSUME NEW o \in Task, NEW s \in SessionId, CreateMember(o, s), ~Continues(t)
        PROVE  /\ tasks'[t].row.stamp = None <=> Begun(t)'
               /\ tasks'[t].pc \notin {"create", "write back"} => tasks'[t].previous = None
    <3>1. /\ tasks'[o].row = tasks[o].row /\ tasks'[o].previous = tasks[o].previous
          /\ tasks'[o].pc = IF tasks[o].previous = None THEN "start audit" ELSE "write back"
          /\ \A x \in Task : x # o => tasks'[x] = tasks[x]
      BY <2>4, MemberCreated
    <3>2. t = o
      BY <2>4, <3>1 DEF Continues
    <3>3. tasks[o].row.stamp = None
      BY <2>4 DEF CreateMember, StampsAreKept, Begun, Created, At
    <3> QED
      BY <1>2, <3>1, <3>2, <3>3 DEF Begun, Created, At
  <2>7. ASSUME NEW o \in Task, WriteBack(o), ~Continues(t)
        PROVE  /\ tasks'[t].row.stamp = None <=> Begun(t)'
               /\ tasks'[t].pc \notin {"create", "write back"} => tasks'[t].previous = None
    <3>1. /\ tasks'[o].row = tasks[o].row /\ tasks'[o].previous = None
          /\ tasks[o] # None /\ tasks[o].pc \in {"create", "write back"}
          /\ tasks'[o].pc \in {"create", "start audit"}
          /\ \A x \in Task : x # o => tasks'[x] = tasks[x]
      BY <2>7, PreviousWritten
    <3>2. t = o
      BY <2>7, <3>1 DEF Continues
    <3>3. tasks[o].row.stamp = None
      BY <3>1 DEF StampsAreKept, Begun, Created, At
    <3> QED
      BY <1>2, <3>1, <3>2, <3>3 DEF Begun, Created, At
  <2>5. ASSUME NEW o \in Task, Writes(o) PROVE Continues(t)
    BY <2>5, WritesContinue DEF Continues
  <2>6. ASSUME (\E id \in SessionId : RemoveSession(id)) \/ Tick \/ UNCHANGED vars
        PROVE  Continues(t)
    BY <2>6 DEF RemoveSession, Tick, vars, Continues
  <2> QED
    BY <2>1, <2>2, <2>3, <2>4, <2>5, <2>6, <2>7, StepKinds
<1>3. KeepsStamp => NeverNested'
  <2>1. CASE started' = started
    BY <2>1 DEF StampsAreKept, NeverNested
  <2>2. ASSUME NEW t \in Task, NEW id \in SessionId, CreateMember(t, id), KeepsStamp
        PROVE  NeverNested'
    <3>1. /\ id \notin Members /\ id \notin Callers /\ id # tasks[t].id
          /\ At(t, "create") /\ tasks[t].id \in SessionId
          /\ started' = started \cup {<<id, tasks[t].id, now - tasks[t].at>>}
      BY <2>2, CreatedIsNew
    <3>2. tasks[t].id \notin Members
      <4>1. tasks[t].row.stamp = None /\ tasks[t].row \in Row
        BY <3>1 DEF StampsAreKept, Begun, Created, At, TypeOK, Work
      <4>2. IsRow(tasks[t].id, tasks[t].row)
        BY <3>1 DEF IsRow, At
      <4> QED
        BY <2>2, <3>1, <4>1, <4>2 DEF StampsAreKept
    <3>3. \A p, q \in started : p[1] # q[2]
      BY <2>2 DEF StampsAreKept, NeverNested
    <3> QED
      BY <3>1, <3>2, <3>3 DEF NeverNested, Members, Callers
  <2> QED
    BY <2>1, <2>2, StartedGrows
<1> QED
  BY <1>1, <1>2, <1>3 DEF StampsAreKept

-------------------------------------------------------------------------------
(* Whose doing a session is, and when it ends.                                *)

LEMMA PersonNext ==
    ASSUME TypeOK, StampsAreKept, KeepsStamp, HasOnePerson, [Next]_vars
    PROVE  HasOnePerson'
<1>1. PICK person \in [SessionId -> User \cup {None}] : IsPersonOf(person)
  BY DEF HasOnePerson
<1>2. ASSUME NEW person2 \in [SessionId -> User \cup {None}],
             \A id \in SessionId, old \in Row : IsRow(id, old) =>
                /\ person2[id] = person[id]
                /\ old.stamp # None => person2[old.stamp.returnTo] = person[old.stamp.returnTo],
             \A t \in Task, id \in SessionId : CreateMember(t, id) =>
                /\ person2[id] = person[tasks[t].id]
                /\ person2[tasks[t].id] = person[tasks[t].id],
             NEW id \in SessionId, NEW row \in Row, IsRow(id, row)'
      PROVE  /\ Person(row) = person2[id]
             /\ row.stamp # None => person2[row.stamp.returnTo] = person2[id]
  <2>1. ASSUME NEW old \in Row, IsRow(id, old), Alike(row, old)
        PROVE  /\ Person(row) = person2[id]
               /\ row.stamp # None => person2[row.stamp.returnTo] = person2[id]
    <3>1. /\ Person(old) = person[id] /\ person2[id] = person[id]
          /\ old.stamp # None => /\ person[old.stamp.returnTo] = person[id]
                                 /\ person2[old.stamp.returnTo] = person[old.stamp.returnTo]
      BY <1>1, <1>2, <2>1 DEF IsPersonOf
    <3> QED
      BY <2>1, <3>1 DEF Alike, Person
  <2>2. ASSUME NEW t \in Task, CreateMember(t, id), row = Kept(Member(t))
        PROVE  /\ Person(row) = person2[id]
               /\ row.stamp # None => person2[row.stamp.returnTo] = person2[id]
    <3>1. At(t, "create") /\ tasks[t].id \in SessionId /\ tasks[t].row \in Row
      BY <2>2, CreatedIsNew DEF At, TypeOK, Work
    <3>2. tasks[t].row.stamp = None /\ IsRow(tasks[t].id, tasks[t].row)
      BY <3>1 DEF StampsAreKept, Begun, Created, At, IsRow
    <3>3. tasks[t].row.user = person[tasks[t].id]
      BY <1>1, <3>1, <3>2 DEF IsPersonOf, Person
    <3>4. Member(t).stamp # None /\ row.stamp = Member(t).stamp
      BY <2>2, <3>1, MemberIsRow, KeptIsRow
    <3>5. Member(t).stamp.actor = tasks[t].row.user /\ Member(t).stamp.returnTo = tasks[t].id
      BY DEF Member
    <3> QED
      BY <1>2, <2>2, <3>3, <3>4, <3>5 DEF Person
  <2> QED
    BY <1>2, <2>1, <2>2, RowsComeFrom
<1>3. CASE \E t \in Task, id \in SessionId : CreateMember(t, id)
  <2>1. PICK t \in Task, s \in SessionId : CreateMember(t, s)
    BY <1>3
  <2>2. /\ \A row : ~IsRow(s, row)
        /\ s \notin Callers /\ s # tasks[t].id /\ At(t, "create") /\ tasks[t].id \in SessionId
        /\ \A b \in Browser : cookie[b] # s
        /\ \A o \in Task : tasks[o] # None => tasks[o].id # s /\ tasks[o].member # s
    BY <2>1, CreatedIsNew
  <2>3. PICK person2 \in [SessionId -> User \cup {None}] :
           \A x \in SessionId : person2[x] = IF x = s THEN person[tasks[t].id] ELSE person[x]
    <3> DEFINE new == [person EXCEPT ![s] = person[tasks[t].id]]
    <3>1. new \in [SessionId -> User \cup {None}]
      BY <2>2
    <3>2. \A x \in SessionId : new[x] = IF x = s THEN person[tasks[t].id] ELSE person[x]
      OBVIOUS
    <3> QED
      BY <3>1, <3>2
  <2>4. \A id \in SessionId, old \in Row : IsRow(id, old) =>
           /\ person2[id] = person[id]
           /\ old.stamp # None => person2[old.stamp.returnTo] = person[old.stamp.returnTo]
    <3> SUFFICES ASSUME NEW id \in SessionId, NEW old \in Row, IsRow(id, old)
                 PROVE  /\ person2[id] = person[id]
                        /\ old.stamp # None =>
                              person2[old.stamp.returnTo] = person[old.stamp.returnTo]
      OBVIOUS
    <3>1. old.stamp # None => old.stamp.returnTo \in Callers /\ old.stamp.returnTo \in SessionId
      BY DEF StampsAreKept, Row, Stamp
    <3> QED
      BY <2>2, <2>3, <3>1
  <2>5. \A o \in Task, id \in SessionId : CreateMember(o, id) =>
           /\ person2[id] = person[tasks[o].id]
           /\ person2[tasks[o].id] = person[tasks[o].id]
    <3> SUFFICES ASSUME NEW o \in Task, NEW id \in SessionId, CreateMember(o, id)
                 PROVE  /\ person2[id] = person[tasks[o].id]
                        /\ person2[tasks[o].id] = person[tasks[o].id]
      OBVIOUS
    <3>1. id = s /\ o = t
      BY <2>1, CreatedOnce
    <3> QED
      BY <2>2, <2>3, <3>1
  <2>6. \A b \in Browser : cookie'[b] # None => person2[cookie'[b]] = BrowserUser[b]
    <3>1. cookie' = cookie
      BY <2>1 DEF CreateMember
    <3>2. \A b \in Browser : cookie[b] # None => person2[cookie[b]] = person[cookie[b]]
      BY <2>2, <2>3 DEF TypeOK
    <3> QED
      BY <1>1, <3>1, <3>2 DEF IsPersonOf
  <2>7. ASSUME NEW o \in Task, tasks'[o] # None
        PROVE  /\ person2[tasks'[o].id] = BrowserUser[tasks'[o].browser]
               /\ tasks'[o].member # None =>
                     person2[tasks'[o].member] = BrowserUser[tasks'[o].browser]
    <3>1. /\ tasks'[t].member = s /\ tasks'[t].browser = tasks[t].browser
          /\ tasks'[t].id = tasks[t].id
          /\ \A x \in Task : x # t => tasks'[x] = tasks[x]
      BY <2>1, MemberCreated
    <3>2. CASE o = t
      <4>1. person[tasks[t].id] = BrowserUser[tasks[t].browser]
        BY <1>1, <2>2 DEF IsPersonOf, At
      <4>2. person2[tasks[t].id] = person[tasks[t].id] /\ person2[s] = person[tasks[t].id]
        BY <2>2, <2>3
      <4> QED
        BY <3>1, <3>2, <4>1, <4>2
    <3>3. CASE o # t
      <4>1. tasks[o] # None /\ tasks[o] \in Work /\ tasks'[o] = tasks[o]
        BY <2>7, <3>1, <3>3 DEF TypeOK
      <4>2. /\ tasks[o].id \in SessionId /\ tasks[o].id # s
            /\ tasks[o].member \in SessionId \cup {None} /\ tasks[o].member # s
        BY <2>2, <4>1 DEF Work
      <4> QED
        BY <1>1, <2>3, <4>1, <4>2 DEF IsPersonOf
    <3> QED
      BY <3>2, <3>3
  <2>8. IsPersonOf(person2)'
    BY <1>2, <2>3, <2>4, <2>5, <2>6, <2>7 DEF IsPersonOf
  <2> QED
    BY <2>3, <2>8 DEF HasOnePerson
<1>4. CASE ~ \E t \in Task, id \in SessionId : CreateMember(t, id)
  <2>1. ASSUME NEW id \in SessionId, NEW row \in Row, IsRow(id, row)'
        PROVE  /\ Person(row) = person[id]
               /\ row.stamp # None => person[row.stamp.returnTo] = person[id]
    BY <1>2, <1>4, <2>1
  <2>2. ASSUME NEW b \in Browser, cookie'[b] # None
        PROVE  person[cookie'[b]] = BrowserUser[b]
    <3>1. CASE cookie'[b] = cookie[b]
      BY <1>1, <2>2, <3>1 DEF IsPersonOf
    <3>2. ASSUME NEW t \in Task, StartAudited(t) PROVE person[cookie'[b]] = BrowserUser[b]
      <4>1. tasks[t] # None /\ cookie' = [cookie EXCEPT ![tasks[t].browser] = tasks[t].member]
        BY <3>2 DEF StartAudited, At
      <4> QED
        BY <1>1, <2>2, <4>1 DEF IsPersonOf, TypeOK
    <3>5. ASSUME NEW t \in Task, RestoreCookie(t) PROVE person[cookie'[b]] = BrowserUser[b]
      <4>1. tasks[t] # None /\ cookie' = [cookie EXCEPT ![tasks[t].browser] = tasks[t].id]
        BY <3>5 DEF RestoreCookie, At
      <4> QED
        BY <1>1, <2>2, <4>1 DEF IsPersonOf, TypeOK
    <3>3. ASSUME NEW t \in Task, Restore(t) PROVE person[cookie'[b]] = BrowserUser[b]
      <4> DEFINE prior == tasks[t].row.stamp.returnTo
      <4>1. tasks[t] # None /\ At(t, "restore") /\ tasks[t].id \in SessionId /\ tasks[t].row \in Row
        BY <3>3 DEF Restore, At, TypeOK, Work
      <4>2. tasks[t].row.stamp # None /\ IsRow(tasks[t].id, tasks[t].row)
        BY <4>1 DEF StampsAreKept, Begun, Created, At, IsRow
      <4>3. person[prior] = BrowserUser[tasks[t].browser]
        BY <1>1, <4>1, <4>2 DEF IsPersonOf
      <4>4. cookie' = [cookie EXCEPT ![tasks[t].browser] = IF Live(prior) THEN prior ELSE None]
        BY <3>3 DEF Restore
      <4> HIDE DEF prior
      <4> QED
        BY <1>1, <2>2, <4>3, <4>4 DEF IsPersonOf, TypeOK
    <3>4. \/ cookie' = cookie
          \/ \E t \in Task : StartAudited(t) \/ RestoreCookie(t) \/ Restore(t)
      BY DEF Next, Request, Progress, Start, ChangeMode, End, Load, ReadPrevious, CreateMember,
             WriteBack, StartUnaudited, ReadActor, SetMode, ModeAudited, ModeUnaudited,
             EndAudited, RemoveMember, Refused, RemoveSession, Tick, vars
    <3> QED
      BY <3>1, <3>2, <3>3, <3>4, <3>5
  <2> DEFINE Held(o) == /\ person[tasks'[o].id] = BrowserUser[tasks'[o].browser]
                        /\ tasks'[o].member # None =>
                              person[tasks'[o].member] = BrowserUser[tasks'[o].browser]
  <2>3. ASSUME NEW o \in Task, tasks'[o] # None
        PROVE  Held(o)
    <3>1. CASE Continues(o)
      BY <1>1, <2>3, <3>1 DEF Continues, IsPersonOf
    <3>2. ASSUME NEW t \in Task, NEW b \in Browser, NEW pc \in {"start", "change", "end"},
                 Loads(t, b, pc)
          PROVE  Held(o)
      <4>1. /\ tasks'[t].id = cookie[b] /\ tasks'[t].browser = b /\ cookie[b] # None
            /\ tasks'[t].member = None
            /\ \A x \in Task : x # t => tasks'[x] = tasks[x]
        BY <3>2, LoadsRead DEF Present
      <4> QED
        BY <1>1, <2>3, <4>1 DEF IsPersonOf
    <3>3. ASSUME NEW t \in Task, ReadPrevious(t)
          PROVE  Held(o)
      <4>1. /\ tasks'[t].id = tasks[t].id /\ tasks'[t].browser = tasks[t].browser
            /\ tasks'[t].member = tasks[t].member
            /\ \A x \in Task : x # t => tasks'[x] = tasks[x]
        BY <3>3, PreviousRead
      <4>2. tasks[t] # None
        BY <3>3 DEF ReadPrevious, At
      <4> QED
        BY <1>1, <2>3, <4>1, <4>2 DEF IsPersonOf
    <3>6. ASSUME NEW t \in Task, WriteBack(t) PROVE Held(o)
      <4>1. /\ tasks'[t].id = tasks[t].id /\ tasks'[t].browser = tasks[t].browser
            /\ tasks'[t].member = tasks[t].member /\ tasks[t] # None
            /\ \A x \in Task : x # t => tasks'[x] = tasks[x]
        BY <3>6, PreviousWritten
      <4> QED
        BY <1>1, <2>3, <4>1 DEF IsPersonOf
    <3>4. ASSUME NEW t \in Task, Writes(t) PROVE Continues(o)
      BY <3>4, WritesContinue DEF Continues
    <3>5. ASSUME (\E id \in SessionId : RemoveSession(id)) \/ Tick \/ UNCHANGED vars
          PROVE  Continues(o)
      BY <3>5 DEF RemoveSession, Tick, vars, Continues
    <3> QED
      BY <1>4, <3>1, <3>2, <3>3, <3>4, <3>5, <3>6, StepKinds
  <2>4. IsPersonOf(person)'
    BY <2>1, <2>2, <2>3 DEF IsPersonOf
  <2> QED
    BY <2>4 DEF HasOnePerson
<1> QED
  BY <1>3, <1>4

\* The span of a member view ends with its caller's row.
LEMMA SpanNext == TypeOK /\ SpanIsCallers /\ [Next]_vars => SpanIsCallers'
<1> SUFFICES ASSUME TypeOK, SpanIsCallers, [Next]_vars, NEW o \in Task, At(o, "create")'
             PROVE  tasks'[o].at <= now' /\ tasks'[o].at + tasks'[o].span <= tasks'[o].row.expiresAt
  BY DEF SpanIsCallers
<1> DEFINE Goal ==
        tasks'[o].at <= now' /\ tasks'[o].at + tasks'[o].span <= tasks'[o].row.expiresAt
<1>0. now \in 0 .. MaxTime /\ now \in Nat /\ (now' = now \/ now' = now + 1)
  <2>1. now' = now \/ now' = now + 1
    <3>1. ASSUME NEW t \in Task, NEW b \in Browser, NEW pc \in {"start", "change", "end"},
                 Loads(t, b, pc)
          PROVE  now' = now
      BY <3>1, LoadsRead
    <3>2. ASSUME NEW t \in Task, Writes(t) PROVE now' = now
      BY <3>2 DEF Writes, StartAudited, StartUnaudited, RestoreCookie, ReadActor, SetMode,
                  ModeAudited, ModeUnaudited, EndAudited, RemoveMember, Restore, Refused
    <3> QED
      BY <3>1, <3>2, StepKinds
      DEF ReadPrevious, WriteBack, CreateMember, RemoveSession, Tick, vars
  <2>2. now \in 0 .. MaxTime
    BY DEF TypeOK
  <2>3. now \in Nat
    BY <2>2, ImpersonationAssumption
  <2> QED
    BY <2>1, <2>2, <2>3
<1>1. ASSUME tasks'[o] = tasks[o] PROVE Goal
  <2>1. tasks[o].at <= now /\ tasks[o].at + tasks[o].span <= tasks[o].row.expiresAt
    BY <1>1 DEF SpanIsCallers, At
  <2>2. tasks[o].at \in 0 .. MaxTime
    BY <1>1 DEF At, TypeOK, Work
  <2> QED
    BY <1>0, <1>1, <2>1, <2>2, ImpersonationAssumption
<1>2. ASSUME NEW t \in Task, NEW b \in Browser, NEW pc \in {"start", "change", "end"},
             Loads(t, b, pc)
      PROVE  Goal
  <2>1. /\ tasks'[t].pc = pc
        /\ \A x \in Task : x # t => tasks'[x] = tasks[x]
    BY <1>2, LoadsRead
  <2> QED
    BY <1>1, <2>1 DEF At
<1>3. ASSUME NEW t \in Task, ReadPrevious(t) PROVE Goal
  <2>1. /\ tasks'[t].at = now /\ now + tasks'[t].span <= tasks[t].row.expiresAt
        /\ tasks'[t].row = tasks[t].row
        /\ \A x \in Task : x # t => tasks'[x] = tasks[x]
    BY <1>3, PreviousRead
  <2>2. now <= now' /\ now \in Nat
    BY <1>0
  <2>3. CASE o = t
    BY <2>1, <2>2, <2>3
  <2>4. CASE o # t
    BY <1>1, <2>1, <2>4
  <2> QED
    BY <2>3, <2>4
<1>4. ASSUME NEW t \in Task, NEW id \in SessionId, CreateMember(t, id) PROVE Goal
  <2>1. /\ tasks'[t].pc # "create"
        /\ \A x \in Task : x # t => tasks'[x] = tasks[x]
    BY <1>4, MemberCreated
  <2> QED
    BY <1>1, <2>1 DEF At
<1>7. ASSUME NEW t \in Task, WriteBack(t) PROVE Goal
  <2>1. /\ tasks'[t].at = tasks[t].at /\ tasks'[t].span = tasks[t].span
        /\ tasks'[t].row = tasks[t].row /\ now' = now /\ tasks[t] # None
        /\ tasks'[t].pc = "create" => tasks[t].pc = "create"
        /\ \A x \in Task : x # t => tasks'[x] = tasks[x]
    BY <1>7, PreviousWritten
  <2>2. CASE o = t
    BY <2>1, <2>2 DEF SpanIsCallers, At
  <2>3. CASE o # t
    BY <1>1, <2>1, <2>3
  <2> QED
    BY <2>2, <2>3
<1>5. ASSUME NEW t \in Task, Writes(t) PROVE Goal
  <2>1. Continues(o)
    BY <1>5, WritesContinue DEF Continues
  <2> QED
    BY <1>1, <2>1 DEF Continues, At
<1>6. CASE (\E id \in SessionId : RemoveSession(id)) \/ Tick \/ UNCHANGED vars
  BY <1>1, <1>6 DEF RemoveSession, Tick, vars
<1> QED
  BY <1>2, <1>3, <1>4, <1>5, <1>6, <1>7, StepKinds

LEMMA ExpiryNext ==
    ASSUME TypeOK, StampsAreKept, SpanIsCallers, HasOneExpiry, [Next]_vars
    PROVE  HasOneExpiry'
<1>1. PICK expiry \in [SessionId -> 0 .. MaxTime + Duration] : IsExpiryOf(expiry)
  BY DEF HasOneExpiry
<1>2. CASE \E t \in Task, id \in SessionId : CreateMember(t, id)
  <2>1. PICK t \in Task, s \in SessionId : CreateMember(t, s)
    BY <1>2
  <2> DEFINE caller == tasks[t].id
  <2>2. /\ \A row : ~IsRow(s, row)
        /\ s \notin Members /\ s \notin Callers /\ s # caller
        /\ At(t, "create") /\ caller \in SessionId
        /\ started' = started \cup {<<s, caller, now - tasks[t].at>>}
    BY <2>1, CreatedIsNew
  <2>3. /\ tasks[t] \in Work /\ Member(t) \in Row
        /\ Member(t).expiresAt = now + tasks[t].span
    BY <2>2, MemberIsRow DEF Member, Expiry
  <2>4. PICK expiry2 \in [SessionId -> 0 .. MaxTime + Duration] :
           \A x \in SessionId : expiry2[x] = IF x = s THEN Member(t).expiresAt ELSE expiry[x]
    <3> DEFINE new == [expiry EXCEPT ![s] = Member(t).expiresAt]
    <3>1. Member(t).expiresAt \in 0 .. MaxTime + Duration
      BY <2>3 DEF Row
    <3>2. new \in [SessionId -> 0 .. MaxTime + Duration]
      BY <3>1
    <3>3. \A x \in SessionId : new[x] = IF x = s THEN Member(t).expiresAt ELSE expiry[x]
      OBVIOUS
    <3> QED
      BY <3>2, <3>3
  <2>5. ASSUME NEW id \in SessionId, NEW row \in Row, IsRow(id, row)'
        PROVE  row.expiresAt = expiry2[id]
    <3>1. ASSUME NEW old \in Row, IsRow(id, old), Alike(row, old)
          PROVE  row.expiresAt = expiry2[id]
      <4>1. id # s /\ old.expiresAt = expiry[id]
        BY <1>1, <2>2, <3>1 DEF IsExpiryOf
      <4> QED
        BY <2>4, <3>1, <4>1 DEF Alike
    <3>2. ASSUME NEW o \in Task, CreateMember(o, id), row = Kept(Member(o))
          PROVE  row.expiresAt = expiry2[id]
      <4>1. o = t /\ id = s
        BY <2>1, <3>2, CreatedOnce
      <4> QED
        BY <2>3, <2>4, <3>2, <4>1, KeptIsRow
    <3> QED
      BY <2>5, <3>1, <3>2, RowsComeFrom
  <2>6. ASSUME NEW p \in started PROVE expiry2[p[1]] <= expiry2[p[2]] + p[3]
    <3>1. p[1] \in SessionId /\ p[2] \in SessionId /\ p[1] # s /\ p[2] # s
      BY <2>2 DEF TypeOK, Members, Callers
    <3>2. expiry[p[1]] <= expiry[p[2]] + p[3]
      BY <1>1 DEF IsExpiryOf
    <3> QED
      BY <2>4, <3>1, <3>2
  <2>7. expiry2[s] <= expiry2[caller] + (now - tasks[t].at)
    <3>1. /\ tasks[t].at <= now /\ tasks[t].at + tasks[t].span <= tasks[t].row.expiresAt
      BY <2>2 DEF SpanIsCallers
    <3>2. tasks[t].row.expiresAt = expiry[caller]
      <4>1. IsRow(caller, tasks[t].row) /\ tasks[t].row \in Row
        BY <2>2, <2>3 DEF IsRow, At, Work
      <4> QED
        BY <1>1, <2>2, <4>1 DEF IsExpiryOf
    <3>3. expiry2[s] = now + tasks[t].span /\ expiry2[caller] = expiry[caller]
      BY <2>2, <2>3, <2>4
    <3>4. /\ tasks[t].at \in 0 .. MaxTime /\ tasks[t].span \in 0 .. Duration
          /\ now \in 0 .. MaxTime /\ expiry[caller] \in 0 .. MaxTime + Duration
      BY <2>2, <2>3 DEF TypeOK, Work
    <3> QED
      BY <3>1, <3>2, <3>3, <3>4, ImpersonationAssumption
  <2>8. ASSUME NEW p \in started' PROVE expiry2[p[1]] <= expiry2[p[2]] + p[3]
    BY <2>2, <2>6, <2>7
  <2>9. IsExpiryOf(expiry2)'
    BY <2>5, <2>8 DEF IsExpiryOf
  <2> QED
    BY <2>9 DEF HasOneExpiry
<1>3. CASE ~ \E t \in Task, id \in SessionId : CreateMember(t, id)
  <2>1. started' = started
    BY <1>3, StartedGrows
  <2>2. ASSUME NEW id \in SessionId, NEW row \in Row, IsRow(id, row)'
        PROVE  row.expiresAt = expiry[id]
    <3>1. PICK old \in Row : IsRow(id, old) /\ Alike(row, old)
      BY <1>3, <2>2, RowsComeFrom
    <3> QED
      BY <1>1, <3>1 DEF IsExpiryOf, Alike
  <2>3. IsExpiryOf(expiry)'
    BY <1>1, <2>1, <2>2 DEF IsExpiryOf
  <2> QED
    BY <2>3 DEF HasOneExpiry
<1> QED
  BY <1>2, <1>3

-------------------------------------------------------------------------------
(* A member view being started, and the modes in hand.                        *)

\* A request that wrote is not about to audit a start.
LEMMA WritesLeave ==
    ASSUME TypeOK, NEW t \in Task, Writes(t)
    PROVE  ~Created(t)'
<1>1. /\ tasks[t] # None
      /\ Done(t) \/ \E pc \in Stages : Goto(t, pc)
  BY DEF Writes, StartAudited, StartUnaudited, RestoreCookie, ReadActor, SetMode, ModeAudited,
         ModeUnaudited, EndAudited, RemoveMember, Restore, Refused, At, Stages
<1>2. tasks'[t] = None \/ tasks'[t].pc \in Stages
  BY <1>1, GoesOn
<1> QED
  BY <1>2 DEF At, Created, Stages

\* What a step puts in a cookie.
LEMMA CookiesSet ==
    ASSUME TypeOK, StampsAreKept, [Next]_vars, NEW b \in Browser
    PROVE  \/ cookie'[b] \in {cookie[b], None}
           \/ \E t \in Task : StartAudited(t) /\ cookie'[b] = tasks[t].member
           \/ \E t \in Task : RestoreCookie(t) /\ cookie'[b] = tasks[t].id
           \/ /\ KeepsStamp /\ cookie'[b] \in Callers
              /\ \E t \in Task : Restore(t)
<1>1. ASSUME NEW t \in Task, StartAudited(t) PROVE cookie'[b] \in {cookie[b], tasks[t].member}
  <2>1. cookie' = [cookie EXCEPT ![tasks[t].browser] = tasks[t].member]
    BY <1>1 DEF StartAudited
  <2> QED
    BY <2>1 DEF TypeOK
<1>4. ASSUME NEW t \in Task, RestoreCookie(t) PROVE cookie'[b] \in {cookie[b], tasks[t].id}
  <2>1. cookie' = [cookie EXCEPT ![tasks[t].browser] = tasks[t].id]
    BY <1>4 DEF RestoreCookie
  <2> QED
    BY <2>1 DEF TypeOK
<1>2. ASSUME NEW t \in Task, Restore(t)
      PROVE  cookie'[b] \in {cookie[b], None} \/ (KeepsStamp /\ cookie'[b] \in Callers)
  <2> DEFINE prior == tasks[t].row.stamp.returnTo
  <2>1. tasks[t] # None /\ At(t, "restore") /\ tasks[t].id \in SessionId /\ tasks[t].row \in Row
    BY <1>2 DEF Restore, At, TypeOK, Work
  <2>2. tasks[t].row.stamp # None /\ IsRow(tasks[t].id, tasks[t].row)
    BY <2>1 DEF StampsAreKept, Begun, Created, At, IsRow
  <2>3. KeepsStamp /\ prior \in Callers
    BY <2>1, <2>2 DEF StampsAreKept
  <2>4. cookie' = [cookie EXCEPT ![tasks[t].browser] = IF Live(prior) THEN prior ELSE None]
    BY <1>2 DEF Restore
  <2> HIDE DEF prior
  <2> QED
    BY <2>3, <2>4 DEF TypeOK
<1>3. \/ cookie' = cookie
      \/ \E t \in Task : StartAudited(t) \/ RestoreCookie(t) \/ Restore(t)
  BY DEF Next, Request, Progress, Start, ChangeMode, End, Load, ReadPrevious, CreateMember,
         WriteBack, StartUnaudited, ReadActor, SetMode, ModeAudited, ModeUnaudited, EndAudited,
         RemoveMember, Refused, RemoveSession, Tick, vars
<1> QED
  BY <1>1, <1>2, <1>3, <1>4

LEMMA StartsNext == TypeOK /\ StampsAreKept /\ StartsAlone /\ [Next]_vars => StartsAlone'
<1> DEFINE Known(t, x) ==
               /\ x \in Members'
               /\ \A b \in Browser : cookie'[b] # x
               /\ \A o \in Task : tasks'[o] # None =>
                     tasks'[o].id # x /\ (tasks'[o].member = x => o = t)
               /\ store'[x] # None /\ store'[x].stamp # None =>
                     store'[x].stamp.mode = tasks'[t].mode
<1> SUFFICES ASSUME TypeOK, StampsAreKept, StartsAlone, [Next]_vars,
                    NEW t \in Task, Created(t)'
             PROVE  Known(t, tasks'[t].member)
  BY DEF StartsAlone, Present
<1> DEFINE id == tasks[t].member
<1>1. ASSUME NEW s \in SessionId, CreateMember(t, s) PROVE Known(t, tasks'[t].member)
  <2>1. /\ tasks'[t].member = s /\ tasks'[t].mode = tasks[t].mode
        /\ tasks'[t].id = tasks[t].id
        /\ \A o \in Task : o # t => tasks'[o] = tasks[o]
        /\ store'[s] = Kept(Member(t))
    BY <1>1, MemberCreated
  <2>2. /\ \A b \in Browser : cookie[b] # s
        /\ \A o \in Task : tasks[o] # None => tasks[o].id # s /\ tasks[o].member # s
        /\ s \in Members' /\ At(t, "create")
    BY <1>1, CreatedIsNew
  <2>3. Member(t) \in Row /\ Member(t).stamp.mode = tasks[t].mode
    BY <2>2, MemberIsRow DEF Member
  <2>4. store'[s].stamp # None => store'[s].stamp = Member(t).stamp
    BY <2>1, <2>3, KeptIsRow
  <2>5. cookie' = cookie
    BY <1>1 DEF CreateMember
  <2>6. \A o \in Task : tasks'[o] # None =>
           tasks'[o].id # s /\ (tasks'[o].member = s => o = t)
    BY <2>1, <2>2 DEF At
  <2>7. store'[s] # None /\ store'[s].stamp # None => store'[s].stamp.mode = tasks'[t].mode
    BY <2>1, <2>3, <2>4
  <2> QED
    BY <2>1, <2>2, <2>5, <2>6, <2>7
<1>2. ASSUME Created(t), tasks'[t].member = id, tasks'[t].mode = tasks[t].mode,
             \A b \in Browser : cookie'[b] # id,
             \A o \in Task : tasks'[o] # None =>
                tasks'[o].id # id /\ (tasks'[o].member = id => o = t),
             store'[id] \in {store[id], None}
      PROVE  Known(t, tasks'[t].member)
  <2>1. /\ id \in Members
        /\ store[id] # None /\ store[id].stamp # None => store[id].stamp.mode = tasks[t].mode
    <3>1. id \in Members /\ id \in SessionId /\ id # None
      BY <1>2, ImpersonationAssumption DEF StartsAlone, Members, TypeOK
    <3> QED
      BY <1>2, <3>1 DEF StartsAlone, Present
  <2>2. id \in Members'
    BY <2>1, StartedGrows
  <2> QED
    BY <1>2, <2>1, <2>2
<1>3. ASSUME Created(t)
      PROVE  /\ id \in SessionId /\ id # None /\ id \in Members
             /\ \A b \in Browser : cookie[b] # id
             /\ \A o \in Task : tasks[o] # None =>
                   tasks[o].id # id /\ (tasks[o].member = id => o = t)
  BY <1>3, ImpersonationAssumption DEF StartsAlone, Members, TypeOK
<1> HIDE DEF id
<1>9. ASSUME tasks'[t] = tasks[t]
      PROVE  Created(t) /\ tasks'[t].member = id /\ tasks'[t].mode = tasks[t].mode
  BY <1>9 DEF Created, At, id
<1>4. ASSUME NEW o \in Task, NEW s \in SessionId, CreateMember(o, s), o # t
      PROVE  Known(t, tasks'[t].member)
  <2>1. /\ tasks'[o].id = tasks[o].id /\ tasks'[o].member = s
        /\ \A x \in Task : x # o => tasks'[x] = tasks[x]
        /\ \A x \in SessionId : x # s => store'[x] = store[x]
    BY <1>4, MemberCreated
  <2>2. tasks'[t] = tasks[t] /\ Created(t) /\ tasks[t] # None
    BY <1>4, <1>9, <2>1 DEF Created, At
  <2>3. id # s /\ tasks[o] # None /\ cookie' = cookie
    BY <1>4, <2>2, CreatedIsNew DEF At, id, CreateMember
  <2>4. tasks[o].id # id
    BY <1>3, <2>2, <2>3
  <2>5. store'[id] = store[id]
    BY <1>3, <2>1, <2>2, <2>3
  <2>6. \A x \in Task : tasks'[x] # None =>
           tasks'[x].id # id /\ (tasks'[x].member = id => x = t)
    BY <1>3, <2>1, <2>2, <2>3, <2>4
  <2>7. \A b \in Browser : cookie'[b] # id
    BY <1>3, <2>2, <2>3
  <2> HIDE DEF Known
  <2> QED
    BY <1>2, <1>9, <2>2, <2>5, <2>6, <2>7
<1>5. ASSUME NEW o \in Task, NEW b \in Browser, NEW pc \in {"start", "change", "end"},
             Loads(o, b, pc)
      PROVE  Known(t, tasks'[t].member)
  <2>1. /\ tasks'[o].id = cookie[b] /\ tasks'[o].pc = pc /\ UNCHANGED <<store, cookie>>
        /\ tasks'[o].member = None
        /\ \A x \in Task : x # o => tasks'[x] = tasks[x]
    BY <1>5, LoadsRead
  <2>2. o # t /\ tasks'[t] = tasks[t]
    BY <2>1 DEF Created, At
  <2>3. \A x \in Task : tasks'[x] # None =>
           tasks'[x].id # id /\ (tasks'[x].member = id => x = t)
    BY <1>3, <1>9, <2>1, <2>2
  <2>4. (\A c \in Browser : cookie'[c] # id) /\ store'[id] = store[id]
    BY <1>3, <1>9, <2>1, <2>2
  <2> HIDE DEF Known
  <2> QED
    BY <1>2, <1>9, <2>2, <2>3, <2>4
<1>6. ASSUME NEW o \in Task, ReadPrevious(o) PROVE Known(t, tasks'[t].member)
  <2>1. /\ tasks'[o].id = tasks[o].id /\ tasks'[o].pc = "create"
        /\ tasks'[o].member = tasks[o].member
        /\ \A x \in Task : x # o => tasks'[x] = tasks[x]
    BY <1>6, PreviousRead
  <2>2. o # t /\ tasks'[t] = tasks[t]
    BY <2>1 DEF Created, At
  <2>3. tasks[o] # None /\ UNCHANGED <<store, cookie>>
    BY <1>6 DEF ReadPrevious, At
  <2>4. \A x \in Task : tasks'[x] # None =>
           tasks'[x].id # id /\ (tasks'[x].member = id => x = t)
    BY <1>3, <1>9, <2>1, <2>2, <2>3
  <2>5. (\A c \in Browser : cookie'[c] # id) /\ store'[id] = store[id]
    BY <1>3, <1>9, <2>2, <2>3
  <2> HIDE DEF Known
  <2> QED
    BY <1>2, <1>9, <2>2, <2>4, <2>5
<1>10. ASSUME NEW o \in Task, WriteBack(o) PROVE Known(t, tasks'[t].member)
  <2>1. /\ tasks'[o].id = tasks[o].id /\ tasks'[o].member = tasks[o].member
        /\ tasks[o] # None /\ tasks'[o].mode = tasks[o].mode
        /\ \/ tasks[o].pc = "create" /\ tasks'[o].pc = "create"
           \/ tasks[o].pc = "write back" /\ tasks'[o].pc = "start audit"
        /\ \A x \in Task : x # o => tasks'[x] = tasks[x]
        /\ \A x \in SessionId : x # tasks[o].id => store'[x] = store[x]
        /\ cookie' = cookie
    BY <1>10, PreviousWritten
  <2>2. Created(t) /\ tasks'[t].member = id /\ tasks'[t].mode = tasks[t].mode
    <3>1. CASE o = t
      BY <2>1, <3>1 DEF Created, At, id
    <3>2. CASE o # t
      BY <1>9, <2>1, <3>2
    <3> QED
      BY <3>1, <3>2
  <2>3. \A x \in Task : tasks'[x] # None =>
           tasks'[x].id # id /\ (tasks'[x].member = id => x = t)
    BY <1>3, <2>1, <2>2
  <2>4. (\A c \in Browser : cookie'[c] # id) /\ store'[id] = store[id]
    BY <1>3, <2>1, <2>2
  <2> HIDE DEF Known
  <2> QED
    BY <1>2, <2>2, <2>3, <2>4
<1>7. ASSUME NEW o \in Task, Writes(o) PROVE Known(t, tasks'[t].member)
  <2>1. /\ tasks[o] # None /\ Continues(o) /\ \A x \in Task : x # o => tasks'[x] = tasks[x]
    BY <1>7, WritesContinue
  <2>2. o # t /\ tasks'[t] = tasks[t]
    BY <1>7, <2>1, WritesLeave
  <2>3. Created(t) /\ tasks[o].id # id /\ tasks[o].member # id
    BY <1>3, <1>9, <2>1, <2>2
  <2>4. \A x \in Task : tasks'[x] # None =>
           tasks'[x].id # id /\ (tasks'[x].member = id => x = t)
    BY <1>3, <2>1, <2>2, <2>3 DEF Continues
  <2>5. store'[id] \in {store[id], None}
    BY <1>3, <1>7, <2>3, WritesRows
  <2>6. ASSUME NEW b \in Browser PROVE cookie'[b] # id
    <3>1. CASE cookie'[b] \in {cookie[b], None}
      BY <1>3, <2>3, <3>1
    <3>2. ASSUME NEW x \in Task, StartAudited(x) \/ RestoreCookie(x),
                 cookie'[b] \in {tasks[x].id, tasks[x].member}
          PROVE  cookie'[b] # id
      <4>1. Writes(x)
        BY <3>2 DEF Writes
      <4>2. x # t /\ tasks[x] # None
        BY <4>1, WritesContinue, WritesLeave
      <4> QED
        BY <1>3, <2>3, <3>2, <4>2
    <3>3. CASE KeepsStamp /\ cookie'[b] \in Callers
      <4>1. \A p, q \in started : p[1] # q[2]
        BY <3>3 DEF StampsAreKept, NeverNested
      <4>2. id \in Members
        BY <1>3, <2>3
      <4> QED
        BY <3>3, <4>1, <4>2 DEF Members, Callers
    <3> QED
      BY <3>1, <3>2, <3>3, CookiesSet
  <2> HIDE DEF Known
  <2> QED
    BY <1>2, <1>9, <2>2, <2>4, <2>5, <2>6
<1>8. ASSUME (\E s \in SessionId : RemoveSession(s)) \/ Tick \/ UNCHANGED vars
      PROVE  Known(t, tasks'[t].member)
  <2>1. UNCHANGED <<tasks, cookie>>
    BY <1>8 DEF RemoveSession, Tick, vars
  <2>2. tasks'[t] = tasks[t] /\ Created(t)
    BY <1>9, <2>1
  <2>3. store'[id] \in {store[id], None}
    BY <1>3, <1>8, <2>2 DEF RemoveSession, Tick, vars, TypeOK
  <2>4. /\ \A b \in Browser : cookie'[b] # id
        /\ \A x \in Task : tasks'[x] # None =>
              tasks'[x].id # id /\ (tasks'[x].member = id => x = t)
    BY <1>3, <2>1, <2>2
  <2> HIDE DEF Known
  <2> QED
    BY <1>2, <1>9, <2>2, <2>3, <2>4
<1> HIDE DEF Known
<1> QED
  BY <1>1, <1>4, <1>5, <1>6, <1>7, <1>8, <1>10, StepKinds

\* A step that sets and audits no mode of a session leaves its modes in hand as they are.
LEMMA ModesUntouched ==
    ASSUME TypeOK, NEW id \in SessionId, ModeInHand(id),
           store'[id] \in {store[id], None}, audited \subseteq audited',
           \A t \in Task :
              \/ tasks'[t] = tasks[t]
              \/ ~Changing(t)' /\ (Auditing(t, id) => Auditing(t, id)')
              \/ /\ Changing(t) /\ ~At(t, "mode audit") /\ ~At(t, "mode audit")'
                 /\ tasks'[t].id = tasks[t].id /\ tasks'[t].row = tasks[t].row
    PROVE  ModeInHand(id)'
<1>1. \A t \in Task : Changing(t)' =>
         Changing(t) /\ tasks'[t].id = tasks[t].id /\ tasks'[t].row = tasks[t].row
  BY DEF Changing, At
<1>2. Present(id)' => Present(id) /\ store'[id] = store[id]
  BY DEF Present
<1>3. \A t, o \in Task : Changing(t)' /\ Changing(o)' /\ tasks'[t].id = id /\ tasks'[o].id = id
         => t = o
  BY <1>1 DEF ModeInHand
<1>4. \A t \in Task : Changing(t)' /\ tasks'[t].id = id =>
         <<id, tasks'[t].row.stamp.mode>> \in audited'
  BY <1>1 DEF ModeInHand
<1>5. \A t \in Task : At(t, "mode audit")' => tasks'[t] = tasks[t] /\ At(t, "mode audit")
  BY DEF Changing, At
<1>6. \A t \in Task : At(t, "mode audit")' /\ tasks'[t].id = id /\ Present(id)' =>
         store'[id].stamp.mode = tasks'[t].mode
  BY <1>2, <1>5 DEF ModeInHand
<1>7. ASSUME NEW t \in Task, Auditing(t, id) PROVE Auditing(t, id)'
  <2>1. CASE tasks'[t] = tasks[t]
    BY <1>7, <2>1 DEF Auditing, Created, At
  <2>2. ~(Changing(t) /\ ~At(t, "mode audit"))
    BY <1>7 DEF Auditing, Created, Changing, At
  <2> QED
    BY <1>7, <2>1, <2>2
<1>8. ASSUME Present(id)', store'[id].stamp # None
      PROVE  <<id, store'[id].stamp.mode>> \in audited' \/ \E t \in Task : Auditing(t, id)'
  BY <1>2, <1>7, <1>8 DEF ModeInHand
<1> QED
  BY <1>3, <1>4, <1>6, <1>8 DEF ModeInHand

\* A session whose mode is being changed is a member view, where stamps are kept.
LEMMA ChangingIsMember ==
    ASSUME TypeOK, StampsAreKept, NEW t \in Task, Changing(t)
    PROVE  /\ KeepsStamp /\ tasks[t].id \in Members /\ tasks[t] \in Work
           /\ tasks[t].row.stamp # None /\ tasks[t].row \in Row /\ tasks[t].id \in SessionId
<1>1. tasks[t] # None /\ tasks[t] \in Work /\ tasks[t].pc \in {"change", "mode", "mode audit"}
  BY DEF Changing, At, TypeOK
<1>2. tasks[t].row \in Row /\ tasks[t].id \in SessionId
  BY <1>1 DEF Work
<1>3. tasks[t].row.stamp # None
  BY <1>1 DEF StampsAreKept, Begun, Created, At
<1>4. IsRow(tasks[t].id, tasks[t].row)
  BY <1>1 DEF IsRow
<1> QED
  BY <1>1, <1>2, <1>3, <1>4 DEF StampsAreKept

\* A change of mode begins.
LEMMA ModesOnChange ==
    ASSUME TypeOK, StampsAreKept, StartsAlone, ModesInHand,
           NEW t \in Task, NEW b \in Browser, NEW mode \in Mode, ChangeMode(t, b, mode),
           NEW id \in SessionId, id \notin overlapped'
    PROVE  ModeInHand(id)'
<1>1. /\ Present(cookie[b]) /\ cookie[b] \in SessionId
      /\ tasks[t] = None
      /\ tasks'[t].pc = "change" /\ tasks'[t].id = cookie[b]
      /\ tasks'[t].row = store[cookie[b]]
      /\ \A o \in Task : o # t => tasks'[o] = tasks[o]
      /\ UNCHANGED <<store, audited>>
      /\ store[cookie[b]].stamp # None
  <2>1. Loads(t, b, "change")
    BY DEF Loads
  <2> QED
    BY <2>1, LoadsRead
<1>2. /\ overlapped \subseteq overlapped'
      /\ cookie[b] \notin overlapped' =>
            \A o \in Task : Changing(o) => tasks[o].id # cookie[b]
  BY DEF ChangeMode, Changing, At
<1>3. ModeInHand(id)
  BY <1>2 DEF ModesInHand
<1>4. \A o \in Task : Changing(o)' => o = t \/ (Changing(o) /\ tasks'[o] = tasks[o])
  BY <1>1 DEF Changing, At
<1>5. \A o \in Task : At(o, "mode audit")' => Changing(o)' /\ o # t
  BY <1>1 DEF Changing, At
<1>6. Present(id)' => Present(id) /\ store'[id] = store[id]
  BY <1>1 DEF Present
<1>7. CASE id = cookie[b]
  <2>1. <<id, store[id].stamp.mode>> \in audited
    <3>1. \A o \in Task : Created(o) => tasks[o].member # id
      BY <1>7 DEF StartsAlone
    <3>2. \A o \in Task : At(o, "mode audit") => tasks[o].id # id
      BY <1>2, <1>7 DEF Changing
    <3> QED
      BY <1>1, <1>3, <1>7, <3>1, <3>2 DEF ModeInHand, Auditing
  <2>2. \A o \in Task : Changing(o)' /\ tasks'[o].id = id => o = t
    BY <1>2, <1>4, <1>7
  <2>3. \A o \in Task : Changing(o)' /\ tasks'[o].id = id =>
           <<id, tasks'[o].row.stamp.mode>> \in audited'
    BY <1>1, <1>7, <2>1, <2>2
  <2> QED
    BY <1>1, <1>5, <2>1, <2>2, <2>3 DEF ModeInHand
<1>8. CASE id # cookie[b]
  <2>1. \A o \in Task : Changing(o)' /\ tasks'[o].id = id => Changing(o) /\ tasks'[o] = tasks[o]
    BY <1>1, <1>4, <1>8
  <2>2. \A o \in Task : Auditing(o, id) => Auditing(o, id)'
    BY <1>1 DEF Auditing, Created, At
  <2>3. \A x, o \in Task : Changing(x)' /\ Changing(o)' /\ tasks'[x].id = id /\ tasks'[o].id = id
           => x = o
    BY <1>3, <2>1 DEF ModeInHand
  <2>4. \A o \in Task : Changing(o)' /\ tasks'[o].id = id =>
           <<id, tasks'[o].row.stamp.mode>> \in audited'
    BY <1>1, <1>3, <2>1 DEF ModeInHand
  <2>5. \A o \in Task : At(o, "mode audit")' /\ tasks'[o].id = id /\ Present(id)' =>
           store'[id].stamp.mode = tasks'[o].mode
    BY <1>3, <1>5, <1>6, <2>1 DEF ModeInHand, At
  <2>6. ASSUME Present(id)', store'[id].stamp # None
        PROVE  <<id, store'[id].stamp.mode>> \in audited' \/ \E o \in Task : Auditing(o, id)'
    BY <1>1, <1>3, <1>6, <2>2, <2>6 DEF ModeInHand
  <2> QED
    BY <2>3, <2>4, <2>5, <2>6 DEF ModeInHand
<1> QED
  BY <1>7, <1>8

\* A member view is created.
LEMMA ModesOnCreate ==
    ASSUME TypeOK, NEW t \in Task, NEW s \in SessionId, CreateMember(t, s),
           NEW id \in SessionId, ModeInHand(id)
    PROVE  ModeInHand(id)'
<1>1. /\ tasks'[t] # None
      /\ \A o \in Task : o # t => tasks'[o] = tasks[o]
      /\ tasks'[t].pc \in {"start audit", "write back"} /\ tasks'[t].member = s
      /\ \A x \in SessionId : x # s => store'[x] = store[x]
  <2>1. tasks'[t] \in Work
    BY MemberCreated
  <2>2. tasks'[t] # None
    BY <2>1, ImpersonationAssumption
  <2>3. tasks'[t].pc \in {"start audit", "write back"} /\ tasks'[t].member = s
    BY MemberCreated
  <2>4. /\ \A o \in Task : o # t => tasks'[o] = tasks[o]
        /\ \A x \in SessionId : x # s => store'[x] = store[x]
    BY MemberCreated
  <2> QED
    BY <2>2, <2>3, <2>4
<1>2. /\ At(t, "create") /\ \A o \in Task : tasks[o] # None => tasks[o].id # s
  BY CreatedIsNew
<1>3. \A o \in Task : Changing(o)' => Changing(o) /\ tasks'[o] = tasks[o] /\ tasks[o] # None
  BY <1>1 DEF Changing, At
<1>4. audited' = audited
  BY DEF CreateMember
<1>5. CASE id = s
  <2>1. Auditing(t, id)'
    BY <1>1, <1>5 DEF Auditing, Created, At
  <2>2. \A o \in Task : Changing(o)' => tasks'[o].id # id
    BY <1>2, <1>3, <1>5
  <2> QED
    BY <2>1, <2>2 DEF ModeInHand, Changing
<1>6. CASE id # s
  <2>1. \A o \in Task : tasks'[o] = tasks[o] \/ (~Changing(o)' /\ ~Auditing(o, id))
    BY <1>1, <1>2 DEF Changing, Auditing, Created, At
  <2>2. store'[id] = store[id]
    BY <1>1, <1>6
  <2> HIDE DEF ModeInHand
  <2> QED
    BY <1>4, <2>1, <2>2, ModesUntouched
<1> QED
  BY <1>5, <1>6

\* The row of the caller is written back beside it: its session has no mode.
LEMMA ModesOnWriteBack ==
    ASSUME TypeOK, StampsAreKept, NEW t \in Task, WriteBack(t),
           NEW id \in SessionId, ModeInHand(id)
    PROVE  ModeInHand(id)'
<1>1. /\ tasks[t] # None /\ tasks[t] \in Work /\ tasks'[t] \in Work
      /\ \A o \in Task : o # t => tasks'[o] = tasks[o]
      /\ \/ tasks[t].pc = "create" /\ tasks'[t].pc = "create"
         \/ tasks[t].pc = "write back" /\ tasks'[t].pc = "start audit"
      /\ tasks'[t].member = tasks[t].member
      /\ tasks[t].previous \in Row /\ tasks[t].previous # None
      /\ \A x \in SessionId : store'[x] =
            IF x = tasks[t].id THEN Kept(tasks[t].previous) ELSE store[x]
      /\ audited' = audited
  BY PreviousWritten
<1>2. tasks'[t] # None
  BY <1>1, ImpersonationAssumption
<1>3. \A o \in Task : \/ tasks'[o] = tasks[o]
                      \/ ~Changing(o)' /\ (Auditing(o, id) => Auditing(o, id)')
  BY <1>1, <1>2 DEF Changing, Auditing, Created, At
<1>4. CASE id # tasks[t].id
  <2>1. store'[id] = store[id]
    BY <1>1, <1>4
  <2> QED
    BY <1>1, <1>3, <2>1, ModesUntouched
<1>5. CASE id = tasks[t].id
  <2>1. tasks[t].row.stamp = None /\ tasks[t].row \in Row
    BY <1>1 DEF StampsAreKept, Begun, Created, At, Work
  <2>2. IsRow(id, tasks[t].row) /\ IsRow(id, tasks[t].previous)
    BY <1>1, <1>5 DEF IsRow
  <2>3. ~(KeepsStamp /\ id \in Members) /\ tasks[t].previous.stamp = None
    BY <1>1, <2>1, <2>2 DEF StampsAreKept
  <2>4. store'[id].stamp = None
    <3>1. Kept(tasks[t].previous).stamp = None
      BY <1>1, <2>3, KeptIsRow
    <3> QED
      BY <1>1, <1>5, <3>1
  <2>5. \A o \in Task : Changing(o)' => Changing(o) /\ tasks'[o] = tasks[o]
    BY <1>3 DEF Changing, At
  <2>6. \A o \in Task : Changing(o)' => tasks'[o].id # id
    BY <2>3, <2>5, ChangingIsMember
  <2> QED
    BY <2>4, <2>6 DEF ModeInHand, Changing
<1> QED
  BY <1>4, <1>5

\* A change of mode writes, puts back or audits.
LEMMA ModesOnWrite ==
    ASSUME TypeOK, StampsAreKept, StartsAlone, NEW t \in Task, Writes(t),
           NEW id \in SessionId, ModeInHand(id)
    PROVE  ModeInHand(id)'
<1>1. /\ tasks[t] # None /\ tasks[t] \in Work /\ Continues(t)
      /\ \A o \in Task : o # t => tasks'[o] = tasks[o]
  BY WritesContinue DEF TypeOK
<1>2. audited \subseteq audited'
  BY DEF Writes, StartAudited, StartUnaudited, RestoreCookie, ReadActor, SetMode, ModeAudited,
         ModeUnaudited, EndAudited, RemoveMember, Restore, Refused
<1>3. ASSUME store'[id] \in {store[id], None}, ~Changing(t)', ~Auditing(t, id)
      PROVE  ModeInHand(id)'
  <2>1. \A o \in Task : tasks'[o] = tasks[o] \/ (~Changing(o)' /\ ~Auditing(o, id))
    BY <1>1, <1>3
  <2> QED
    BY <1>2, <1>3, <2>1, ModesUntouched
<1>4. CASE ModeAudited(t) \/ ModeUnaudited(t)
  <2>1. tasks'[t] = None /\ At(t, "mode audit")
    BY <1>4 DEF ModeAudited, ModeUnaudited, Done, TypeOK
  <2>2. ~Changing(t)' /\ Changing(t)
    BY <2>1 DEF Changing, At
  <2>3. CASE tasks[t].id # id
    <3>1. store'[id] \in {store[id], None}
      BY <2>3, WritesRows
    <3>2. ~Auditing(t, id)
      BY <2>1, <2>3 DEF Auditing, Created, At
    <3> QED
      BY <1>3, <2>2, <3>1, <3>2
  <2>4. CASE tasks[t].id = id
    <3>1. \A o \in Task : Changing(o)' => o # t /\ Changing(o) /\ tasks'[o] = tasks[o]
      BY <1>1, <2>2 DEF Changing, At
    <3>2. ASSUME NEW o \in Task, Changing(o)', tasks'[o].id = id PROVE FALSE
      BY <2>2, <2>4, <3>1, <3>2 DEF ModeInHand
    <3>3. ASSUME Present(id)', store'[id].stamp # None
          PROVE  <<id, store'[id].stamp.mode>> \in audited'
      <4>1. CASE ModeAudited(t)
        <5>1. store' = store /\ <<id, tasks[t].mode>> \in audited'
          BY <2>4, <4>1 DEF ModeAudited
        <5>2. store'[id].stamp.mode = tasks[t].mode
          BY <2>1, <2>4, <3>3, <5>1 DEF ModeInHand, Present
        <5> QED
          BY <5>1, <5>2
      <4>2. CASE ModeUnaudited(t)
        <5>1. tasks[t].row \in Row /\ store'[id] = Kept(tasks[t].row)
          BY <2>4, <4>2, ModeWritten
        <5>2. store'[id].stamp = tasks[t].row.stamp
          BY <3>3, <5>1, KeptIsRow
        <5>3. <<id, tasks[t].row.stamp.mode>> \in audited
          BY <2>2, <2>4 DEF ModeInHand
        <5> QED
          BY <1>2, <5>2, <5>3
      <4> QED
        BY <1>4, <4>1, <4>2
    <3> QED
      BY <3>2, <3>3 DEF ModeInHand, Changing
  <2> QED
    BY <2>3, <2>4
<1>7. CASE StartAudited(t) \/ StartUnaudited(t)
  <2>1. At(t, "start audit") /\ Created(t)
    BY <1>7 DEF StartAudited, StartUnaudited, Created
  <2>2. /\ ~Changing(t)'
        /\ store'[id] = store[id] \/ (StartUnaudited(t) /\ id = tasks[t].member)
    <3>1. CASE StartAudited(t)
      <4>1. tasks'[t] = None /\ store' = store
        BY <3>1 DEF StartAudited, Done, TypeOK
      <4> QED
        BY <4>1 DEF Changing, At
    <3>2. CASE StartUnaudited(t)
      <4>1. Goto(t, "give back") /\ store' = [store EXCEPT ![tasks[t].member] = None]
        BY <3>2 DEF StartUnaudited, RolledBack
      <4> DEFINE next == [tasks[t] EXCEPT !.pc = "give back"]
      <4>2. next.pc = "give back"
        BY <1>1 DEF Work
      <4>3. tasks' = [tasks EXCEPT ![t] = next]
        BY <4>1 DEF Goto
      <4> HIDE DEF next
      <4>4. tasks'[t] = next
        BY <4>3 DEF TypeOK
      <4>5. ~Changing(t)'
        BY <4>2, <4>4 DEF Changing, At
      <4>6. store'[id] = store[id] \/ id = tasks[t].member
        BY <4>1 DEF TypeOK
      <4> QED
        BY <3>2, <4>5, <4>6
    <3> QED
      BY <1>7, <3>1, <3>2
  <2>3. CASE tasks[t].member # id
    <3>1. ~Auditing(t, id)
      BY <2>1, <2>3 DEF Auditing, At
    <3> QED
      BY <1>3, <2>2, <2>3, <3>1
  <2>4. CASE tasks[t].member = id
    <3>1. \A o \in Task : Changing(o)' => o # t /\ tasks'[o] = tasks[o] /\ tasks[o] # None
      BY <1>1, <2>2 DEF Changing, At
    <3>2. ASSUME NEW o \in Task, Changing(o)', tasks'[o].id = id PROVE FALSE
      BY <2>1, <2>4, <3>1, <3>2 DEF StartsAlone
    <3>3. ASSUME Present(id)', store'[id].stamp # None
          PROVE  <<id, store'[id].stamp.mode>> \in audited'
      <4>1. CASE StartAudited(t)
        <5>1. store' = store /\ <<id, tasks[t].mode>> \in audited'
          BY <2>4, <4>1 DEF StartAudited
        <5>2. store'[id].stamp.mode = tasks[t].mode
          BY <2>1, <2>4, <3>3, <5>1 DEF StartsAlone, Present
        <5> QED
          BY <5>1, <5>2
      <4>2. CASE StartUnaudited(t)
        BY <2>4, <3>3, <4>2 DEF StartUnaudited, RolledBack, Present, TypeOK
      <4> QED
        BY <1>7, <4>1, <4>2
    <3> QED
      BY <3>2, <3>3 DEF ModeInHand, Changing
  <2> QED
    BY <2>3, <2>4
<1>8. CASE RestoreCookie(t) \/ Restore(t) \/ Refused(t)
  <2>1. tasks'[t] = None
    BY <1>8 DEF RestoreCookie, Restore, Refused, Done, TypeOK
  <2>2. ~Changing(t)'
    BY <2>1 DEF Changing, At
  <2>3. ~At(t, "mode audit") /\ ~Created(t)
    BY <1>8 DEF RestoreCookie, Restore, Refused, Created, At
  <2>4. store'[id] \in {store[id], None}
    BY <1>8, WritesRows DEF RestoreCookie, Restore, Refused, SetMode, ModeUnaudited, At
  <2> QED
    BY <1>3, <2>2, <2>3, <2>4 DEF Auditing
<1>9. CASE ReadActor(t)
  <2>1. /\ At(t, "change") /\ Goto(t, "mode") /\ UNCHANGED <<store, audited>>
    BY <1>9 DEF ReadActor
  <2> DEFINE next == [tasks[t] EXCEPT !.pc = "mode"]
  <2>2. next.pc = "mode" /\ next.id = tasks[t].id /\ next.row = tasks[t].row
    BY <1>1 DEF Work
  <2>3. tasks' = [tasks EXCEPT ![t] = next]
    BY <2>1 DEF Goto
  <2> HIDE DEF next
  <2>4. tasks'[t] = next
    BY <2>3 DEF TypeOK
  <2>5. /\ Changing(t) /\ ~At(t, "mode audit") /\ ~At(t, "mode audit")'
        /\ tasks'[t].id = tasks[t].id /\ tasks'[t].row = tasks[t].row
    BY <2>1, <2>2, <2>4 DEF Changing, At
  <2>6. \A o \in Task :
           \/ tasks'[o] = tasks[o]
           \/ /\ Changing(o) /\ ~At(o, "mode audit") /\ ~At(o, "mode audit")'
              /\ tasks'[o].id = tasks[o].id /\ tasks'[o].row = tasks[o].row
    BY <1>1, <2>5
  <2>7. store'[id] \in {store[id], None} /\ audited \subseteq audited'
    BY <2>1
  <2> QED
    BY <2>6, <2>7, ModesUntouched
<1>5. CASE EndAudited(t) \/ RemoveMember(t)
  <2>1. tasks'[t] = None \/ tasks'[t].pc \in {"remove", "restore"}
    <3>1. PICK pc \in {"remove", "restore"} : Goto(t, pc)
      BY <1>5 DEF EndAudited, RemoveMember
    <3>2. tasks' = [tasks EXCEPT ![t] = [tasks[t] EXCEPT !.pc = pc]]
      BY <3>1 DEF Goto
    <3>3. [tasks[t] EXCEPT !.pc = pc].pc = pc
      BY <1>1 DEF Work
    <3>4. tasks'[t] = [tasks[t] EXCEPT !.pc = pc]
      BY <3>2 DEF TypeOK
    <3> QED
      BY <3>3, <3>4
  <2>2. ~Changing(t)'
    BY <2>1 DEF Changing, At
  <2>3. ~Auditing(t, id)
    BY <1>5 DEF EndAudited, RemoveMember, Auditing, Created, At
  <2>4. store'[id] \in {store[id], None}
    BY <1>5, WritesRows DEF EndAudited, RemoveMember, SetMode, ModeUnaudited, At
  <2> QED
    BY <1>3, <2>2, <2>3, <2>4
<1>6. CASE SetMode(t)
  <2>1. /\ At(t, "mode") /\ Changing(t) /\ audited' = audited /\ Goto(t, "mode audit")
    BY <1>6 DEF SetMode, Changing
  <2>2. /\ tasks'[t].id = tasks[t].id /\ tasks'[t].row = tasks[t].row
        /\ tasks'[t].mode = tasks[t].mode /\ tasks'[t].pc = "mode audit" /\ tasks'[t] # None
    <3> DEFINE next == [tasks[t] EXCEPT !.pc = "mode audit"]
    <3>2. tasks' = [tasks EXCEPT ![t] = next]
      BY <2>1 DEF Goto
    <3>3. next \in Work
      BY <1>1 DEF Work
    <3>4. /\ next.id = tasks[t].id /\ next.row = tasks[t].row /\ next.mode = tasks[t].mode
          /\ next.pc = "mode audit"
      BY <1>1 DEF Work
    <3>5. next # None
      BY <3>3, ImpersonationAssumption
    <3> HIDE DEF next
    <3>6. tasks'[t] = next
      BY <3>2 DEF TypeOK
    <3> QED
      BY <3>4, <3>5, <3>6
  <2>3. \A o \in Task : Changing(o)' =>
           /\ Changing(o) /\ tasks'[o].id = tasks[o].id /\ tasks'[o].row = tasks[o].row
           /\ o # t => tasks'[o] = tasks[o]
    BY <1>1, <2>1, <2>2 DEF Changing, At
  <2>4. \A x, o \in Task :
           Changing(x)' /\ Changing(o)' /\ tasks'[x].id = id /\ tasks'[o].id = id => x = o
    BY <2>3 DEF ModeInHand
  <2>5. \A o \in Task : Changing(o)' /\ tasks'[o].id = id =>
           <<id, tasks'[o].row.stamp.mode>> \in audited'
    BY <2>1, <2>3 DEF ModeInHand
  <2>6. CASE tasks[t].id = id
    <3>1. store'[id] = InMode(tasks[t].row, tasks[t].mode) /\ tasks[t].mode \in Mode
      BY <1>6, <2>6, ModeWritten
    <3>2. KeepsStamp /\ tasks[t].row.stamp # None /\ tasks[t].row \in Row
      BY <2>1, ChangingIsMember
    <3>3. store'[id].stamp.mode = tasks[t].mode
      BY <3>1, <3>2, InModeIsRow
    <3>4. \A o \in Task : At(o, "mode audit")' /\ tasks'[o].id = id => o = t
      BY <2>1, <2>3, <2>6 DEF ModeInHand, Changing
    <3>5. Auditing(t, id)'
      BY <2>2, <2>6 DEF At, Auditing
    <3> QED
      BY <2>2, <2>4, <2>5, <3>3, <3>4, <3>5 DEF ModeInHand
  <2>7. CASE tasks[t].id # id
    <3>1. store'[id] \in {store[id], None}
      BY <2>7, WritesRows
    <3>2. Present(id)' => Present(id) /\ store'[id] = store[id]
      BY <3>1 DEF Present
    <3>3. \A o \in Task : At(o, "mode audit")' /\ tasks'[o].id = id /\ Present(id)' =>
             store'[id].stamp.mode = tasks'[o].mode
      BY <2>2, <2>3, <2>7, <3>2 DEF ModeInHand, Changing, At
    <3>4. ASSUME Present(id)', store'[id].stamp # None
          PROVE  <<id, store'[id].stamp.mode>> \in audited' \/ \E o \in Task : Auditing(o, id)'
      <4>1. ASSUME NEW o \in Task, Auditing(o, id) PROVE Auditing(o, id)'
        <5>1. o # t
          BY <2>1, <2>7, <4>1 DEF Auditing, Created, At
        <5> QED
          BY <1>1, <4>1, <5>1 DEF Auditing, Created, At
      <4> QED
        BY <1>2, <3>2, <3>4, <4>1 DEF ModeInHand
    <3> QED
      BY <2>4, <2>5, <3>3, <3>4 DEF ModeInHand
  <2> QED
    BY <2>6, <2>7
<1> QED
  BY <1>4, <1>5, <1>6, <1>7, <1>8, <1>9 DEF Writes

LEMMA ModesNext ==
    TypeOK /\ StampsAreKept /\ StartsAlone /\ ModesInHand /\ [Next]_vars => ModesInHand'
<1> SUFFICES ASSUME TypeOK, StampsAreKept, StartsAlone, ModesInHand, [Next]_vars,
                    NEW id \in SessionId, id \notin overlapped'
             PROVE  ModeInHand(id)'
  BY DEF ModesInHand
<1>1. ASSUME NEW t \in Task, NEW b \in Browser, NEW mode \in Mode, ChangeMode(t, b, mode)
      PROVE  ModeInHand(id)'
  BY <1>1, ModesOnChange
<1>2. ASSUME overlapped' = overlapped PROVE ModeInHand(id)
  BY <1>2 DEF ModesInHand
<1>3. ASSUME NEW t \in Task, NEW b \in Browser, NEW pc \in {"start", "end"}, Loads(t, b, pc)
      PROVE  ModeInHand(id)'
  <2>1. /\ tasks[t] = None /\ tasks'[t].pc = pc /\ UNCHANGED <<store, audited>>
        /\ \A o \in Task : o # t => tasks'[o] = tasks[o]
    BY <1>3, LoadsRead
  <2>2. UNCHANGED overlapped
    BY <1>3 DEF Loads, Start, End
  <2>3. \A o \in Task : \/ tasks'[o] = tasks[o]
                        \/ ~Changing(o)' /\ ~Auditing(o, id)
    BY <2>1 DEF Changing, Auditing, Created, At
  <2> QED
    BY <1>2, <2>1, <2>2, <2>3, ModesUntouched
<1>4. ASSUME NEW t \in Task, ReadPrevious(t) PROVE ModeInHand(id)'
  <2>1. /\ tasks'[t].pc = "create"
        /\ \A o \in Task : o # t => tasks'[o] = tasks[o]
    BY <1>4, PreviousRead
  <2>2. UNCHANGED <<store, audited, overlapped>> /\ At(t, "start")
    BY <1>4 DEF ReadPrevious
  <2>3. \A o \in Task : \/ tasks'[o] = tasks[o]
                        \/ ~Changing(o)' /\ ~Auditing(o, id)
    BY <2>1, <2>2 DEF Changing, Auditing, Created, At
  <2> QED
    BY <1>2, <2>2, <2>3, ModesUntouched
<1>5. ASSUME NEW t \in Task, NEW s \in SessionId, CreateMember(t, s) PROVE ModeInHand(id)'
  <2>1. UNCHANGED overlapped
    BY <1>5 DEF CreateMember
  <2> QED
    BY <1>2, <1>5, <2>1, ModesOnCreate
<1>6. ASSUME NEW t \in Task, Writes(t) PROVE ModeInHand(id)'
  <2>1. UNCHANGED overlapped
    BY <1>6 DEF Writes, StartAudited, StartUnaudited, RestoreCookie, ReadActor, SetMode,
                ModeAudited, ModeUnaudited, EndAudited, RemoveMember, Restore, Refused
  <2> QED
    BY <1>2, <1>6, <2>1, ModesOnWrite
<1>9. ASSUME NEW t \in Task, WriteBack(t) PROVE ModeInHand(id)'
  BY <1>2, <1>9, PreviousWritten, ModesOnWriteBack
<1>7. CASE (\E s \in SessionId : RemoveSession(s)) \/ Tick \/ UNCHANGED vars
  <2>1. UNCHANGED <<tasks, audited, overlapped>>
    BY <1>7 DEF RemoveSession, Tick, vars
  <2>2. store'[id] \in {store[id], None}
    BY <1>7 DEF RemoveSession, Tick, vars, TypeOK
  <2> QED
    BY <1>2, <2>1, <2>2, ModesUntouched
<1>8. ASSUME NEW t \in Task, NEW b \in Browser, NEW pc \in {"start", "change", "end"},
             Loads(t, b, pc)
      PROVE  ModeInHand(id)'
  BY <1>1, <1>3, <1>8 DEF Loads
<1> QED
  BY <1>4, <1>5, <1>6, <1>7, <1>8, <1>9, StepKinds

-------------------------------------------------------------------------------
(* The theorems.                                                              *)

LEMMA InitInv == Init => IInv
<1> SUFFICES ASSUME Init PROVE IInv
  OBVIOUS
<1>1. TypeOK
  BY TypeInit
<1>2. started = {} /\ audited = {} /\ \A t \in Task : tasks[t] = None
  BY DEF Init
<1>3. PICK expiry \in 1 .. MaxTime :
          store = [id \in SessionId |->
              IF \E b \in Browser : cookie[b] = id
              THEN [user |-> BrowserUser[CHOOSE b \in Browser : cookie[b] = id],
                    expiresAt |-> expiry, stamp |-> None]
              ELSE None]
  BY DEF Init
<1>4. ASSUME NEW id \in SessionId, NEW row \in Row, IsRow(id, row)
      PROVE  /\ \E b \in Browser : cookie[b] = id
             /\ row.expiresAt = expiry /\ row.stamp = None
             /\ row.user = BrowserUser[CHOOSE b \in Browser : cookie[b] = id]
  <2>1. row = store[id] /\ store[id] # None
    BY <1>2, <1>4 DEF IsRow, Present
  <2>2. \E b \in Browser : cookie[b] = id
    BY <1>3, <2>1
  <2>3. row = [user |-> BrowserUser[CHOOSE b \in Browser : cookie[b] = id],
               expiresAt |-> expiry, stamp |-> None]
    BY <1>3, <2>1, <2>2
  <2> QED
    BY <2>2, <2>3
<1>5. StampsAreKept
  <2>1. Members = {}
    BY <1>2 DEF Members
  <2>2. NeverNested
    BY <1>2 DEF NeverNested
  <2> QED
    BY <1>2, <1>4, <2>1, <2>2 DEF StampsAreKept
<1>6. HasOnePerson
  <2> DEFINE person == [id \in SessionId |-> IF \E b \in Browser : cookie[b] = id
                            THEN BrowserUser[CHOOSE b \in Browser : cookie[b] = id] ELSE None]
  <2>1. ASSUME NEW b \in Browser
        PROVE  cookie[b] \in SessionId /\ (CHOOSE c \in Browser : cookie[c] = cookie[b]) = b
    <3>1. (CHOOSE c \in Browser : cookie[c] = cookie[b]) \in Browser
      OBVIOUS
    <3>2. cookie[CHOOSE c \in Browser : cookie[c] = cookie[b]] = cookie[b]
      OBVIOUS
    <3> QED
      BY <3>1, <3>2 DEF Init
  <2>2. \A b \in Browser : person[cookie[b]] = BrowserUser[b]
    BY <2>1
  <2>3. person \in [SessionId -> User \cup {None}]
    <3>1. ASSUME NEW id \in SessionId, \E b \in Browser : cookie[b] = id
          PROVE  BrowserUser[CHOOSE b \in Browser : cookie[b] = id] \in User
      <4>1. (CHOOSE b \in Browser : cookie[b] = id) \in Browser
        BY <3>1
      <4> QED
        BY <4>1, ImpersonationAssumption
    <3> QED
      BY <3>1
  <2>4. \A id \in SessionId, row \in Row : IsRow(id, row) =>
           /\ Person(row) = person[id]
           /\ row.stamp # None => person[row.stamp.returnTo] = person[id]
    BY <1>4 DEF Person
  <2> HIDE DEF person
  <2>5. IsPersonOf(person)
    BY <1>2, <2>2, <2>4 DEF IsPersonOf
  <2> QED
    BY <2>3, <2>5 DEF HasOnePerson
<1>7. HasOneExpiry
  <2> DEFINE same == [id \in SessionId |-> expiry]
  <2>1. expiry \in 0 .. MaxTime + Duration
    BY ImpersonationAssumption
  <2>2. same \in [SessionId -> 0 .. MaxTime + Duration]
    BY <2>1
  <2>3. \A id \in SessionId, row \in Row : IsRow(id, row) => row.expiresAt = same[id]
    BY <1>4
  <2> HIDE DEF same
  <2>4. IsExpiryOf(same)
    BY <1>2, <2>3 DEF IsExpiryOf
  <2> QED
    BY <2>2, <2>4 DEF HasOneExpiry
<1>8. SpanIsCallers /\ StartsAlone
  BY <1>2 DEF SpanIsCallers, StartsAlone, Created, At
<1>9. ModesInHand
  <2> SUFFICES ASSUME NEW id \in SessionId PROVE ModeInHand(id)
    BY DEF ModesInHand
  <2>1. ASSUME Present(id) PROVE store[id].stamp = None
    <3>1. store[id] \in Row
      BY <1>1, <2>1 DEF TypeOK, Present
    <3>2. IsRow(id, store[id])
      BY <2>1 DEF IsRow
    <3> QED
      BY <1>4, <3>1, <3>2
  <2> QED
    BY <1>2, <2>1 DEF ModeInHand, Changing, At
<1> QED
  BY <1>1, <1>5, <1>6, <1>7, <1>8, <1>9 DEF IInv

LEMMA NextInv == IInv /\ [Next]_vars => IInv'
<1> SUFFICES ASSUME IInv, [Next]_vars PROVE IInv'
  OBVIOUS
<1>1. /\ TypeOK /\ StampsAreKept /\ (KeepsStamp => HasOnePerson) /\ HasOneExpiry
      /\ SpanIsCallers /\ StartsAlone /\ ModesInHand
  BY DEF IInv
<1>2. TypeOK'
  BY <1>1, TypeNext
<1>3. StampsAreKept'
  BY <1>1, StampsNext
<1>4. KeepsStamp => HasOnePerson'
  BY <1>1, PersonNext
<1>5. HasOneExpiry' /\ SpanIsCallers'
  BY <1>1, ExpiryNext, SpanNext
<1>6. StartsAlone' /\ ModesInHand'
  BY <1>1, StartsNext, ModesNext
<1> QED
  BY <1>2, <1>3, <1>4, <1>5, <1>6 DEF IInv

\* The rows of a session, stored or in the hands of requests, agree on whose doing they are
\* and when they end, and every mode is audited or about to be.
THEOREM Invariant == Spec => []IInv
<1>1. Init => IInv
  BY InitInv
<1>2. IInv /\ [Next]_vars => IInv'
  BY NextInv
<1> QED
  BY <1>1, <1>2, PTL DEF Spec

\* Rows, cookies and requests of session/impersonation.ts stay of their types.
THEOREM TypeCorrect == Spec => []TypeOK
<1>1. IInv => TypeOK
  BY DEF IInv
<1> QED
  BY <1>1, Invariant, PTL

\* Where the store keeps the stamp, startImpersonation never starts a member view from a
\* member view, however requests interleave between its check and its write.
THEOREM NestingIsRefused ==
    ASSUME KeepsStamp
    PROVE  Spec => []NeverNested
<1>1. IInv => NeverNested
  BY DEF IInv, StampsAreKept
<1> QED
  BY <1>1, Invariant, PTL

\* Where the store keeps the stamp, whoever holds a session of someone else holds one
\* stamped with their own name: no start, change of mode or end, and no rewriting of a row
\* read earlier, hands a browser an unmarked view of another user.
THEOREM ActorsAreMarked ==
    ASSUME KeepsStamp
    PROVE  Spec => []ViewsAreMarked
<1>1. IInv => ViewsAreMarked
  <2> SUFFICES ASSUME IInv PROVE ViewsAreMarked
    OBVIOUS
  <2>1. TypeOK /\ HasOnePerson
    BY DEF IInv
  <2>2. PICK person \in [SessionId -> User \cup {None}] : IsPersonOf(person)
    BY <2>1 DEF HasOnePerson
  <2>3. ASSUME NEW b \in Browser, Present(cookie[b]), store[cookie[b]].user # BrowserUser[b]
        PROVE  /\ store[cookie[b]].stamp # None
               /\ store[cookie[b]].stamp.actor = BrowserUser[b]
    <3>1. cookie[b] \in SessionId /\ cookie[b] # None /\ store[cookie[b]] \in Row
      BY <2>1, <2>3 DEF TypeOK, Present
    <3>2. IsRow(cookie[b], store[cookie[b]])
      BY <2>3 DEF IsRow
    <3>3. Person(store[cookie[b]]) = BrowserUser[b]
      BY <2>2, <3>1, <3>2 DEF IsPersonOf
    <3> QED
      BY <2>3, <3>3 DEF Person
  <2> QED
    BY <2>1, <2>3 DEF ViewsAreMarked, ActingIsMarked
<1> QED
  BY <1>1, Invariant, PTL

\* A member view ends no later than the session it was started from, but for the time its
\* start spent awaiting the store, although changes of mode rewrite its row.
THEOREM ViewsEndWithActor == Spec => []NeverOutlivesActor
<1>1. IInv => NeverOutlivesActor
  <2> SUFFICES ASSUME IInv, NEW p \in started, Present(p[1]), Present(p[2])
               PROVE  store[p[1]].expiresAt <= store[p[2]].expiresAt + p[3]
    BY DEF NeverOutlivesActor
  <2>1. TypeOK /\ HasOneExpiry
    BY DEF IInv
  <2>2. PICK expiry \in [SessionId -> 0 .. MaxTime + Duration] : IsExpiryOf(expiry)
    BY <2>1 DEF HasOneExpiry
  <2>3. ASSUME NEW id \in SessionId, Present(id) PROVE store[id].expiresAt = expiry[id]
    <3>1. store[id] \in Row
      BY <2>1, <2>3 DEF TypeOK, Present
    <3>2. IsRow(id, store[id])
      BY <2>3 DEF IsRow
    <3> QED
      BY <2>2, <3>1, <3>2 DEF IsExpiryOf
  <2>4. p[1] \in SessionId /\ p[2] \in SessionId
    BY <2>1 DEF TypeOK
  <2>5. expiry[p[1]] <= expiry[p[2]] + p[3]
    BY <2>2 DEF IsExpiryOf
  <2> QED
    BY <2>3, <2>4, <2>5
<1> QED
  BY <1>1, Invariant, PTL

\* A member view no request works on is in an audited mode, whichever of the audits of
\* starts and changes of mode failed, unless two changes of its mode overlapped.
THEOREM ModesStayAudited == Spec => []ModesAreAudited
<1>1. IInv => ModesAreAudited
  <2> SUFFICES ASSUME IInv, NEW id \in SessionId \ overlapped, Present(id),
                      store[id].stamp # None,
                      \A t \in Task : tasks[t] # None => id \notin {tasks[t].id, tasks[t].member}
               PROVE  <<id, store[id].stamp.mode>> \in audited
    BY DEF ModesAreAudited
  <2>1. ModeInHand(id)
    BY DEF IInv, ModesInHand
  <2> QED
    BY <2>1 DEF ModeInHand, Auditing, Created, At
<1> QED
  BY <1>1, Invariant, PTL

===============================================================================

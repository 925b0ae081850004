-------------------------------- MODULE Lockout -------------------------------
(***************************************************************************)
(* The lockout guard of one login key over its three stores: "memory"      *)
(* updates its map in one step, "rows" (Postgres) and "redis" read the     *)
(* record and write it back, redis with a time to live.  The login that    *)
(* asks the guard is an attempt: checked, then verified, then recorded.    *)
(* Times are ticks of a clock; the guard compares them and nothing else.   *)
(***************************************************************************)
EXTENDS Naturals

CONSTANTS
    Attempt,        \* slots for login requests in flight together
    None,
    MaxAttempts,    \* maxAttempts
    WindowTicks,    \* windowMs
    LockoutTicks,   \* lockoutMs
    MaxNow          \* bound on the clock

VARIABLES
    lockStore,  \* configuration
    now,        \* Date.now()
    record,     \* the record of the key, None when absent
    attempts,   \* login requests past the check
    streak,     \* history: failures recorded in this window, and when it was last locked
    lapped      \* history: two attempts were between check and record together

vars == <<lockStore, now, record, attempts, streak, lapped>>

Stores == {"memory", "rows", "redis"}
Times == 0 .. MaxNow + WindowTicks + LockoutTicks
\* The guard compares a count with maxAttempts only: larger ones are alike.
Counts == 0 .. MaxAttempts + 1
OneMore(n) == IF n > MaxAttempts THEN n ELSE n + 1
Records == [failedAttempts : Counts, windowStartedAt : Times, lockedUntil : Times,
            ttl : Times]
Attempts == [pc : {"verify", "count", "lock", "stamp"}, seen : Records \cup {None}, at : Times]

TypeOK ==
    /\ lockStore \in Stores /\ now \in 0 .. MaxNow
    /\ record \in Records \cup {None}
    /\ attempts \in [Attempt -> Attempts \cup {None}]
    /\ streak \in [count : Counts, since : Times \cup {None}, lockedAt : Times]
    /\ lapped \in BOOLEAN

Init ==
    /\ lockStore \in Stores /\ now = 0 /\ record = None
    /\ attempts = [a \in Attempt |-> None]
    /\ streak = [count |-> 0, since |-> None, lockedAt |-> 0] /\ lapped = FALSE

\* get: redis drops a record at its time to live.
Get == IF record # None /\ lockStore = "redis" /\ record.ttl < now THEN None ELSE record
\* check: lockedUntil is in the future.
Locked == Get # None /\ Get.lockedUntil > now

\* increment: a record of the current window counts on and keeps its lock, any other is
\* replaced.
IncrementedAlone(row, at) ==                            \* defect: the record never counts on
    [failedAttempts |-> 1, windowStartedAt |-> at, lockedUntil |-> 0, ttl |-> at + WindowTicks]
Incremented(row, at) ==
    IF row # None /\ at - row.windowStartedAt <= WindowTicks
    THEN [row EXCEPT !.failedAttempts = OneMore(@), !.ttl = at + WindowTicks]
    ELSE [failedAttempts |-> 1, windowStartedAt |-> at, lockedUntil |-> 0,
          ttl |-> at + WindowTicks]
\* lock: sets lockedUntil on the record, or on a fresh one when there is none.
LockedRow(row, at) ==
    LET base == IF row # None THEN row
                ELSE [failedAttempts |-> 0, windowStartedAt |-> at, lockedUntil |-> 0, ttl |-> 0]
    IN [base EXCEPT !.lockedUntil = at + LockoutTicks, !.ttl = at + LockoutTicks]

At(a, pc) == attempts[a] # None /\ attempts[a].pc = pc
Goes(a, pc, seen) == attempts' = [attempts EXCEPT ![a] = [pc |-> pc, seen |-> seen, at |-> now]]
Ends(a) == attempts' = [attempts EXCEPT ![a] = None]

\* A login request passes the check and looks at the password.
Check(a) ==
    /\ attempts[a] = None /\ ~Locked
    /\ Goes(a, "verify", None)
    /\ lapped' = (lapped \/ \E b \in Attempt : attempts[b] # None)
    /\ UNCHANGED <<lockStore, now, record, streak>>

\* recordSuccess deletes the record.
Succeeds(a) ==
    /\ At(a, "verify")
    /\ record' = None /\ streak' = [streak EXCEPT !.count = 0, !.since = None] /\ Ends(a)
    /\ UNCHANGED <<lockStore, now, lapped>>

\* The history of a failure recorded with the count the store answered.
Counted(at) ==
    streak' = IF streak.since # None /\ at - streak.since <= WindowTicks
              THEN [streak EXCEPT !.count = OneMore(@)]
              ELSE [streak EXCEPT !.count = 1, !.since = at]

\* recordFailure goes on to lock when the answer reaches maxAttempts.
Answered(a, row, at) ==
    /\ record' = row /\ Counted(at)
    /\ IF row.failedAttempts >= MaxAttempts THEN Goes(a, "lock", None) ELSE Ends(a)

\* recordFailure, increment: one step in memory, a read and a write otherwise.
Fails(a) ==
    /\ At(a, "verify")
    /\ IF lockStore = "memory"
       THEN Answered(a, Incremented(record, now), now)
       ELSE Goes(a, "count", Get) /\ UNCHANGED <<record, streak>>
    /\ UNCHANGED <<lockStore, now, lapped>>

SaveCount(a) ==
    /\ At(a, "count")
    /\ Answered(a, Incremented(attempts[a].seen, attempts[a].at), attempts[a].at)
    /\ UNCHANGED <<lockStore, now, lapped>>

\* The history of a lock; one without a record to set it on begins a window.
Stamped(row, at) ==
    streak' = [streak EXCEPT !.lockedAt = at, !.since = IF row = None THEN at ELSE @]

\* recordFailure, lock: the same.
Lock(a) ==
    /\ At(a, "lock")
    /\ IF lockStore = "memory"
       THEN /\ record' = LockedRow(record, now) /\ Ends(a)
            /\ Stamped(record, now)
       ELSE Goes(a, "stamp", Get) /\ UNCHANGED <<record, streak>>
    /\ UNCHANGED <<lockStore, now, lapped>>

SaveLock(a) ==
    /\ At(a, "stamp")
    /\ record' = LockedRow(attempts[a].seen, attempts[a].at)
    /\ Stamped(attempts[a].seen, attempts[a].at) /\ Ends(a)
    /\ UNCHANGED <<lockStore, now, lapped>>

\* The process dies: its requests end where they are; the map of "memory" goes, too.
Crash ==
    /\ lockStore # "memory" /\ \E a \in Attempt : attempts[a] # None
    /\ attempts' = [a \in Attempt |-> None]
    /\ streak' = [streak EXCEPT !.count = 0]
    /\ UNCHANGED <<lockStore, now, record, lapped>>

Tick == now < MaxNow /\ now' = now + 1 /\ UNCHANGED <<lockStore, record, attempts, streak, lapped>>

Next ==
    \/ \E a \in Attempt : \/ Check(a) \/ Succeeds(a) \/ Fails(a) \/ SaveCount(a)
                          \/ Lock(a) \/ SaveLock(a)
    \/ Crash \/ Tick

Spec == Init /\ [][Next]_vars

-----------------------------------------------------------------------------
Recording(a) == attempts[a] # None /\ attempts[a].pc # "verify"
\* As many failures in one window as the policy allows lock the key for the whole
\* lockout, once the request that counted the last one has finished.  Only stores that
\* read and write back lose count or lock, and only when attempts overlapped.
FailuresLock ==
    streak.count >= MaxAttempts /\ (\A a \in Attempt : ~Recording(a))
        /\ now < streak.lockedAt + LockoutTicks
    => Locked \/ (lockStore # "memory" /\ lapped)
=============================================================================

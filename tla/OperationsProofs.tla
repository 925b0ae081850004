--------------------------- MODULE OperationsProofs ---------------------------
(*****************************************************************************)
(* Proofs about the deliveries to other systems and about the migrations,    *)
(* for every number of receivers, notices, retries and faults, and for every *)
(* number of processes, blocks, migrations and crashes.                      *)
(*****************************************************************************)
EXTENDS MCOperations, TLAPS

(* Deliveries.                                                                *)

\* A dead letter, and one the operator holds, is that of a delivery that was given up; notices
\* that were not sent have no deliveries; an attempt is left to a delivery that tries or sleeps.
LettersAreGivenUp ==
    \A l \in deadLetters \cup ({replaying} \ {None}) : jobs[l.notice][l.receiver].pc = "given up"
NoticesInOrder ==
    \A n \in Deliveries!Notice : n >= nextNotice => \A c \in Receiver : jobs[n][c] = Deliveries!NoJob
AttemptsLeft ==
    \A n \in Deliveries!Notice, c \in Receiver :
        jobs[n][c].pc \in {"try", "sleep"} => jobs[n][c].attempt < Deliveries!Attempts

DeliveriesInv ==
    /\ Deliveries!TypeOK
    /\ LettersAreGivenUp
    /\ NoticesInOrder
    /\ AttemptsLeft
    /\ Deliveries!FailuresRecorded

(* Migrations.                                                                *)

Busy(r) == pc[r] \in {"journal", "visit", "insert"}
Visiting(r) == pc[r] \in {"visit", "insert"}

\* What a process would find run had it committed.
RanFor(r) == ran \cup pending[r].ran

\* The journal names only what was run, after the earlier migrations of its block, with what
\* a process has not committed yet as without it.
Whole(r) ==
    \A m \in Migrations!Sees(r) : \A n \in 1 .. m[2] :
        <<m[1], n>> \in RanFor(r) \cap Migrations!Sees(r)

\* A Bun runner that is busy holds the lock, and only its transaction waits for a commit; what
\* waits is what was run, but for the migration that is due for the journal.
HoldsTheLock(r) ==
    /\ mode = "bun" /\ Busy(r) => lock = r
    /\ ~Busy(r) \/ mode = "pool" => pending[r] = Migrations!Nothing
    /\ mode = "bun" =>
          pending[r].ran = pending[r].journaled \cup
              (IF pc[r] = "insert" THEN {Migrations!Item(todo[r])} ELSE {})

KeepsItsPlace(r) ==
    /\ Visiting(r) => Migrations!IsPlace(todo[r])
    /\ pc[r] = "insert" => ~Migrations!Over(todo[r])

\* Where a process has come to in a block, the earlier migrations of the block are done, and the
\* one that it is about to journal was run.
EarlierAreDone(r) ==
    Visiting(r) /\ ~Migrations!Over(todo[r]) =>
        LET item == Migrations!Item(todo[r]) IN
        /\ \A n \in 1 .. item[2] - 1 : <<item[1], n>> \in RanFor(r) \cap Migrations!Sees(r)
        /\ pc[r] = "insert" => item \in RanFor(r)

\* What lies ahead of a place, the migration there included.
Ahead(p, m) ==
    \E i \in DOMAIN p.blocks : i >= p.at /\ m[1] = p.blocks[i] /\ (i = p.at => m[2] >= p.next)

\* What was read stays in the journal, and under the lock the journal stays as it was read, but
\* for the migrations that lie behind.
JournalAsRead(r) ==
    Visiting(r) =>
        /\ applied[r] \subseteq Migrations!Sees(r)
        /\ mode = "bun" => \A m \in Migrations!Sees(r) : Ahead(todo[r], m) => m \in applied[r]
        /\ pc[r] = "insert" => Migrations!Item(todo[r]) \notin applied[r]

ProcessInv(r) ==
    /\ HoldsTheLock(r)
    /\ KeepsItsPlace(r)
    /\ Whole(r)
    /\ EarlierAreDone(r)
    /\ JournalAsRead(r)
    /\ mode = "bun" => pc[r] # "failed"

MigrationsInv ==
    /\ Migrations!TypeOK
    /\ Migrations!JournaledWasRun
    /\ \A r \in Runner : ProcessInv(r)

\* A behaviour is one of one of the two modules.
OperationsInv ==
    /\ part \in {"deliveries", "migrations"}
    /\ part = "deliveries" => DeliveriesInv
    /\ part = "migrations" => MigrationsInv

-------------------------------------------------------------------------------
(* Deliveries.                                                                *)

LEMMA AttemptsAreBounded ==
    ASSUME Deliveries!TypeOK
    PROVE  Deliveries!Attempts \in 1 .. RetryAttempts
BY OperationsAssumption DEF Deliveries!TypeOK, Deliveries!Attempts

LEMMA DeliveriesInit == Deliveries!Init => DeliveriesInv
<1> SUFFICES ASSUME Deliveries!Init PROVE DeliveriesInv
  OBVIOUS
<1>1. Deliveries!TypeOK
  BY OperationsAssumption
  DEF Deliveries!Init, Deliveries!TypeOK, Deliveries!Notice, Deliveries!Job, Deliveries!NoJob
<1>2. \A n \in Deliveries!Notice, c \in Receiver : jobs[n][c] = Deliveries!NoJob
  BY DEF Deliveries!Init
<1>3. LettersAreGivenUp
  BY DEF Deliveries!Init, LettersAreGivenUp
<1>4. NoticesInOrder
  BY <1>2 DEF NoticesInOrder
<1>5. \A n \in Deliveries!Notice, c \in Receiver : jobs[n][c].pc = "none"
  BY <1>2 DEF Deliveries!NoJob
<1>6. AttemptsLeft /\ Deliveries!FailuresRecorded
  BY <1>5 DEF AttemptsLeft, Deliveries!FailuresRecorded, Deliveries!GivenUp
<1> QED
  BY <1>1, <1>3, <1>4, <1>6 DEF DeliveriesInv

\* One delivery goes on, and all others stay as they are.
OneMoves(n, c) ==
    /\ n \in Deliveries!Notice /\ c \in Receiver
    /\ jobs' \in [Deliveries!Notice -> [Receiver -> Deliveries!Job]]
    /\ jobs[n][c].pc \in {"try", "sleep", "hook", "record"}
    /\ \A m \in Deliveries!Notice, d \in Receiver : <<m, d>> # <<n, c>> => jobs'[m][d] = jobs[m][d]
    /\ jobs'[n][c].pc # "none"
    /\ jobs'[n][c].pc \in {"try", "sleep"} => jobs'[n][c].attempt < Deliveries!Attempts

\* A step of a delivery moves it alone, keeps the operator out of it, and gives it up only with
\* a letter in the store, and drops it only when its hook or store call throws, or a letter
\* of its key is there.
LEMMA StepMoves ==
    ASSUME DeliveriesInv, NEW n \in Deliveries!Notice, NEW c \in Receiver, Deliveries!Step(n, c)
    PROVE  /\ OneMoves(n, c)
           /\ UNCHANGED <<channel, dlqStore, nextNotice, replaying, handled>>
           /\ faults' \in 0 .. MaxFaults /\ thrown \subseteq thrown'
           /\ thrown' \subseteq thrown \cup {[notice |-> n, receiver |-> c]}
           /\ jobs'[n][c].pc = "dropped" =>
                 [notice |-> n, receiver |-> c] \in thrown' \/ Deliveries!SameKey(n, c) # {}
           /\ \/ deadLetters' = deadLetters /\ jobs'[n][c].pc # "given up"
              \/ deadLetters' = Deliveries!Recorded(n, c) /\ jobs'[n][c].pc = "given up"
<1>1. /\ jobs \in [Deliveries!Notice -> [Receiver -> Deliveries!Job]] /\ faults \in 0 .. MaxFaults
      /\ jobs[n][c] \in Deliveries!Job /\ jobs[n][c].attempt \in 0 .. RetryAttempts
      /\ MaxFaults \in Nat /\ RetryAttempts \in Nat
  <2>1. /\ jobs \in [Deliveries!Notice -> [Receiver -> Deliveries!Job]]
        /\ faults \in 0 .. MaxFaults
    BY DEF DeliveriesInv, Deliveries!TypeOK
  <2>2. jobs[n][c] \in Deliveries!Job
    BY <2>1
  <2>3. jobs[n][c].attempt \in 0 .. RetryAttempts
    BY <2>2 DEF Deliveries!Job
  <2> QED
    BY <2>1, <2>2, <2>3, OperationsAssumption
<1>2. Deliveries!Attempts \in 1 .. RetryAttempts
  BY AttemptsAreBounded DEF DeliveriesInv
<1>3. /\ jobs[n][c].pc \in {"try", "sleep"} => jobs[n][c].attempt < Deliveries!Attempts
  BY DEF DeliveriesInv, AttemptsLeft
<1> DEFINE Fates == {"none", "try", "sleep", "hook", "record", "done", "given up", "dropped"}
<1>4. ASSUME NEW fate \in Fates, Deliveries!On(n, c, fate), fate # "none",
             jobs[n][c].pc \in {"try", "sleep", "hook", "record"},
             fate \in {"try", "sleep"} => jobs[n][c].attempt < Deliveries!Attempts
      PROVE  OneMoves(n, c) /\ jobs'[n][c].pc = fate
  <2>1. [jobs[n][c] EXCEPT !.pc = fate] \in Deliveries!Job
    BY <1>1 DEF Deliveries!Job
  <2>2. jobs' = [jobs EXCEPT ![n] = [jobs[n] EXCEPT ![c] = [jobs[n][c] EXCEPT !.pc = fate]]]
    BY <1>4 DEF Deliveries!On
  <2>3. /\ jobs'[n][c] = [jobs[n][c] EXCEPT !.pc = fate]
        /\ \A m \in Deliveries!Notice, d \in Receiver :
              <<m, d>> # <<n, c>> => jobs'[m][d] = jobs[m][d]
        /\ jobs' \in [Deliveries!Notice -> [Receiver -> Deliveries!Job]]
    BY <1>1, <2>1, <2>2
  <2>4. jobs'[n][c].pc = fate /\ jobs'[n][c].attempt = jobs[n][c].attempt
    BY <1>1, <2>3 DEF Deliveries!Job
  <2> QED
    BY <1>4, <2>3, <2>4 DEF OneMoves
<1>5. CASE Deliveries!Attempt(n, c)
  <2> DEFINE attempt == jobs[n][c].attempt + 1
             fate == IF attempt < Deliveries!Attempts THEN "sleep"
                     ELSE IF channel = "webhook" THEN "hook" ELSE "record"
             failed == [pc |-> fate, attempt |-> attempt]
  <2>1. jobs[n][c].pc = "try" /\ jobs[n][c].attempt < Deliveries!Attempts
    BY <1>3, <1>5 DEF Deliveries!Attempt
  <2>2. /\ UNCHANGED <<channel, dlqStore, deadLetters, nextNotice, replaying, faults, thrown, handled>>
        /\ Deliveries!On(n, c, "done") \/ jobs' = [jobs EXCEPT ![n][c] = failed]
    BY <1>5 DEF Deliveries!Attempt, Deliveries!Retried
  <2>3. CASE Deliveries!On(n, c, "done")
    BY <1>1, <1>4, <2>1, <2>2, <2>3
  <2>4. CASE jobs' = [jobs EXCEPT ![n][c] = failed]
    <3>1. attempt \in 0 .. RetryAttempts
      BY <1>1, <1>2, <2>1
    <3>2. failed \in Deliveries!Job
      BY <3>1 DEF Deliveries!Job
    <3>3. jobs' = [jobs EXCEPT ![n] = [jobs[n] EXCEPT ![c] = failed]]
      BY <2>4
    <3> HIDE DEF failed
    <3>4. /\ jobs'[n][c] = failed
          /\ \A m \in Deliveries!Notice, d \in Receiver :
                <<m, d>> # <<n, c>> => jobs'[m][d] = jobs[m][d]
          /\ jobs' \in [Deliveries!Notice -> [Receiver -> Deliveries!Job]]
      BY <1>1, <3>2, <3>3
    <3>5. /\ failed.pc \in {"sleep", "hook", "record"}
          /\ failed.pc = "sleep" => failed.attempt < Deliveries!Attempts
      BY DEF failed
    <3>6. OneMoves(n, c)
      BY <2>1, <3>4, <3>5 DEF OneMoves
    <3> QED
      BY <1>1, <2>2, <3>4, <3>5, <3>6
  <2> QED
    BY <2>2, <2>3, <2>4
<1>6. CASE Deliveries!Sleep(n, c)
  BY <1>1, <1>3, <1>4, <1>6 DEF Deliveries!Sleep
<1>7. CASE Deliveries!CallErrorHook(n, c)
  <2>1. /\ UNCHANGED <<channel, dlqStore, deadLetters, nextNotice, replaying, handled>>
        /\ jobs[n][c].pc = "hook"
        /\ \/ Deliveries!On(n, c, "record") /\ UNCHANGED <<faults, thrown>>
           \/ Deliveries!On(n, c, "dropped") /\ Deliveries!Throws(n, c)
    BY <1>7 DEF Deliveries!CallErrorHook
  <2>2. CASE Deliveries!On(n, c, "record") /\ UNCHANGED <<faults, thrown>>
    <3>1. OneMoves(n, c) /\ jobs'[n][c].pc = "record"
      BY <1>4, <2>1, <2>2
    <3> QED
      BY <1>1, <2>1, <2>2, <3>1
  <2>3. CASE Deliveries!On(n, c, "dropped") /\ Deliveries!Throws(n, c)
    <3>1. OneMoves(n, c) /\ jobs'[n][c].pc = "dropped"
      BY <1>4, <2>1, <2>3
    <3>2. faults' \in 0 .. MaxFaults /\ thrown' = thrown \cup {[notice |-> n, receiver |-> c]}
      BY <1>1, <2>3 DEF Deliveries!Throws
    <3> QED
      BY <2>1, <3>1, <3>2
  <2> QED
    BY <2>1, <2>2, <2>3
<1>8. CASE Deliveries!RecordFailure(n, c)
  <2>1. UNCHANGED <<channel, dlqStore, nextNotice, replaying, handled>> /\ jobs[n][c].pc = "record"
    BY <1>8 DEF Deliveries!RecordFailure
  <2> DEFINE Refused ==
          \/ thrown' = thrown \cup {[notice |-> n, receiver |-> c]}
          \/ thrown' = thrown /\ Deliveries!SameKey(n, c) # {}
  <2>2. \/ /\ Deliveries!On(n, c, "dropped") /\ Refused
           /\ faults' \in 0 .. MaxFaults /\ deadLetters' = deadLetters
        \/ /\ Deliveries!On(n, c, "given up") /\ deadLetters' = Deliveries!Recorded(n, c)
           /\ UNCHANGED <<faults, thrown>>
    <3>1. Deliveries!Throws(n, c) => faults' \in 0 .. MaxFaults /\ Refused
      BY <1>1 DEF Deliveries!Throws
    <3>2. faults' = faults => faults' \in 0 .. MaxFaults
      BY <1>1
    <3> QED
      BY <1>8, <3>1, <3>2 DEF Deliveries!RecordFailure
  <2>3. ASSUME Deliveries!On(n, c, "dropped") PROVE OneMoves(n, c) /\ jobs'[n][c].pc = "dropped"
    BY <1>4, <2>1, <2>3
  <2>4. ASSUME Deliveries!On(n, c, "given up") PROVE OneMoves(n, c) /\ jobs'[n][c].pc = "given up"
    BY <1>4, <2>1, <2>4
  <2>5. CASE /\ Deliveries!On(n, c, "dropped") /\ Refused
             /\ faults' \in 0 .. MaxFaults /\ deadLetters' = deadLetters
    <3>1. OneMoves(n, c) /\ jobs'[n][c].pc = "dropped"
      BY <2>3, <2>5
    <3> QED
      BY <2>1, <2>5, <3>1
  <2>6. CASE /\ Deliveries!On(n, c, "given up") /\ deadLetters' = Deliveries!Recorded(n, c)
             /\ UNCHANGED <<faults, thrown>>
    <3>1. OneMoves(n, c) /\ jobs'[n][c].pc = "given up"
      BY <2>4, <2>6
    <3> QED
      BY <1>1, <2>1, <2>6, <3>1
  <2> QED
    BY <2>2, <2>5, <2>6
<1> QED
  BY <1>5, <1>6, <1>7, <1>8 DEF Deliveries!Step

\* What a step that moves one delivery preserves, whichever letters it leaves: no more than the
\* one recorded, and of those it drops, each has made room for that one.
LEMMA StepKeeps ==
    ASSUME DeliveriesInv, NEW n \in Deliveries!Notice, NEW c \in Receiver, Deliveries!Step(n, c)
    PROVE  DeliveriesInv'
<1>1. /\ OneMoves(n, c)
      /\ UNCHANGED <<channel, dlqStore, nextNotice, replaying, handled>>
      /\ faults' \in 0 .. MaxFaults /\ thrown \subseteq thrown'
      /\ thrown' \subseteq thrown \cup {[notice |-> n, receiver |-> c]}
      /\ jobs'[n][c].pc = "dropped" =>
            [notice |-> n, receiver |-> c] \in thrown' \/ Deliveries!SameKey(n, c) # {}
      /\ \/ deadLetters' = deadLetters /\ jobs'[n][c].pc # "given up"
         \/ deadLetters' = Deliveries!Recorded(n, c) /\ jobs'[n][c].pc = "given up"
  BY StepMoves
<1>2. /\ jobs' \in [Deliveries!Notice -> [Receiver -> Deliveries!Job]]
      /\ jobs[n][c].pc \in {"try", "sleep", "hook", "record"} /\ jobs'[n][c].pc # "none"
      /\ \A m \in Deliveries!Notice, d \in Receiver : <<m, d>> # <<n, c>> => jobs'[m][d] = jobs[m][d]
      /\ jobs'[n][c].pc \in {"try", "sleep"} => jobs'[n][c].attempt < Deliveries!Attempts
  BY <1>1 DEF OneMoves
<1>3. /\ deadLetters \subseteq Deliveries!Letter /\ replaying \in Deliveries!Letter \cup {None}
      /\ nextNotice \in 1 .. MaxNotice + 1 /\ thrown \subseteq Deliveries!Letter
  BY DEF DeliveriesInv, Deliveries!TypeOK
<1> DEFINE letter == [notice |-> n, receiver |-> c]
<1>4. letter \in Deliveries!Letter /\ letter.notice = n /\ letter.receiver = c
  BY DEF Deliveries!Letter
<1> HIDE DEF letter
<1>5. /\ deadLetters' \subseteq deadLetters \cup {letter}
      /\ letter \in deadLetters' \/ deadLetters' = deadLetters
      /\ letter \in deadLetters' => jobs'[n][c].pc = "given up" \/ letter \in deadLetters
      /\ jobs'[n][c].pc = "given up" => letter \in deadLetters'
      /\ \A l \in deadLetters \ deadLetters' :
            l.notice = n /\ (channel = "logout" => l.receiver = c) /\ jobs'[n][c].pc = "given up"
  BY <1>1 DEF Deliveries!Recorded, Deliveries!SameKey, letter
<1>6. Deliveries!TypeOK'
  <2>1. deadLetters' \subseteq Deliveries!Letter /\ thrown' \subseteq Deliveries!Letter
    BY <1>1, <1>3, <1>4, <1>5 DEF letter
  <2> QED
    BY <1>1, <1>2, <2>1 DEF DeliveriesInv, Deliveries!TypeOK
<1>7. LettersAreGivenUp'
  <2>1. \A l \in deadLetters \cup ({replaying} \ {None}) :
           l \in Deliveries!Letter /\ jobs[l.notice][l.receiver].pc = "given up"
    BY <1>3 DEF DeliveriesInv, LettersAreGivenUp
  <2>2. ASSUME NEW l \in Deliveries!Letter, jobs[l.notice][l.receiver].pc = "given up"
        PROVE  jobs'[l.notice][l.receiver].pc = "given up"
    <3>1. l.notice \in Deliveries!Notice /\ l.receiver \in Receiver
      BY DEF Deliveries!Letter
    <3>2. <<l.notice, l.receiver>> # <<n, c>>
      BY <1>2, <2>2
    <3> QED
      BY <1>2, <2>2, <3>1, <3>2
  <2>3. ASSUME letter \in deadLetters' PROVE jobs'[letter.notice][letter.receiver].pc = "given up"
    BY <1>4, <1>5, <2>1, <2>2, <2>3
  <2> QED
    BY <1>1, <1>5, <2>1, <2>2, <2>3 DEF LettersAreGivenUp
<1>8. NoticesInOrder'
  <2>1. ~(n >= nextNotice)
    BY <1>2 DEF DeliveriesInv, NoticesInOrder, Deliveries!NoJob
  <2>2. ASSUME NEW m \in Deliveries!Notice, m >= nextNotice, NEW d \in Receiver
        PROVE  jobs'[m][d] = Deliveries!NoJob
    BY <1>2, <2>1, <2>2 DEF DeliveriesInv, NoticesInOrder
  <2> QED
    BY <1>1, <2>2 DEF NoticesInOrder, Deliveries!NoJob, Deliveries!Notice
<1>9. AttemptsLeft'
  <2>1. Deliveries!Attempts' = Deliveries!Attempts
    BY <1>1 DEF Deliveries!Attempts
  <2>2. ASSUME NEW m \in Deliveries!Notice, NEW d \in Receiver, jobs'[m][d].pc \in {"try", "sleep"}
        PROVE  jobs'[m][d].attempt < Deliveries!Attempts
    BY <1>2, <2>2 DEF DeliveriesInv, AttemptsLeft
  <2> QED
    BY <2>1, <2>2 DEF AttemptsLeft, Deliveries!Notice
<1>10. Deliveries!FailuresRecorded'
  <2> SUFFICES ASSUME NEW m \in Deliveries!Notice, NEW d \in Deliveries!GivenUp(m)',
                      [notice |-> m, receiver |-> d] \notin thrown'
               PROVE  Deliveries!Kept(m, d)'
    BY DEF Deliveries!FailuresRecorded, Deliveries!Notice
  <2>1. d \in Receiver /\ jobs'[m][d].pc \in {"given up", "dropped"}
    <3>1. d \in {e \in Receiver : jobs'[m][e].pc \in {"given up", "dropped"}}
      BY DEF Deliveries!GivenUp
    <3> QED
      BY <3>1
  <2>2. Deliveries!GivenUp(m) \subseteq Deliveries!GivenUp(m)'
    <3>1. ASSUME NEW e \in Receiver, jobs[m][e].pc \in {"given up", "dropped"}
          PROVE  jobs'[m][e].pc \in {"given up", "dropped"}
      BY <1>2, <3>1
    <3> QED
      BY <3>1 DEF Deliveries!GivenUp
  <2>3. ASSUME letter \in deadLetters', m = n, channel = "logout" => c = d
        PROVE  Deliveries!Kept(m, d)'
    <3>1. c \in Deliveries!GivenUp(m)'
      BY <1>4, <1>7, <2>3 DEF LettersAreGivenUp, Deliveries!GivenUp
    <3> QED
      BY <1>1, <1>4, <2>3, <3>1 DEF Deliveries!Kept
  <2>4. CASE <<m, d>> = <<n, c>>
    <3>1. m = n /\ d = c
      BY <2>4
    <3>2. CASE jobs'[n][c].pc = "given up"
      BY <1>5, <2>3, <3>1, <3>2
    <3>3. CASE jobs'[n][c].pc = "dropped"
      <4>1. PICK l \in deadLetters : l.notice = n /\ (channel = "logout" => l.receiver = c)
        BY <1>1, <3>1, <3>3 DEF Deliveries!SameKey
      <4>2. l \in deadLetters' /\ jobs[l.notice][l.receiver].pc = "given up" /\ l.receiver \in Receiver
        BY <1>1, <1>3, <3>3, <4>1 DEF DeliveriesInv, LettersAreGivenUp, Deliveries!Letter
      <4>3. l.receiver \in Deliveries!GivenUp(m)'
        BY <2>2, <3>1, <4>1, <4>2 DEF Deliveries!GivenUp
      <4> QED
        BY <1>1, <3>1, <4>1, <4>2, <4>3 DEF Deliveries!Kept
    <3> QED
      BY <2>1, <3>1, <3>2, <3>3
  <2>5. CASE <<m, d>> # <<n, c>>
    <3>1. d \in Deliveries!GivenUp(m)
      BY <1>2, <2>1, <2>5 DEF Deliveries!GivenUp
    <3>2. PICK l \in deadLetters \cup handled :
             /\ l.notice = m /\ l.receiver \in Deliveries!GivenUp(m)
             /\ channel = "logout" => l.receiver = d
      <4>1. [notice |-> m, receiver |-> d] \notin thrown
        BY <1>1
      <4>2. Deliveries!FailuresRecorded
        BY DEF DeliveriesInv
      <4>3. Deliveries!Kept(m, d)
        BY <3>1, <4>1, <4>2 DEF Deliveries!FailuresRecorded
      <4> QED
        BY <4>3 DEF Deliveries!Kept
    <3>3. CASE l \in deadLetters' \cup handled'
      BY <1>1, <2>2, <3>2, <3>3 DEF Deliveries!Kept
    <3>4. CASE l \in deadLetters \ deadLetters'
      BY <1>5, <2>3, <3>2, <3>4
    <3> QED
      BY <1>1, <3>2, <3>3, <3>4
  <2> QED
    BY <2>4, <2>5
<1> QED
  BY <1>6, <1>7, <1>8, <1>9, <1>10 DEF DeliveriesInv

\* What hangs on the deliveries alone.
LEMMA SameJobs ==
    ASSUME DeliveriesInv, UNCHANGED <<channel, jobs, nextNotice>>
    PROVE  /\ NoticesInOrder' /\ AttemptsLeft'
           /\ UNCHANGED <<deadLetters, thrown, handled>> => Deliveries!FailuresRecorded'
<1>1. NoticesInOrder' /\ AttemptsLeft'
  BY DEF DeliveriesInv, NoticesInOrder, AttemptsLeft, Deliveries!Attempts, Deliveries!Notice,
         Deliveries!NoJob
<1>2. \A n : Deliveries!GivenUp(n)' = Deliveries!GivenUp(n)
  BY DEF Deliveries!GivenUp
<1>3. UNCHANGED <<deadLetters, thrown, handled>> => Deliveries!FailuresRecorded'
  <2> SUFFICES ASSUME UNCHANGED <<deadLetters, thrown, handled>>,
                      NEW n \in Deliveries!Notice, NEW c \in Deliveries!GivenUp(n),
                      [notice |-> n, receiver |-> c] \notin thrown
               PROVE  Deliveries!Kept(n, c)'
    BY <1>2 DEF Deliveries!FailuresRecorded, Deliveries!Notice
  <2>1. Deliveries!Kept(n, c)
    BY DEF DeliveriesInv, Deliveries!FailuresRecorded
  <2> QED
    BY <1>2, <2>1 DEF Deliveries!Kept
<1> QED
  BY <1>1, <1>3

LEMMA DeliveriesNext == DeliveriesInv /\ [Deliveries!Next]_deVars => DeliveriesInv'
<1> SUFFICES ASSUME DeliveriesInv, [Deliveries!Next]_deVars PROVE DeliveriesInv'
  OBVIOUS
<1>1. /\ jobs \in [Deliveries!Notice -> [Receiver -> Deliveries!Job]] /\ deadLetters \subseteq Deliveries!Letter
      /\ nextNotice \in 1 .. MaxNotice + 1 /\ replaying \in Deliveries!Letter \cup {None}
      /\ MaxNotice \in Nat /\ channel \in {"webhook", "logout"}
  BY OperationsAssumption DEF DeliveriesInv, Deliveries!TypeOK
<1>2. \A l \in Deliveries!Letter : l.notice \in Deliveries!Notice /\ l.receiver \in Receiver
  BY DEF Deliveries!Letter
<1>3. CASE UNCHANGED deVars
  <2>1. UNCHANGED <<channel, dlqStore, jobs, deadLetters, nextNotice, replaying, faults, thrown, handled>>
    BY <1>3 DEF deVars
  <2>2. Deliveries!TypeOK' /\ LettersAreGivenUp'
    BY <2>1
    DEF DeliveriesInv, Deliveries!TypeOK, LettersAreGivenUp, Deliveries!Notice, Deliveries!Letter,
        Deliveries!Job
  <2> QED
    BY <2>1, <2>2, SameJobs DEF DeliveriesInv
<1>4. CASE Deliveries!Dispatch
  <2>1. /\ nextNotice \in Deliveries!Notice /\ nextNotice' = nextNotice + 1
        /\ UNCHANGED <<channel, dlqStore, deadLetters, replaying, faults, thrown, handled>>
    BY <1>4 DEF Deliveries!Dispatch
  <2>2. PICK receivers \in SUBSET Receiver :
            jobs' = [jobs EXCEPT ![nextNotice] = Deliveries!Started(receivers)]
    BY <1>4 DEF Deliveries!Dispatch
  <2>3. Deliveries!Started(receivers) \in [Receiver -> Deliveries!Job]
    BY OperationsAssumption DEF Deliveries!Started, Deliveries!NoJob, Deliveries!Job
  <2>4. /\ jobs' \in [Deliveries!Notice -> [Receiver -> Deliveries!Job]]
        /\ jobs'[nextNotice] = Deliveries!Started(receivers)
        /\ \A n \in Deliveries!Notice : n # nextNotice => jobs'[n] = jobs[n]
    BY <1>1, <2>1, <2>2, <2>3
  <2>5. \A c \in Receiver : /\ jobs'[nextNotice][c].pc \in {"none", "try"}
                            /\ jobs'[nextNotice][c].attempt = 0
                            /\ jobs[nextNotice][c].pc = "none"
    <3>1. nextNotice >= nextNotice
      BY <1>1
    <3> QED
      BY <2>1, <2>4, <3>1
      DEF Deliveries!Started, Deliveries!NoJob, DeliveriesInv, NoticesInOrder
  <2>6. Deliveries!TypeOK'
    BY <1>1, <2>1, <2>4 DEF DeliveriesInv, Deliveries!TypeOK, Deliveries!Notice
  <2>7. LettersAreGivenUp'
    <3> SUFFICES ASSUME NEW l \in deadLetters \cup ({replaying} \ {None})
                 PROVE  jobs'[l.notice][l.receiver].pc = "given up"
      BY <2>1 DEF LettersAreGivenUp
    <3>1. l \in Deliveries!Letter /\ jobs[l.notice][l.receiver].pc = "given up"
      BY <1>1 DEF DeliveriesInv, LettersAreGivenUp
    <3>2. l.notice \in Deliveries!Notice /\ l.receiver \in Receiver
      BY <1>2, <3>1
    <3>3. l.notice # nextNotice
      BY <2>5, <3>1, <3>2
    <3> QED
      BY <2>4, <3>1, <3>2, <3>3
  <2>8. NoticesInOrder'
    <3> SUFFICES ASSUME NEW n \in Deliveries!Notice, n >= nextNotice + 1, NEW c \in Receiver
                 PROVE  jobs'[n][c] = Deliveries!NoJob
      BY <2>1 DEF NoticesInOrder, Deliveries!Notice, Deliveries!NoJob
    <3>1. n >= nextNotice /\ n # nextNotice
      BY <1>1 DEF Deliveries!Notice
    <3> QED
      BY <2>4, <3>1 DEF DeliveriesInv, NoticesInOrder
  <2>9. AttemptsLeft'
    <3>1. Deliveries!Attempts' = Deliveries!Attempts
      BY <2>1 DEF Deliveries!Attempts
    <3>2. 0 < Deliveries!Attempts
      BY AttemptsAreBounded, OperationsAssumption DEF DeliveriesInv
    <3>3. ASSUME NEW n \in Deliveries!Notice, NEW c \in Receiver, jobs'[n][c].pc \in {"try", "sleep"}
          PROVE  jobs'[n][c].attempt < Deliveries!Attempts
      BY <2>4, <2>5, <3>2, <3>3 DEF DeliveriesInv, AttemptsLeft
    <3> QED
      BY <3>1, <3>3 DEF AttemptsLeft, Deliveries!Notice
  <2>10. Deliveries!FailuresRecorded'
    <3>1. \A n \in Deliveries!Notice : Deliveries!GivenUp(n)' = Deliveries!GivenUp(n)
      <4> SUFFICES ASSUME NEW n \in Deliveries!Notice
                   PROVE  Deliveries!GivenUp(n)' = Deliveries!GivenUp(n)
        OBVIOUS
      <4>1. CASE n = nextNotice
        <5>1. \A c \in Receiver : /\ jobs'[n][c].pc \notin {"given up", "dropped"}
                                  /\ jobs[n][c].pc \notin {"given up", "dropped"}
          BY <2>5, <4>1
        <5> QED
          BY <5>1 DEF Deliveries!GivenUp
      <4>2. CASE n # nextNotice
        BY <2>4, <4>2 DEF Deliveries!GivenUp
      <4> QED
        BY <4>1, <4>2
    <3> SUFFICES ASSUME NEW n \in Deliveries!Notice, NEW c \in Deliveries!GivenUp(n),
                        [notice |-> n, receiver |-> c] \notin thrown
                 PROVE  Deliveries!Kept(n, c)'
      BY <2>1, <3>1 DEF Deliveries!FailuresRecorded, Deliveries!Notice
    <3>2. Deliveries!Kept(n, c)
      BY DEF DeliveriesInv, Deliveries!FailuresRecorded
    <3> QED
      BY <2>1, <3>1, <3>2 DEF Deliveries!Kept
  <2> QED
    BY <2>6, <2>7, <2>8, <2>9, <2>10 DEF DeliveriesInv
<1>5. CASE Deliveries!ListFailed
  <2>1. /\ UNCHANGED <<channel, dlqStore, jobs, deadLetters, nextNotice, faults, thrown, handled>>
        /\ replaying' \in deadLetters
    BY <1>5 DEF Deliveries!ListFailed
  <2>2. LettersAreGivenUp' /\ replaying' \in Deliveries!Letter
    BY <1>1, <2>1 DEF DeliveriesInv, LettersAreGivenUp
  <2>3. Deliveries!TypeOK'
    BY <2>1, <2>2
    DEF DeliveriesInv, Deliveries!TypeOK, Deliveries!Notice, Deliveries!Letter, Deliveries!Job
  <2> QED
    BY <2>1, <2>2, <2>3, SameJobs DEF DeliveriesInv
<1>6. CASE Deliveries!RemoveFailure
  <2>1. /\ UNCHANGED <<channel, dlqStore, jobs, nextNotice, faults, thrown>>
        /\ replaying # None /\ replaying' = None /\ handled' = handled \cup {replaying}
        /\ deadLetters' = deadLetters \ Deliveries!SameKey(replaying.notice, replaying.receiver)
    BY <1>6 DEF Deliveries!RemoveFailure
  <2>0. \A n : Deliveries!GivenUp(n)' = Deliveries!GivenUp(n)
    BY <2>1 DEF Deliveries!GivenUp
  <2>2. /\ replaying \in Deliveries!Letter /\ deadLetters' \subseteq deadLetters
        /\ handled \subseteq Deliveries!Letter
    BY <1>1, <2>1 DEF DeliveriesInv, Deliveries!TypeOK
  <2>3. Deliveries!TypeOK'
    BY <2>1, <2>2
    DEF DeliveriesInv, Deliveries!TypeOK, Deliveries!Notice, Deliveries!Letter, Deliveries!Job
  <2>4. LettersAreGivenUp'
    BY <2>1, <2>2 DEF DeliveriesInv, LettersAreGivenUp
  <2>5. NoticesInOrder' /\ AttemptsLeft'
    BY <2>1, SameJobs
  <2>6. Deliveries!FailuresRecorded'
    <3> SUFFICES ASSUME NEW n \in Deliveries!Notice, NEW c \in Deliveries!GivenUp(n),
                        [notice |-> n, receiver |-> c] \notin thrown
                 PROVE  Deliveries!Kept(n, c)'
      BY <2>1, <2>0 DEF Deliveries!FailuresRecorded, Deliveries!Notice
    <3>1. PICK l \in deadLetters \cup handled :
             /\ l.notice = n /\ l.receiver \in Deliveries!GivenUp(n)
             /\ channel = "logout" => l.receiver = c
      BY DEF DeliveriesInv, Deliveries!FailuresRecorded, Deliveries!Kept
    <3>2. CASE l \in deadLetters \ deadLetters'
      <4>1. l \in Deliveries!SameKey(replaying.notice, replaying.receiver)
        BY <2>1, <3>2
      <4>2. /\ l.notice = replaying.notice
            /\ channel = "logout" => l.receiver = replaying.receiver
        BY <4>1 DEF Deliveries!SameKey
      <4>3. replaying.receiver \in Deliveries!GivenUp(n)
        BY <1>2, <2>1, <2>2, <3>1, <4>2 DEF DeliveriesInv, LettersAreGivenUp, Deliveries!GivenUp
      <4> QED
        BY <2>0, <2>1, <3>1, <4>2, <4>3 DEF Deliveries!Kept
    <3>3. CASE l \in deadLetters' \cup handled
      BY <2>0, <2>1, <3>1, <3>3 DEF Deliveries!Kept
    <3> QED
      BY <3>1, <3>2, <3>3
  <2> QED
    BY <2>3, <2>4, <2>5, <2>6 DEF DeliveriesInv
<1>7. ASSUME NEW n \in Deliveries!Notice, NEW c \in Receiver, Deliveries!Step(n, c)
      PROVE  DeliveriesInv'
  BY <1>7, StepKeeps
<1> QED
  BY <1>3, <1>4, <1>5, <1>6, <1>7 DEF Deliveries!Next

-------------------------------------------------------------------------------
(* Migrations: places in the selected blocks.                                 *)

LEMMA SelectionFacts ==
    ASSUME NEW chosen \in Migrations!Selections
    PROVE  \E n \in Nat : /\ chosen \in [1 .. n -> Block]
                          /\ \A i, j \in 1 .. n : chosen[i] = chosen[j] => i = j
<1>1. MaxSelected \in Nat
  BY OperationsAssumption
<1>2. PICK n \in 1 .. MaxSelected : chosen \in [1 .. n -> Block]
  <2>1. chosen \in UNION {[1 .. n -> Block] : n \in 1 .. MaxSelected}
    BY DEF Migrations!Selections
  <2>2. PICK F \in {[1 .. n -> Block] : n \in 1 .. MaxSelected} : chosen \in F
    BY <2>1
  <2> QED
    BY <2>2
<1>3. \A i, j \in DOMAIN chosen : chosen[i] = chosen[j] => i = j
  BY DEF Migrations!Selections
<1> QED
  BY <1>1, <1>2, <1>3

\* A run begins at the first migration of its first block.
LEMMA StartIsPlace ==
    ASSUME NEW s \in Migrations!Selections
    PROVE  /\ Migrations!IsPlace(Migrations!Start(s))
           /\ ~Migrations!Over(Migrations!Start(s)) => Migrations!Item(Migrations!Start(s))[2] = 1

<1> DEFINE p == Migrations!Start(s)
<1>1. PICK n \in Nat : s \in [1 .. n -> Block]
  BY SelectionFacts
<1>2. p.blocks = s /\ p.at = 1 /\ p.next = 1
  BY DEF Migrations!Start
<1>3. p \in [blocks: Migrations!Selections, at: Nat \ {0}, next: Nat \ {0}]
  BY DEF Migrations!Start
<1>4. ~Migrations!Over(p) => Migrations!Item(p) = <<s[1], 1>> /\ s[1] \in Block
  BY <1>1, <1>2 DEF Migrations!Over, Migrations!Item
<1>5. \A b \in Block : <<b, 1>> \in Migrations!Migration
  <2> SUFFICES ASSUME NEW b \in Block PROVE <<b, 1>> \in Migrations!Migration
    OBVIOUS
  <2>1. Count[b] \in Nat \ {0}
    BY OperationsAssumption
  <2> QED
    BY <2>1 DEF Migrations!Migration
<1> QED
  BY <1>3, <1>4, <1>5 DEF Migrations!IsPlace

\* The place after another: in the same block or at the beginning of the next one; its migration
\* lies behind it, and nothing has come to lie ahead.
LEMMA PastIsPlace ==
    ASSUME NEW p, Migrations!IsPlace(p), ~Migrations!Over(p)
    PROVE  /\ Migrations!IsPlace(Migrations!Past(p))
           /\ Migrations!Item(p) \in Migrations!Migration
           /\ ~Migrations!Over(Migrations!Past(p)) =>
                 \/ Migrations!Item(Migrations!Past(p))[2] = 1
                 \/ Migrations!Item(Migrations!Past(p)) =
                       <<Migrations!Item(p)[1], Migrations!Item(p)[2] + 1>>
           /\ Ahead(p, Migrations!Item(p))
           /\ ~Ahead(Migrations!Past(p), Migrations!Item(p))
           /\ \A m \in Migrations!Migration : Ahead(Migrations!Past(p), m) => Ahead(p, m)
<1> DEFINE q == Migrations!Past(p)
<1>1. /\ p \in [blocks: Migrations!Selections, at: Nat \ {0}, next: Nat \ {0}]
      /\ p.blocks \in Migrations!Selections /\ p.at \in Nat \ {0} /\ p.next \in Nat \ {0}
  BY DEF Migrations!IsPlace
<1>2. PICK n \in Nat : /\ p.blocks \in [1 .. n -> Block]
                       /\ \A i, j \in 1 .. n : p.blocks[i] = p.blocks[j] => i = j
  BY <1>1, SelectionFacts
<1>3. DOMAIN p.blocks = 1 .. n /\ p.at \in 1 .. n /\ p.blocks[p.at] \in Block
  BY <1>2 DEF Migrations!Over
<1>4. Count[p.blocks[p.at]] \in Nat \ {0}
  BY <1>3, OperationsAssumption
<1>5. Migrations!Item(p) = <<p.blocks[p.at], p.next>> /\ Migrations!Item(p) \in Migrations!Migration
  BY DEF Migrations!IsPlace, Migrations!Item
<1>6. \/ /\ q = [p EXCEPT !.next = p.next + 1] /\ p.next < Count[p.blocks[p.at]]
      \/ q = [p EXCEPT !.at = p.at + 1, !.next = 1]
  BY DEF Migrations!Past
<1>7. /\ q \in [blocks: Migrations!Selections, at: Nat \ {0}, next: Nat \ {0}]
      /\ q.blocks = p.blocks
      /\ \/ q.at = p.at /\ q.next = p.next + 1 /\ p.next < Count[p.blocks[p.at]]
         \/ q.at = p.at + 1 /\ q.next = 1
  <2>1. CASE q = [p EXCEPT !.next = p.next + 1] /\ p.next < Count[p.blocks[p.at]]
    <3>1. p.next + 1 \in Nat \ {0}
      BY <1>1
    <3>2. q = [p EXCEPT !.next = p.next + 1]
      BY <2>1
    <3> HIDE DEF q
    <3> QED
      BY <1>1, <2>1, <3>1, <3>2
  <2>2. CASE q = [p EXCEPT !.at = p.at + 1, !.next = 1]
    <3>1. p.at + 1 \in Nat \ {0} /\ 1 \in Nat \ {0}
      BY <1>1
    <3>2. q = [p EXCEPT !.at = p.at + 1, !.next = 1]
      BY <2>2
    <3> HIDE DEF q
    <3> QED
      BY <1>1, <3>1, <3>2
  <2> QED
    BY <1>6, <2>1, <2>2
<1> HIDE DEF q
<1>8. \A b \in Block, k \in Nat \ {0} : k <= Count[b] => <<b, k>> \in Migrations!Migration
  <2> SUFFICES ASSUME NEW b \in Block, NEW k \in Nat \ {0}, k <= Count[b]
               PROVE  <<b, k>> \in Migrations!Migration
    OBVIOUS
  <2>1. Count[b] \in Nat \ {0}
    BY OperationsAssumption
  <2> QED
    BY <2>1 DEF Migrations!Migration
<1>9. Migrations!Over(q) \/ Migrations!Item(q) \in Migrations!Migration
  <2> SUFFICES ASSUME ~Migrations!Over(q) PROVE Migrations!Item(q) \in Migrations!Migration
    OBVIOUS
  <2>1. Migrations!Item(q) = <<p.blocks[q.at], q.next>> /\ p.blocks[q.at] \in Block
    BY <1>2, <1>3, <1>7 DEF Migrations!Over, Migrations!Item
  <2>2. Count[p.blocks[q.at]] \in Nat \ {0}
    BY <2>1, OperationsAssumption
  <2>3. q.next \in Nat \ {0} /\ q.next <= Count[p.blocks[q.at]]
    BY <1>1, <1>4, <1>7, <2>2
  <2> QED
    BY <1>8, <2>1, <2>3
<1>10. Migrations!IsPlace(q)
  BY <1>7, <1>9 DEF Migrations!IsPlace
<1>11. Migrations!Item(q) = <<p.blocks[q.at], q.next>>
  BY <1>7 DEF Migrations!Item
<1>12. \/ Migrations!Item(q)[2] = 1
       \/ Migrations!Item(q) = <<Migrations!Item(p)[1], Migrations!Item(p)[2] + 1>>
  BY <1>5, <1>7, <1>11
<1>13. Ahead(p, Migrations!Item(p))
  BY <1>1, <1>3, <1>5 DEF Ahead
<1>14. ~Ahead(q, Migrations!Item(p))
  BY <1>1, <1>2, <1>3, <1>5, <1>7 DEF Ahead
<1>15. ASSUME NEW m \in Migrations!Migration, Ahead(q, m) PROVE Ahead(p, m)
  <2>1. PICK i \in 1 .. n : i >= q.at /\ m[1] = p.blocks[i] /\ (i = q.at => m[2] >= q.next)
    BY <1>3, <1>7, <1>15 DEF Ahead
  <2>2. m[2] \in Nat
    BY DEF Migrations!Migration
  <2>3. i >= p.at /\ (i = p.at => m[2] >= p.next)
    BY <1>1, <1>7, <2>1, <2>2
  <2> QED
    BY <1>3, <2>1, <2>3 DEF Ahead
<1> QED
  BY <1>5, <1>10, <1>12, <1>13, <1>14, <1>15 DEF q

-------------------------------------------------------------------------------
(* Migrations: the steps.                                                     *)

LEMMA MigrationsInit == Migrations!Init => MigrationsInv
<1> SUFFICES ASSUME Migrations!Init PROVE MigrationsInv
  OBVIOUS
<1>1. Migrations!Nothing \in [ran: SUBSET Migrations!Migration, journaled: SUBSET Migrations!Migration]
  BY DEF Migrations!Nothing
<1>2. Migrations!TypeOK
  BY <1>1, OperationsAssumption DEF Migrations!Init, Migrations!TypeOK
<1>3. Migrations!JournaledWasRun
  BY DEF Migrations!Init, Migrations!JournaledWasRun
<1>4. \A r \in Runner : ProcessInv(r)
  BY DEF Migrations!Init, ProcessInv, HoldsTheLock, KeepsItsPlace, Whole, EarlierAreDone,
         JournalAsRead, Busy, Visiting, RanFor, Migrations!Sees, Migrations!Nothing
<1> QED
  BY <1>2, <1>3, <1>4 DEF MigrationsInv

\* What one process does leaves the others where they are, takes nothing back, and while
\* another one holds the lock has no part of what it guards.
OthersStay(r) ==
    /\ mode' = mode /\ ran \subseteq ran' /\ journaled \subseteq journaled'
    /\ \A q \in Runner : q # r =>
          pc'[q] = pc[q] /\ applied'[q] = applied[q] /\ todo'[q] = todo[q] /\ pending'[q] = pending[q]
    /\ mode = "bun" /\ lock \notin {r, None} => UNCHANGED <<ran, journaled, lock>>

LEMMA OthersKept ==
    ASSUME MigrationsInv, NEW r \in Runner, OthersStay(r),
           Migrations!JournaledWasRun', Migrations!TypeOK',
           NEW q \in Runner, q # r
    PROVE  ProcessInv(q)'
<1>1. /\ pc'[q] = pc[q] /\ applied'[q] = applied[q] /\ todo'[q] = todo[q] /\ pending'[q] = pending[q]
      /\ mode' = mode /\ ran \subseteq ran' /\ journaled \subseteq journaled' /\ mode \in {"pool", "bun"}
  BY DEF OthersStay, MigrationsInv, Migrations!TypeOK
<1>2. /\ HoldsTheLock(q) /\ KeepsItsPlace(q) /\ EarlierAreDone(q) /\ JournalAsRead(q)
      /\ Whole(q)
      /\ mode = "bun" => pc[q] # "failed"
  BY DEF MigrationsInv, ProcessInv
<1>3. (Busy(q)' <=> Busy(q)) /\ (Visiting(q)' <=> Visiting(q)) /\ (Visiting(q) => Busy(q))
  BY <1>1 DEF Busy, Visiting
<1>4. \A m \in journaled' : \A n \in 1 .. m[2] : <<m[1], n>> \in ran' \cap journaled'
  BY DEF Migrations!JournaledWasRun
<1>5. CASE mode = "bun" /\ Busy(q)
  <2>1. lock = q /\ q # None
    BY <1>2, <1>5, OperationsAssumption DEF HoldsTheLock
  <2>2. UNCHANGED <<ran, journaled, lock>>
    BY <1>5, <2>1 DEF OthersStay
  <2>3. Migrations!Sees(q)' = Migrations!Sees(q) /\ RanFor(q)' = RanFor(q)
    BY <1>1, <2>2 DEF Migrations!Sees, RanFor
  <2>4. HoldsTheLock(q)'
    BY <1>1, <1>2, <1>3, <2>2 DEF HoldsTheLock, Migrations!Nothing, Migrations!Item
  <2>5. KeepsItsPlace(q)'
    BY <1>1, <1>2, <1>3 DEF KeepsItsPlace
  <2>6. EarlierAreDone(q)'
    BY <1>1, <1>2, <1>3, <2>3 DEF EarlierAreDone
  <2>7. JournalAsRead(q)'
    BY <1>1, <1>2, <1>3, <2>3 DEF JournalAsRead
  <2>8. Whole(q)'
    BY <1>2, <2>3 DEF Whole
  <2> QED
    BY <1>1, <1>2, <2>4, <2>5, <2>6, <2>7, <2>8 DEF ProcessInv
<1>6. CASE mode = "pool" \/ ~Busy(q)
  <2>1. pending[q] = Migrations!Nothing /\ pending'[q] = Migrations!Nothing
    BY <1>1, <1>2, <1>6 DEF HoldsTheLock
  <2>2. /\ Migrations!Sees(q) = journaled /\ Migrations!Sees(q)' = journaled'
        /\ RanFor(q) = ran /\ RanFor(q)' = ran'
    BY <2>1 DEF Migrations!Sees, RanFor, Migrations!Nothing
  <2>3. HoldsTheLock(q)'
    <3>1. mode = "bun" => pc[q] # "insert"
      BY <1>6 DEF Busy
    <3> QED
      BY <1>1, <1>3, <1>6, <2>1, <3>1 DEF HoldsTheLock, Migrations!Nothing
  <2>4. KeepsItsPlace(q)'
    BY <1>1, <1>2, <1>3 DEF KeepsItsPlace
  <2>5. EarlierAreDone(q)'
    BY <1>1, <1>2, <1>3, <2>2 DEF EarlierAreDone
  <2>6. JournalAsRead(q)'
    BY <1>1, <1>2, <1>3, <1>6, <2>2 DEF JournalAsRead, Busy, Visiting
  <2>7. Whole(q)'
    BY <1>4, <2>2 DEF Whole
  <2> QED
    BY <1>1, <1>2, <2>3, <2>4, <2>5, <2>6, <2>7 DEF ProcessInv
<1> QED
  BY <1>1, <1>5, <1>6

LEMMA OneGoes ==
    ASSUME MigrationsInv, NEW r \in Runner, OthersStay(r), Migrations!TypeOK',
           Migrations!JournaledWasRun', ProcessInv(r)'
    PROVE  MigrationsInv'
<1>1. \A q \in Runner : ProcessInv(q)'
  BY OthersKept
<1> QED
  BY <1>1 DEF MigrationsInv

\* What the types say of one process.
LEMMA ProcessFacts ==
    ASSUME MigrationsInv, NEW r \in Runner
    PROVE  /\ mode \in {"pool", "bun"} /\ ran \subseteq Migrations!Migration
           /\ journaled \subseteq Migrations!Migration /\ lock \in Runner \cup {None}
           /\ pc \in [Runner -> {"off", "journal", "visit", "insert", "done", "failed"}]
           /\ applied \in [Runner -> SUBSET Migrations!Migration]
           /\ DOMAIN todo = Runner /\ crashes \in 0 .. MaxCrash
           /\ \A q \in Runner : todo[q] = None \/ Migrations!IsPlace(todo[q])
           /\ pending \in [Runner -> [ran: SUBSET Migrations!Migration,
                                      journaled: SUBSET Migrations!Migration]]
           /\ pending[r].ran \subseteq Migrations!Migration
           /\ pending[r].journaled \subseteq Migrations!Migration
           /\ HoldsTheLock(r) /\ KeepsItsPlace(r) /\ Whole(r) /\ EarlierAreDone(r)
           /\ JournalAsRead(r)
           /\ mode = "bun" => pc[r] # "failed"
<1>1. Migrations!TypeOK /\ ProcessInv(r)
  BY DEF MigrationsInv
<1>2. pending[r] \in [ran: SUBSET Migrations!Migration, journaled: SUBSET Migrations!Migration]
  BY <1>1 DEF Migrations!TypeOK
<1>3. pending[r].ran \subseteq Migrations!Migration /\ pending[r].journaled \subseteq Migrations!Migration
  BY <1>2
<1> QED
  BY <1>1, <1>3 DEF Migrations!TypeOK, ProcessInv

LEMMA BeginKeeps ==
    ASSUME MigrationsInv, NEW r \in Runner, Migrations!Begin(r)
    PROVE  MigrationsInv'
<1>1. /\ pc[r] = "off" /\ pc' = [pc EXCEPT ![r] = "journal"]
      /\ UNCHANGED <<mode, ran, journaled, applied, todo, pending, crashes>>
      /\ IF mode = "bun" THEN lock = None /\ lock' = r ELSE lock' = lock
  BY DEF Migrations!Begin, Migrations!Lock, Migrations!database
<1>2. /\ pc' \in [Runner -> {"off", "journal", "visit", "insert", "done", "failed"}]
      /\ pc'[r] = "journal" /\ \A q \in Runner : q # r => pc'[q] = pc[q]
  BY <1>1, ProcessFacts
<1>3. Migrations!TypeOK'
  BY <1>1, <1>2, ProcessFacts DEF Migrations!TypeOK
<1>4. Migrations!JournaledWasRun'
  BY <1>1 DEF MigrationsInv, Migrations!JournaledWasRun
<1>5. OthersStay(r)
  BY <1>1, <1>2, OperationsAssumption DEF OthersStay
<1>6. /\ Busy(r)' /\ ~Visiting(r)' /\ ~Busy(r)
      /\ Migrations!Sees(r)' = Migrations!Sees(r) /\ RanFor(r)' = RanFor(r)
  BY <1>1, <1>2 DEF Busy, Visiting, Migrations!Sees, RanFor
<1>7. HoldsTheLock(r)'
  BY <1>1, <1>2, <1>6, ProcessFacts DEF HoldsTheLock, Migrations!Nothing
<1>8. KeepsItsPlace(r)' /\ EarlierAreDone(r)' /\ JournalAsRead(r)'
  BY <1>2, <1>6 DEF KeepsItsPlace, EarlierAreDone, JournalAsRead
<1>9. Whole(r)'
  BY <1>6, ProcessFacts DEF Whole
<1> QED
  BY <1>2, <1>3, <1>4, <1>5, <1>7, <1>8, <1>9, OneGoes DEF ProcessInv

LEMMA AgainKeeps ==
    ASSUME MigrationsInv, NEW r \in Runner, Migrations!Again(r)
    PROVE  MigrationsInv'
<1>1. /\ pc[r] \in {"failed", "done"} /\ pc' = [pc EXCEPT ![r] = "off"]
      /\ UNCHANGED <<mode, ran, journaled, lock, applied, todo, pending, crashes>>
  BY DEF Migrations!Again, Migrations!database
<1>2. /\ pc' \in [Runner -> {"off", "journal", "visit", "insert", "done", "failed"}]
      /\ pc'[r] = "off" /\ \A q \in Runner : q # r => pc'[q] = pc[q]
  BY <1>1, ProcessFacts
<1>3. Migrations!TypeOK'
  BY <1>1, <1>2, ProcessFacts DEF Migrations!TypeOK
<1>4. Migrations!JournaledWasRun'
  BY <1>1 DEF MigrationsInv, Migrations!JournaledWasRun
<1>5. OthersStay(r)
  BY <1>1, <1>2 DEF OthersStay
<1>6. /\ ~Busy(r)' /\ ~Visiting(r)' /\ ~Busy(r)
      /\ Migrations!Sees(r)' = Migrations!Sees(r) /\ RanFor(r)' = RanFor(r)
  BY <1>1, <1>2 DEF Busy, Visiting, Migrations!Sees, RanFor
<1>7. HoldsTheLock(r)'
  BY <1>1, <1>2, <1>6, ProcessFacts DEF HoldsTheLock, Migrations!Nothing
<1>8. KeepsItsPlace(r)' /\ EarlierAreDone(r)' /\ JournalAsRead(r)'
  BY <1>2, <1>6 DEF KeepsItsPlace, EarlierAreDone, JournalAsRead
<1>9. Whole(r)'
  BY <1>6, ProcessFacts DEF Whole
<1> QED
  BY <1>2, <1>3, <1>4, <1>5, <1>7, <1>8, <1>9, OneGoes DEF ProcessInv

\* The journal is read, and the first place has nothing before it.
LEMMA ReadJournalKeeps ==
    ASSUME MigrationsInv, NEW r \in Runner, Migrations!ReadJournal(r)
    PROVE  MigrationsInv'
<1>1. /\ pc[r] = "journal" /\ pc' = [pc EXCEPT ![r] = "visit"]
      /\ applied' = [applied EXCEPT ![r] = Migrations!Sees(r)]
      /\ UNCHANGED <<mode, ran, journaled, lock, pending, crashes>>
  BY DEF Migrations!ReadJournal, Migrations!database
<1>2. PICK s \in Migrations!Selections : todo' = [todo EXCEPT ![r] = Migrations!Start(s)]
  BY DEF Migrations!ReadJournal
<1> DEFINE p == Migrations!Start(s)
<1>3. /\ Migrations!IsPlace(p)
      /\ ~Migrations!Over(p) => Migrations!Item(p)[2] = 1
  BY StartIsPlace
<1> HIDE DEF p
<1>4. /\ pc' \in [Runner -> {"off", "journal", "visit", "insert", "done", "failed"}]
      /\ applied' \in [Runner -> SUBSET Migrations!Migration]
      /\ pc'[r] = "visit" /\ applied'[r] = Migrations!Sees(r) /\ todo'[r] = p /\ DOMAIN todo' = Runner
      /\ \A q \in Runner : q # r =>
            pc'[q] = pc[q] /\ applied'[q] = applied[q] /\ todo'[q] = todo[q]
  <2>1. Migrations!Sees(r) \subseteq Migrations!Migration
    BY ProcessFacts DEF Migrations!Sees
  <2> QED
    BY <1>1, <1>2, <2>1, ProcessFacts DEF p
<1>5. Migrations!TypeOK'
  BY <1>1, <1>3, <1>4, ProcessFacts DEF Migrations!TypeOK
<1>6. Migrations!JournaledWasRun'
  BY <1>1 DEF MigrationsInv, Migrations!JournaledWasRun
<1>7. OthersStay(r)
  BY <1>1, <1>4 DEF OthersStay
<1>8. /\ Busy(r)' /\ Visiting(r)' /\ Busy(r)
      /\ Migrations!Sees(r)' = Migrations!Sees(r) /\ RanFor(r)' = RanFor(r)
  BY <1>1, <1>4 DEF Busy, Visiting, Migrations!Sees, RanFor
<1>9. HoldsTheLock(r)'
  BY <1>1, <1>4, <1>8, ProcessFacts DEF HoldsTheLock, Migrations!Nothing
<1>10. KeepsItsPlace(r)' /\ JournalAsRead(r)'
  BY <1>3, <1>4, <1>8 DEF KeepsItsPlace, JournalAsRead
<1>11. EarlierAreDone(r)'
  BY <1>3, <1>4 DEF EarlierAreDone
<1>12. Whole(r)'
  BY <1>8, ProcessFacts DEF Whole
<1> QED
  BY <1>4, <1>5, <1>6, <1>7, <1>9, <1>10, <1>11, <1>12, OneGoes DEF ProcessInv

\* What a process knows of a place it has come to.
LEMMA PlaceFacts ==
    ASSUME MigrationsInv, NEW r \in Runner, Visiting(r), ~Migrations!Over(todo[r])
    PROVE  /\ Migrations!IsPlace(todo[r]) /\ Migrations!IsPlace(Migrations!Past(todo[r]))
           /\ Migrations!Item(todo[r]) \in Migrations!Migration
           /\ Ahead(todo[r], Migrations!Item(todo[r]))
           /\ ~Ahead(Migrations!Past(todo[r]), Migrations!Item(todo[r]))
           /\ \A m \in Migrations!Migration :
                 Ahead(Migrations!Past(todo[r]), m) => Ahead(todo[r], m)
<1>1. Migrations!IsPlace(todo[r])
  BY ProcessFacts DEF KeepsItsPlace
<1> QED
  BY <1>1, PastIsPlace

\* When the migration of a place is done, with all the earlier ones of its block, they are done
\* for the place after it.
LEMMA NextPlace ==
    ASSUME NEW p, Migrations!IsPlace(p), ~Migrations!Over(p), NEW done,
           Migrations!Item(p) \in done,
           \A n \in 1 .. Migrations!Item(p)[2] - 1 : <<Migrations!Item(p)[1], n>> \in done,
           ~Migrations!Over(Migrations!Past(p))
    PROVE  \A n \in 1 .. Migrations!Item(Migrations!Past(p))[2] - 1 :
              <<Migrations!Item(Migrations!Past(p))[1], n>> \in done
<1> DEFINE item == Migrations!Item(p)
           next == Migrations!Item(Migrations!Past(p))
<1>1. next[2] = 1 \/ next = <<item[1], item[2] + 1>>
  BY PastIsPlace
<1>2. item \in Migrations!Migration
  BY PastIsPlace
<1>3. item = <<item[1], item[2]>> /\ item[2] \in Nat
  BY <1>2 DEF Migrations!Migration
<1> HIDE DEF item, next
<1>4. \A n \in 1 .. item[2] - 1 : <<item[1], n>> \in done
  BY DEF item
<1>5. item \in done
  BY DEF item
<1>6. \A n \in 1 .. next[2] - 1 : <<next[1], n>> \in done
  <2>1. CASE next[2] = 1
    <3>1. \A n \in 1 .. 1 - 1 : FALSE
      OBVIOUS
    <3> QED
      BY <2>1, <3>1
  <2>2. CASE next = <<item[1], item[2] + 1>>
    <3> SUFFICES ASSUME NEW n \in 1 .. next[2] - 1 PROVE <<next[1], n>> \in done
      OBVIOUS
    <3>1. next[1] = item[1] /\ next[2] = item[2] + 1
      BY <2>2
    <3>2. n \in 1 .. item[2] - 1 \/ n = item[2]
      BY <1>3, <3>1
    <3> QED
      BY <1>3, <1>4, <1>5, <3>1, <3>2
  <2> QED
    BY <1>1, <2>1, <2>2
<1> QED
  BY <1>6 DEF next

LEMMA SkipKeeps ==
    ASSUME MigrationsInv, NEW r \in Runner, Migrations!Skip(r)
    PROVE  MigrationsInv'
<1> DEFINE p == Migrations!Past(todo[r])
           item == Migrations!Item(todo[r])
<1>1. /\ pc[r] = "visit" /\ ~Migrations!Over(todo[r]) /\ item \in applied[r]
      /\ todo' = [todo EXCEPT ![r] = p]
      /\ UNCHANGED <<mode, ran, journaled, lock, pc, applied, pending, crashes>>
  BY DEF Migrations!Skip, Migrations!database
<1>2. /\ Visiting(r) /\ Busy(r) /\ Visiting(r)' /\ Busy(r)'
      /\ Migrations!Sees(r)' = Migrations!Sees(r) /\ RanFor(r)' = RanFor(r)
  BY <1>1 DEF Busy, Visiting, Migrations!Sees, RanFor
<1>3. /\ Migrations!IsPlace(todo[r]) /\ Migrations!IsPlace(p) /\ item \in Migrations!Migration
      /\ \A m \in Migrations!Migration : Ahead(p, m) => Ahead(todo[r], m)
  BY <1>1, <1>2, PlaceFacts
<1>4. Migrations!Sees(r) \subseteq Migrations!Migration
  BY ProcessFacts DEF Migrations!Sees
<1>5. DOMAIN todo' = Runner /\ todo'[r] = p /\ \A q \in Runner : q # r => todo'[q] = todo[q]
  BY <1>1, ProcessFacts
<1>6. Migrations!TypeOK'
  BY <1>1, <1>3, <1>5, ProcessFacts DEF Migrations!TypeOK
<1>7. Migrations!JournaledWasRun'
  BY <1>1 DEF MigrationsInv, Migrations!JournaledWasRun
<1>8. OthersStay(r)
  BY <1>1, <1>5 DEF OthersStay
<1>9. HoldsTheLock(r)'
  BY <1>1, <1>2, ProcessFacts DEF HoldsTheLock, Migrations!Nothing
<1>10. KeepsItsPlace(r)'
  BY <1>1, <1>3, <1>5 DEF KeepsItsPlace
<1>11. JournalAsRead(r)'
  <2>1. applied[r] \subseteq Migrations!Sees(r)
    BY <1>2, ProcessFacts DEF JournalAsRead
  <2>2. mode = "bun" => \A m \in Migrations!Sees(r) : Ahead(todo[r], m) => m \in applied[r]
    BY <1>2, ProcessFacts DEF JournalAsRead
  <2>3. mode = "bun" => \A m \in Migrations!Sees(r) : Ahead(p, m) => m \in applied[r]
    BY <1>3, <1>4, <2>2
  <2> HIDE DEF p
  <2> QED
    BY <1>1, <1>2, <1>5, <2>1, <2>3 DEF JournalAsRead
<1>12. EarlierAreDone(r)'
  <2> SUFFICES ASSUME ~Migrations!Over(p)
               PROVE  \A n \in 1 .. Migrations!Item(p)[2] - 1 :
                         <<Migrations!Item(p)[1], n>> \in RanFor(r) \cap Migrations!Sees(r)
    BY <1>1, <1>2, <1>5 DEF EarlierAreDone
  <2>1. \A n \in 1 .. item[2] - 1 : <<item[1], n>> \in RanFor(r) \cap Migrations!Sees(r)
    BY <1>1, <1>2, ProcessFacts DEF EarlierAreDone
  <2>2. item \in RanFor(r) \cap Migrations!Sees(r)
    <3>1. item \in Migrations!Sees(r)
      BY <1>1, <1>2, ProcessFacts DEF JournalAsRead
    <3>2. item = <<item[1], item[2]>> /\ item[2] \in Nat \ {0}
      <4>1. item \in Block \X Nat /\ item[2] \in 1 .. Count[item[1]]
        BY <1>3 DEF Migrations!Migration
      <4> HIDE DEF item
      <4> QED
        BY <4>1
    <3> HIDE DEF item
    <3>3. item[2] \in 1 .. item[2]
      BY <3>2
    <3> QED
      BY <3>1, <3>2, <3>3, ProcessFacts DEF Whole
  <2> QED
    BY <1>1, <1>3, <2>1, <2>2, NextPlace
<1>13. Whole(r)'
  BY <1>2, ProcessFacts DEF Whole
<1> QED
  BY <1>1, <1>6, <1>7, <1>8, <1>9, <1>10, <1>11, <1>12, <1>13, OneGoes, ProcessFacts DEF ProcessInv

\* A statement adds to what the process sees; its commit comes at once or with its transaction.
Adds(r, done, journal) ==
    /\ pending' \in [Runner -> [ran: SUBSET Migrations!Migration,
                                journaled: SUBSET Migrations!Migration]]
    /\ ran' \subseteq Migrations!Migration /\ journaled' \subseteq Migrations!Migration
    /\ ran \subseteq ran' /\ journaled \subseteq journaled'
    /\ \A q \in Runner : q # r => pending'[q] = pending[q]
    /\ Migrations!Sees(r)' = Migrations!Sees(r) \cup journal
    /\ RanFor(r)' = RanFor(r) \cup done
    /\ mode = "bun" =>
          /\ UNCHANGED <<ran, journaled>>
          /\ pending'[r].ran = pending[r].ran \cup done
          /\ pending'[r].journaled = pending[r].journaled \cup journal
    /\ mode = "pool" =>
          pending' = pending /\ ran' = ran \cup done /\ journaled' = journaled \cup journal

LEMMA WriteAdds ==
    ASSUME MigrationsInv, NEW r \in Runner,
           NEW what \in [ran: SUBSET Migrations!Migration, journaled: SUBSET Migrations!Migration],
           Migrations!Write(r, what)
    PROVE  Adds(r, what.ran, what.journaled)
<1>1. /\ what.ran \subseteq Migrations!Migration /\ what.journaled \subseteq Migrations!Migration
  OBVIOUS
<1>2. CASE mode = "bun"
  <2> DEFINE new == [ran |-> pending[r].ran \cup what.ran,
                     journaled |-> pending[r].journaled \cup what.journaled]
  <2>1. pending' = [pending EXCEPT ![r] = new] /\ UNCHANGED <<ran, journaled>>
    BY <1>2 DEF Migrations!Write, Migrations!database
  <2>2. new \in [ran: SUBSET Migrations!Migration, journaled: SUBSET Migrations!Migration]
    BY <1>1, ProcessFacts
  <2>3. new.ran = pending[r].ran \cup what.ran /\ new.journaled = pending[r].journaled \cup what.journaled
    OBVIOUS
  <2> HIDE DEF new
  <2>4. pending'[r] = new /\ \A q \in Runner : q # r => pending'[q] = pending[q]
    BY <2>1, ProcessFacts
  <2>5. pending' \in [Runner -> [ran: SUBSET Migrations!Migration,
                                 journaled: SUBSET Migrations!Migration]]
    BY <2>1, <2>2, ProcessFacts
  <2>6. /\ Migrations!Sees(r)' = Migrations!Sees(r) \cup what.journaled
        /\ RanFor(r)' = RanFor(r) \cup what.ran
    BY <2>1, <2>3, <2>4 DEF Migrations!Sees, RanFor
  <2> QED
    BY <1>2, <2>1, <2>3, <2>4, <2>5, <2>6, ProcessFacts DEF Adds
<1>3. CASE mode = "pool"
  <2>1. pending' = pending /\ ran' = ran \cup what.ran /\ journaled' = journaled \cup what.journaled
    BY <1>3 DEF Migrations!Write
  <2>2. /\ Migrations!Sees(r)' = Migrations!Sees(r) \cup what.journaled
        /\ RanFor(r)' = RanFor(r) \cup what.ran
    BY <2>1 DEF Migrations!Sees, RanFor
  <2> QED
    BY <1>1, <1>3, <2>1, <2>2, ProcessFacts DEF Adds
<1> QED
  BY <1>2, <1>3, ProcessFacts

LEMMA RunSqlKeeps ==
    ASSUME MigrationsInv, NEW r \in Runner, Migrations!RunSql(r)
    PROVE  MigrationsInv'
<1> DEFINE item == Migrations!Item(todo[r])
<1>1. /\ pc[r] = "visit" /\ ~Migrations!Over(todo[r]) /\ item \notin applied[r]
      /\ Migrations!Write(r, [ran |-> {item}, journaled |-> {}])
      /\ pc' = [pc EXCEPT ![r] = "insert"]
      /\ UNCHANGED <<mode, lock, applied, todo, crashes>>
  BY DEF Migrations!RunSql, Migrations!First
<1>2. Visiting(r) /\ Busy(r)
  BY <1>1 DEF Busy, Visiting
<1>3. Migrations!IsPlace(todo[r]) /\ item \in Migrations!Migration
  BY <1>1, <1>2, PlaceFacts
<1>4. [ran |-> {item}, journaled |-> {}]
          \in [ran: SUBSET Migrations!Migration, journaled: SUBSET Migrations!Migration]
  BY <1>3
<1>5. PICK what \in [ran: SUBSET Migrations!Migration, journaled: SUBSET Migrations!Migration] :
          Migrations!Write(r, what) /\ what.ran = {item} /\ what.journaled = {}
  BY <1>1, <1>4
<1>6. /\ pending' \in [Runner -> [ran: SUBSET Migrations!Migration,
                                  journaled: SUBSET Migrations!Migration]]
      /\ ran' \subseteq Migrations!Migration /\ journaled' \subseteq Migrations!Migration
      /\ ran \subseteq ran' /\ journaled \subseteq journaled'
      /\ \A q \in Runner : q # r => pending'[q] = pending[q]
      /\ Migrations!Sees(r)' = Migrations!Sees(r) /\ RanFor(r)' = RanFor(r) \cup {item}
      /\ mode = "bun" =>
            /\ UNCHANGED <<ran, journaled>>
            /\ pending'[r].ran = pending[r].ran \cup {item}
            /\ pending'[r].journaled = pending[r].journaled
      /\ mode = "pool" => pending' = pending /\ journaled' = journaled
  <2>1. Adds(r, what.ran, what.journaled)
    BY <1>5, WriteAdds
  <2>2. Adds(r, {item}, {})
    BY <1>5, <2>1
  <2> QED
    BY <2>2 DEF Adds
<1>7. /\ pc' \in [Runner -> {"off", "journal", "visit", "insert", "done", "failed"}]
      /\ pc'[r] = "insert" /\ \A q \in Runner : q # r => pc'[q] = pc[q]
      /\ Visiting(r)' /\ Busy(r)'
  <2>1. /\ pc' \in [Runner -> {"off", "journal", "visit", "insert", "done", "failed"}]
        /\ pc'[r] = "insert" /\ \A q \in Runner : q # r => pc'[q] = pc[q]
    BY <1>1, ProcessFacts
  <2> QED
    BY <2>1 DEF Busy, Visiting
<1>8. Migrations!TypeOK'
  BY <1>1, <1>6, <1>7, ProcessFacts DEF Migrations!TypeOK
<1>9. Migrations!JournaledWasRun'
  BY <1>1, <1>6, ProcessFacts DEF MigrationsInv, Migrations!JournaledWasRun
<1>10. OthersStay(r)
  BY <1>1, <1>6, <1>7 DEF OthersStay
<1>11. HoldsTheLock(r)'
  BY <1>1, <1>2, <1>6, <1>7, ProcessFacts DEF HoldsTheLock, Migrations!Nothing
<1>12. KeepsItsPlace(r)'
  BY <1>1, <1>3 DEF KeepsItsPlace
<1>13. JournalAsRead(r)'
  BY <1>1, <1>2, <1>6, ProcessFacts DEF JournalAsRead
<1>14. EarlierAreDone(r)'
  <2>1. \A n \in 1 .. item[2] - 1 : <<item[1], n>> \in RanFor(r) \cap Migrations!Sees(r)
    BY <1>1, <1>2, ProcessFacts DEF EarlierAreDone
  <2>2. todo'[r] = todo[r] /\ item \in RanFor(r)'
    BY <1>1, <1>6
  <2>4. Migrations!Item(todo'[r]) = item
    BY <2>2
  <2> HIDE DEF item
  <2>3. \A n \in 1 .. item[2] - 1 : <<item[1], n>> \in RanFor(r)' \cap Migrations!Sees(r)'
    BY <1>6, <2>1
  <2> QED
    BY <2>2, <2>3, <2>4 DEF EarlierAreDone
<1>15. Whole(r)'
  <2>1. Whole(r)
    BY ProcessFacts
  <2>2. Migrations!Sees(r)' = Migrations!Sees(r) /\ RanFor(r) \subseteq RanFor(r)'
    BY <1>6
  <2>3. ASSUME NEW m \in Migrations!Sees(r), NEW n \in 1 .. m[2]
        PROVE  <<m[1], n>> \in RanFor(r)' \cap Migrations!Sees(r)
    <3>1. <<m[1], n>> \in RanFor(r) \cap Migrations!Sees(r)
      BY <2>1 DEF Whole
    <3> QED
      BY <2>2, <3>1
  <2> QED
    BY <2>2, <2>3 DEF Whole
<1> QED
  BY <1>7, <1>8, <1>9, <1>10, <1>11, <1>12, <1>13, <1>14, <1>15, OneGoes DEF ProcessInv

LEMMA InsertJournalKeeps ==
    ASSUME MigrationsInv, NEW r \in Runner, Migrations!InsertJournal(r)
    PROVE  MigrationsInv'
<1> DEFINE p == Migrations!Past(todo[r])
           item == Migrations!Item(todo[r])
<1>1. /\ pc[r] = "insert" /\ item \notin Migrations!Sees(r)
      /\ Migrations!Write(r, [ran |-> {}, journaled |-> {item}])
      /\ pc' = [pc EXCEPT ![r] = "visit"]
      /\ todo' = [todo EXCEPT ![r] = p]
      /\ UNCHANGED <<mode, lock, applied, crashes>>
  BY DEF Migrations!InsertJournal
<1>2. Visiting(r) /\ Busy(r) /\ ~Migrations!Over(todo[r])
  BY <1>1, ProcessFacts DEF Busy, Visiting, KeepsItsPlace
<1>3. /\ Migrations!IsPlace(todo[r]) /\ Migrations!IsPlace(p) /\ item \in Migrations!Migration
      /\ ~Ahead(p, item)
      /\ \A m \in Migrations!Migration : Ahead(p, m) => Ahead(todo[r], m)
  BY <1>2, PlaceFacts
<1>4. [ran |-> {}, journaled |-> {item}]
          \in [ran: SUBSET Migrations!Migration, journaled: SUBSET Migrations!Migration]
  BY <1>3
<1>5. PICK what \in [ran: SUBSET Migrations!Migration, journaled: SUBSET Migrations!Migration] :
          Migrations!Write(r, what) /\ what.ran = {} /\ what.journaled = {item}
  BY <1>1, <1>4
<1>6. /\ pending' \in [Runner -> [ran: SUBSET Migrations!Migration,
                                  journaled: SUBSET Migrations!Migration]]
      /\ ran' \subseteq Migrations!Migration /\ journaled' \subseteq Migrations!Migration
      /\ ran \subseteq ran' /\ journaled \subseteq journaled'
      /\ \A q \in Runner : q # r => pending'[q] = pending[q]
      /\ Migrations!Sees(r)' = Migrations!Sees(r) \cup {item} /\ RanFor(r)' = RanFor(r)
      /\ mode = "bun" =>
            /\ UNCHANGED <<ran, journaled>>
            /\ pending'[r].ran = pending[r].ran
            /\ pending'[r].journaled = pending[r].journaled \cup {item}
      /\ mode = "pool" => pending' = pending /\ ran' = ran /\ journaled' = journaled \cup {item}
  <2>1. Adds(r, what.ran, what.journaled)
    BY <1>5, WriteAdds
  <2>2. Adds(r, {}, {item})
    BY <1>5, <2>1
  <2> QED
    BY <2>2 DEF Adds
<1>7. /\ pc' \in [Runner -> {"off", "journal", "visit", "insert", "done", "failed"}]
      /\ pc'[r] = "visit" /\ \A q \in Runner : q # r => pc'[q] = pc[q]
      /\ DOMAIN todo' = Runner /\ todo'[r] = p /\ \A q \in Runner : q # r => todo'[q] = todo[q]
      /\ Visiting(r)' /\ Busy(r)'
  <2>1. /\ pc' \in [Runner -> {"off", "journal", "visit", "insert", "done", "failed"}]
        /\ pc'[r] = "visit" /\ \A q \in Runner : q # r => pc'[q] = pc[q]
        /\ DOMAIN todo' = Runner /\ todo'[r] = p /\ \A q \in Runner : q # r => todo'[q] = todo[q]
    BY <1>1, ProcessFacts
  <2> QED
    BY <2>1 DEF Busy, Visiting
<1>8. Migrations!TypeOK'
  BY <1>1, <1>3, <1>6, <1>7, ProcessFacts DEF Migrations!TypeOK
<1>9. /\ item \in RanFor(r)
      /\ \A n \in 1 .. item[2] - 1 : <<item[1], n>> \in RanFor(r) \cap Migrations!Sees(r)
  BY <1>1, <1>2, ProcessFacts DEF EarlierAreDone
<1>10. \A n \in 1 .. item[2] : <<item[1], n>> \in RanFor(r) \cap (Migrations!Sees(r) \cup {item})
  <2>1. item \in Block \X Nat
    BY <1>3 DEF Migrations!Migration
  <2> HIDE DEF item
  <2>2. item = <<item[1], item[2]>> /\ item[2] \in Nat
    BY <2>1
  <2> SUFFICES ASSUME NEW n \in 1 .. item[2]
               PROVE  <<item[1], n>> \in RanFor(r) \cap (Migrations!Sees(r) \cup {item})
    OBVIOUS
  <2>3. n \in 1 .. item[2] - 1 \/ n = item[2]
    BY <2>2
  <2> QED
    BY <1>9, <2>2, <2>3
<1>11. \A m \in Migrations!Sees(r) \cup {item} : \A n \in 1 .. m[2] :
          <<m[1], n>> \in RanFor(r) \cap (Migrations!Sees(r) \cup {item})
  <2>1. \A m \in Migrations!Sees(r) : \A n \in 1 .. m[2] :
            <<m[1], n>> \in RanFor(r) \cap Migrations!Sees(r)
    BY ProcessFacts DEF Whole
  <2> HIDE DEF item
  <2> QED
    BY <1>10, <2>1
<1>12. Whole(r)'
  BY <1>6, <1>11 DEF Whole
<1>13. Migrations!JournaledWasRun'
  <2>1. CASE mode = "bun"
    BY <1>1, <1>6, <2>1 DEF MigrationsInv, Migrations!JournaledWasRun
  <2>2. CASE mode = "pool"
    <3>1. pending[r] = Migrations!Nothing
      BY <2>2, ProcessFacts DEF HoldsTheLock
    <3>2. Migrations!Sees(r) = journaled /\ RanFor(r) = ran
      BY <3>1 DEF Migrations!Sees, RanFor, Migrations!Nothing
    <3> HIDE DEF item
    <3> QED
      BY <1>1, <1>6, <1>11, <2>2, <3>2 DEF Migrations!JournaledWasRun
  <2> QED
    BY <2>1, <2>2, ProcessFacts
<1>14. OthersStay(r)
  <2>1. mode = "bun" => lock = r
    BY <1>2, ProcessFacts DEF HoldsTheLock
  <2> QED
    BY <1>1, <1>6, <1>7, <2>1 DEF OthersStay
<1>15. HoldsTheLock(r)'
  BY <1>1, <1>2, <1>6, <1>7, ProcessFacts DEF HoldsTheLock, Migrations!Nothing
<1>16. KeepsItsPlace(r)'
  BY <1>3, <1>7 DEF KeepsItsPlace
<1>17. JournalAsRead(r)'
  <2>1. /\ applied[r] \subseteq Migrations!Sees(r)
        /\ mode = "bun" => \A m \in Migrations!Sees(r) : Ahead(todo[r], m) => m \in applied[r]
    BY <1>2, ProcessFacts DEF JournalAsRead
  <2>2. Migrations!Sees(r) \subseteq Migrations!Migration
    BY ProcessFacts DEF Migrations!Sees
  <2> HIDE DEF p, item
  <2>3. mode = "bun" => \A m \in Migrations!Sees(r) \cup {item} : Ahead(p, m) => m \in applied[r]
    BY <1>3, <2>1, <2>2
  <2> QED
    BY <1>1, <1>6, <1>7, <2>1, <2>3 DEF JournalAsRead
<1>18. EarlierAreDone(r)'
  <2> SUFFICES ASSUME ~Migrations!Over(p)
               PROVE  \A n \in 1 .. Migrations!Item(p)[2] - 1 :
                         <<Migrations!Item(p)[1], n>> \in RanFor(r)' \cap Migrations!Sees(r)'
    BY <1>7 DEF EarlierAreDone
  <2>1. /\ item \in RanFor(r) \cap (Migrations!Sees(r) \cup {item})
        /\ \A n \in 1 .. item[2] - 1 :
              <<item[1], n>> \in RanFor(r) \cap (Migrations!Sees(r) \cup {item})
    BY <1>9
  <2> QED
    BY <1>2, <1>3, <1>6, <2>1, NextPlace
<1> QED
  BY <1>7, <1>8, <1>12, <1>13, <1>14, <1>15, <1>16, <1>17, <1>18, OneGoes DEF ProcessInv

\* A run ends with what its transaction wrote, or without it; a migration that was run and not
\* journaled is never committed so by a Bun runner.
LEMMA EndKeeps ==
    ASSUME MigrationsInv, NEW r \in Runner, Busy(r), NEW how \in {"off", "done", "failed"},
           NEW commit \in BOOLEAN, Migrations!End(r, how, commit), commit => pc[r] # "insert",
           mode' = mode, crashes' \in 0 .. MaxCrash, mode = "bun" => how # "failed"
    PROVE  MigrationsInv'
<1>1. /\ pc' = [pc EXCEPT ![r] = how] /\ lock' = (IF lock = r THEN None ELSE lock)
      /\ ran' = IF commit THEN ran \cup pending[r].ran ELSE ran
      /\ journaled' = IF commit THEN journaled \cup pending[r].journaled ELSE journaled
      /\ pending' = [pending EXCEPT ![r] = Migrations!Nothing]
      /\ applied' = [applied EXCEPT ![r] = {}] /\ todo' = [todo EXCEPT ![r] = None]
  BY DEF Migrations!End, Migrations!Unlocked
<1>2. /\ pc' \in [Runner -> {"off", "journal", "visit", "insert", "done", "failed"}]
      /\ applied' \in [Runner -> SUBSET Migrations!Migration] /\ DOMAIN todo' = Runner
      /\ pc'[r] = how /\ pending'[r] = Migrations!Nothing /\ todo'[r] = None
      /\ \A q \in Runner : q # r =>
            pc'[q] = pc[q] /\ applied'[q] = applied[q] /\ todo'[q] = todo[q] /\ pending'[q] = pending[q]
  BY <1>1, ProcessFacts
<1>3. pending' \in [Runner -> [ran: SUBSET Migrations!Migration,
                               journaled: SUBSET Migrations!Migration]]
  <2>1. Migrations!Nothing
          \in [ran: SUBSET Migrations!Migration, journaled: SUBSET Migrations!Migration]
    BY DEF Migrations!Nothing
  <2> QED
    BY <1>1, <2>1, ProcessFacts
<1>4. /\ ran \subseteq ran' /\ journaled \subseteq journaled'
      /\ ran' \subseteq Migrations!Migration /\ journaled' \subseteq Migrations!Migration
  BY <1>1, ProcessFacts
<1>5. Migrations!TypeOK'
  <2>1. lock' \in Runner \cup {None}
    BY <1>1, ProcessFacts
  <2> QED
    BY <1>2, <1>3, <1>4, <2>1, ProcessFacts DEF Migrations!TypeOK
<1>6. Migrations!JournaledWasRun'
  <2>1. CASE ~commit
    BY <1>1, <2>1 DEF MigrationsInv, Migrations!JournaledWasRun
  <2>2. CASE commit
    <3>1. ran' = RanFor(r) /\ journaled' = Migrations!Sees(r)
      BY <1>1, <2>2 DEF RanFor, Migrations!Sees
    <3>2. \A m \in journaled' : \A n \in 1 .. m[2] : <<m[1], n>> \in ran' \cap journaled'
      BY <3>1, ProcessFacts DEF Whole
    <3>3. mode = "bun" => ran' = journaled'
      <4>1. mode = "bun" => ran = journaled /\ pending[r].ran = pending[r].journaled
        BY <2>2, ProcessFacts DEF MigrationsInv, Migrations!JournaledWasRun, HoldsTheLock
      <4> QED
        BY <1>1, <2>2, <4>1
    <3> QED
      BY <3>2, <3>3 DEF Migrations!JournaledWasRun
  <2> QED
    BY <2>1, <2>2
<1>7. OthersStay(r)
  <2>1. mode = "bun" => lock = r
    BY ProcessFacts DEF HoldsTheLock
  <2> QED
    BY <1>2, <1>4, <2>1 DEF OthersStay
<1>8. ~Busy(r)' /\ ~Visiting(r)' /\ pc'[r] # "insert"
  BY <1>2 DEF Busy, Visiting
<1>9. HoldsTheLock(r)'
  BY <1>2, <1>8 DEF HoldsTheLock, Migrations!Nothing
<1>10. KeepsItsPlace(r)' /\ EarlierAreDone(r)' /\ JournalAsRead(r)'
  BY <1>8 DEF KeepsItsPlace, EarlierAreDone, JournalAsRead
<1>11. Whole(r)'
  <2>1. Migrations!Sees(r)' = journaled' /\ RanFor(r)' = ran'
    BY <1>2 DEF Migrations!Sees, RanFor, Migrations!Nothing
  <2> QED
    BY <1>6, <2>1 DEF Whole, Migrations!JournaledWasRun
<1> QED
  BY <1>2, <1>5, <1>6, <1>7, <1>9, <1>10, <1>11, OneGoes DEF ProcessInv

LEMMA MigrationsNext == MigrationsInv /\ [Migrations!Next]_miVars => MigrationsInv'
<1> SUFFICES ASSUME MigrationsInv, [Migrations!Next]_miVars PROVE MigrationsInv'
  OBVIOUS
<1>1. CASE UNCHANGED miVars
  <2>1. UNCHANGED <<mode, ran, journaled, lock, pc, applied, todo, pending, crashes>>
    BY <1>1 DEF miVars
  <2>2. Migrations!TypeOK' /\ Migrations!JournaledWasRun'
    BY <2>1 DEF MigrationsInv, Migrations!TypeOK, Migrations!JournaledWasRun
  <2>3. ASSUME NEW r \in Runner PROVE ProcessInv(r)'
    <3>1. Migrations!Sees(r)' = Migrations!Sees(r) /\ RanFor(r)' = RanFor(r)
      BY <2>1 DEF Migrations!Sees, RanFor
    <3>2. (Busy(r)' <=> Busy(r)) /\ (Visiting(r)' <=> Visiting(r))
      BY <2>1 DEF Busy, Visiting
    <3>3. HoldsTheLock(r)' /\ KeepsItsPlace(r)'
      BY <2>1, <3>2, ProcessFacts DEF HoldsTheLock, KeepsItsPlace, Migrations!Nothing
    <3>4. Whole(r)'
      BY <3>1, ProcessFacts DEF Whole
    <3>5. EarlierAreDone(r)'
      BY <2>1, <3>1, <3>2, ProcessFacts DEF EarlierAreDone
    <3>6. JournalAsRead(r)'
      BY <2>1, <3>1, <3>2, ProcessFacts DEF JournalAsRead
    <3> QED
      BY <2>1, <3>3, <3>4, <3>5, <3>6, ProcessFacts DEF ProcessInv
  <2> QED
    BY <2>2, <2>3 DEF MigrationsInv
<1>2. ASSUME NEW r \in Runner, Migrations!Step(r) PROVE MigrationsInv'
  <2>1. CASE Migrations!Begin(r)
    BY <2>1, BeginKeeps
  <2>2. CASE Migrations!ReadJournal(r)
    BY <2>2, ReadJournalKeeps
  <2>3. CASE Migrations!Skip(r)
    BY <2>3, SkipKeeps
  <2>4. CASE Migrations!RunSql(r)
    BY <2>4, RunSqlKeeps
  <2>5. CASE Migrations!InsertJournal(r)
    BY <2>5, InsertJournalKeeps
  <2>6. CASE Migrations!JournalTaken(r)
    <3>1. /\ pc[r] = "insert" /\ Migrations!Item(todo[r]) \in Migrations!Sees(r)
          /\ Migrations!End(r, "failed", FALSE) /\ UNCHANGED <<mode, crashes>>
      BY <2>6 DEF Migrations!JournalTaken
    <3>2. Busy(r) /\ Visiting(r) /\ ~Migrations!Over(todo[r])
      BY <3>1, ProcessFacts DEF Busy, Visiting, KeepsItsPlace
    <3>3. Ahead(todo[r], Migrations!Item(todo[r]))
      BY <3>2, PlaceFacts
    <3>4. mode # "bun"
      BY <3>1, <3>2, <3>3, ProcessFacts DEF JournalAsRead
    <3>5. crashes' \in 0 .. MaxCrash
      BY <3>1, ProcessFacts
    <3> QED
      BY <3>1, <3>2, <3>4, <3>5, EndKeeps
  <2>7. CASE Migrations!Finish(r)
    <3>1. pc[r] = "visit" /\ Migrations!End(r, "done", TRUE) /\ UNCHANGED <<mode, crashes>>
      BY <2>7 DEF Migrations!Finish
    <3>2. Busy(r) /\ crashes' \in 0 .. MaxCrash
      BY <3>1, ProcessFacts DEF Busy
    <3> QED
      BY <3>1, <3>2, EndKeeps
  <2> QED
    BY <1>2, <2>1, <2>2, <2>3, <2>4, <2>5, <2>6, <2>7 DEF Migrations!Step
<1>3. ASSUME NEW r \in Runner, Migrations!Crash(r) PROVE MigrationsInv'
  <2>1. /\ Busy(r) /\ crashes < MaxCrash /\ crashes' = crashes + 1
        /\ Migrations!End(r, "off", FALSE) /\ mode' = mode
    BY <1>3 DEF Migrations!Crash, Busy
  <2>2. crashes' \in 0 .. MaxCrash
    BY <2>1, ProcessFacts, OperationsAssumption
  <2> QED
    BY <2>1, <2>2, EndKeeps
<1>4. ASSUME NEW r \in Runner, Migrations!Again(r) PROVE MigrationsInv'
  BY <1>4, AgainKeeps
<1> QED
  BY <1>1, <1>2, <1>3, <1>4 DEF Migrations!Next

-------------------------------------------------------------------------------
(* The theorems.                                                              *)

\* The inductive invariant holds throughout every behaviour of the two modules.
THEOREM Invariant == Spec => []OperationsInv
<1>1. Init => OperationsInv
  BY DeliveriesInit, MigrationsInit DEF Init, OperationsInv
<1>2. OperationsInv /\ [Next]_vars => OperationsInv'
  <2> SUFFICES ASSUME OperationsInv, [Next]_vars PROVE OperationsInv'
    OBVIOUS
  <2>1. UNCHANGED part /\ [Deliveries!Next]_deVars /\ [Migrations!Next]_miVars
    BY DEF Next, vars
  <2> QED
    BY <2>1, DeliveriesNext, MigrationsNext DEF OperationsInv
<1> QED
  BY <1>1, <1>2, PTL DEF Spec

\* Every variable of the deliveries and of the migrations keeps its type.
THEOREM TypesAreCorrect == Spec => []TypesOK
<1>1. OperationsInv => TypesOK
  BY DEF OperationsInv, DeliveriesInv, MigrationsInv, TypesOK
<1> QED
  BY <1>1, Invariant, PTL

\* deliverToEndpoint and deliverLogoutToOne: a delivery that was given up is a dead letter until
\* the operator has handled it, unless its fan-out rejected or another endpoint of the event took
\* its key, however many receivers, attempts and replays there are.
THEOREM GivenUpIsRecorded == Spec => []FailuresRecorded
<1>1. OperationsInv => FailuresRecorded
  BY DEF OperationsInv, DeliveriesInv, FailuresRecorded
<1> QED
  BY <1>1, Invariant, PTL

\* runMigrations and runBunMigrations: whatever processes boot together and wherever they die, a
\* migration in the journal was run, after all the earlier ones of its block; what a Bun runner
\* commits is exactly what it journals, and none of them fails another.
THEOREM JournalIsTruthful == Spec => []JournaledWasRun
<1>1. MigrationsInv => Migrations!SerializedRunsSucceed
  BY DEF MigrationsInv, ProcessInv, Migrations!SerializedRunsSucceed
<1>2. OperationsInv => JournaledWasRun
  BY <1>1 DEF OperationsInv, MigrationsInv, JournaledWasRun
<1> QED
  BY <1>2, Invariant, PTL

===============================================================================

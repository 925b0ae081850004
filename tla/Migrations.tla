------------------------------ MODULE Migrations ------------------------------
(***************************************************************************)
(* The migration runner: processes that boot together bring one database   *)
(* up to date, block by block, and write each migration they ran into the  *)
(* journal.                                                                *)
(*                                                                         *)
(* runMigrations over a pool commits every statement on its own.           *)
(* runBunMigrations runs it in one transaction that holds an advisory      *)
(* lock.  A process may die anywhere.  The SQL of one migration is one     *)
(* query, hence atomic, and every statement of it may be run again.        *)
(***************************************************************************)
EXTENDS Naturals

CONSTANTS
    Runner,         \* booting processes
    None,
    Block,          \* blocks of tables
    Count,          \* how many migrations each block has
    MaxSelected,    \* bound of the blocks a process selects
    MaxCrash        \* bound of the crashes

VARIABLES
    mode,           \* "pool" or "bun"
    ran,            \* migrations whose SQL is committed
    journaled,      \* rows of auth_migrations
    lock,           \* holder of the advisory lock
    pc,             \* where each process is
    applied,        \* what it read from the journal
    todo,           \* the place it has come to in its migrations
    pending,        \* what its transaction has not committed yet
    crashes

database == <<ran, journaled>>
process == <<pc, applied, todo, pending>>
vars == <<mode, database, lock, process, crashes>>

Migration == {m \in Block \X Nat : m[2] \in 1 .. Count[m[1]]}
Nothing == [ran |-> {}, journaled |-> {}]

\* The blocks a process applies, each once and in its order, with their migrations: the place it
\* has come to, the migration there, and the next place.
Selections ==
    {s \in UNION {[1 .. n -> Block] : n \in 1 .. MaxSelected} :
         \A i, j \in DOMAIN s : s[i] = s[j] => i = j}
Start(blocks) == [blocks |-> blocks, at |-> 1, next |-> 1]
Over(p) == p.at \notin DOMAIN p.blocks
Item(p) == <<p.blocks[p.at], p.next>>
Past(p) ==
    IF p.next < Count[p.blocks[p.at]]
    THEN [p EXCEPT !.next = @ + 1] ELSE [p EXCEPT !.at = @ + 1, !.next = 1]
IsPlace(p) ==
    /\ p \in [blocks: Selections, at: Nat \ {0}, next: Nat \ {0}]
    /\ Over(p) \/ Item(p) \in Migration

TypeOK ==
    /\ mode \in {"pool", "bun"} /\ ran \subseteq Migration /\ journaled \subseteq Migration
    /\ lock \in Runner \cup {None}
    /\ pc \in [Runner -> {"off", "journal", "visit", "insert", "done", "failed"}]
    /\ applied \in [Runner -> SUBSET Migration]
    /\ DOMAIN todo = Runner /\ \A r \in Runner : todo[r] = None \/ IsPlace(todo[r])
    /\ pending \in [Runner -> [ran: SUBSET Migration, journaled: SUBSET Migration]]
    /\ crashes \in 0 .. MaxCrash

Init ==
    /\ mode \in {"pool", "bun"} /\ ran = {} /\ journaled = {} /\ lock = None
    /\ pc = [r \in Runner |-> "off"] /\ applied = [r \in Runner |-> {}]
    /\ todo = [r \in Runner |-> None] /\ pending = [r \in Runner |-> Nothing]
    /\ crashes = 0

-----------------------------------------------------------------------------
(* The transaction.                                                        *)

\* pg_advisory_xact_lock, with which a Bun runner begins; a pool takes no lock.
LockNone(r) == lock' = lock                           \* defect: the transactions do not wait
Lock(r) == IF mode = "bun" THEN lock = None /\ lock' = r ELSE lock' = lock

LockKept(r) == lock                                   \* defect: the lock outlives its transaction
Unlocked(r) == IF lock = r THEN None ELSE lock

\* What a process sees: what is committed and what it wrote itself.
Sees(r) == journaled \cup pending[r].journaled

\* A statement of the process, committed at once or with its transaction.
Write(r, what) ==
    IF mode = "bun"
    THEN /\ pending' = [pending EXCEPT ![r] = [ran |-> @.ran \cup what.ran,
                                               journaled |-> @.journaled \cup what.journaled]]
         /\ UNCHANGED database
    ELSE ran' = ran \cup what.ran /\ journaled' = journaled \cup what.journaled /\ UNCHANGED pending

\* The end of a run, by its end, an error or the death of the process.
End(r, how, commit) ==
    /\ pc' = [pc EXCEPT ![r] = how] /\ lock' = Unlocked(r)
    /\ ran' = IF commit THEN ran \cup pending[r].ran ELSE ran
    /\ journaled' = IF commit THEN journaled \cup pending[r].journaled ELSE journaled
    /\ pending' = [pending EXCEPT ![r] = Nothing]
    /\ applied' = [applied EXCEPT ![r] = {}] /\ todo' = [todo EXCEPT ![r] = None]

-----------------------------------------------------------------------------
(* One run.                                                                *)

\* The process begins its transaction, if it has one, and creates the journal if it is missing.
Begin(r) ==
    /\ pc[r] = "off" /\ Lock(r)
    /\ pc' = [pc EXCEPT ![r] = "journal"]
    /\ UNCHANGED <<mode, database, applied, todo, pending, crashes>>

ReadJournal(r) ==
    /\ pc[r] = "journal" /\ pc' = [pc EXCEPT ![r] = "visit"]
    /\ applied' = [applied EXCEPT ![r] = Sees(r)]
    /\ \E blocks \in Selections : todo' = [todo EXCEPT ![r] = Start(blocks)]
    /\ UNCHANGED <<mode, database, lock, pending, crashes>>

\* runOne: skip what the journal named when it was read.
Skip(r) ==
    /\ pc[r] = "visit" /\ ~Over(todo[r]) /\ Item(todo[r]) \in applied[r]
    /\ todo' = [todo EXCEPT ![r] = Past(@)]
    /\ UNCHANGED <<mode, database, lock, pc, applied, pending, crashes>>

\* applyOne runs the SQL and then journals it.
JournalFirst(m) == [ran |-> {}, journaled |-> {m}]    \* defect: the journal is written first
First(m) == [ran |-> {m}, journaled |-> {}]

RunSql(r) ==
    /\ pc[r] = "visit" /\ ~Over(todo[r]) /\ Item(todo[r]) \notin applied[r]
    /\ Write(r, First(Item(todo[r])))
    /\ pc' = [pc EXCEPT ![r] = "insert"]
    /\ UNCHANGED <<mode, lock, applied, todo, crashes>>

InsertJournal(r) ==
    /\ pc[r] = "insert" /\ Item(todo[r]) \notin Sees(r)
    /\ Write(r, [ran |-> {}, journaled |-> {Item(todo[r])}])
    /\ pc' = [pc EXCEPT ![r] = "visit"] /\ todo' = [todo EXCEPT ![r] = Past(@)]
    /\ UNCHANGED <<mode, lock, applied, crashes>>

\* The id is the journal's primary key: the slower of two processes throws.
JournalTaken(r) ==
    /\ pc[r] = "insert" /\ Item(todo[r]) \in Sees(r)
    /\ End(r, "failed", FALSE) /\ UNCHANGED <<mode, crashes>>

Finish(r) ==
    /\ pc[r] = "visit" /\ Over(todo[r])
    /\ End(r, "done", TRUE) /\ UNCHANGED <<mode, crashes>>

Crash(r) ==
    /\ pc[r] \in {"journal", "visit", "insert"} /\ crashes < MaxCrash
    /\ crashes' = crashes + 1 /\ End(r, "off", FALSE) /\ UNCHANGED mode

\* A process that failed, or a later deployment, runs them again.
Again(r) ==
    /\ pc[r] \in {"failed", "done"} /\ pc' = [pc EXCEPT ![r] = "off"]
    /\ UNCHANGED <<mode, database, lock, applied, todo, pending, crashes>>

Step(r) == \/ Begin(r) \/ ReadJournal(r) \/ Skip(r) \/ RunSql(r) \/ InsertJournal(r)
           \/ JournalTaken(r) \/ Finish(r)

Next == \E r \in Runner : Step(r) \/ Crash(r) \/ Again(r)

\* Statements of a connected process return, and Postgres grants a lock in the order it was asked.
Fairness == \A r \in Runner : WF_vars(Step(r)) /\ SF_vars(Begin(r))
Spec == Init /\ [][Next]_vars /\ Fairness

-----------------------------------------------------------------------------
(* Properties.                                                             *)

\* Whatever process died where, a migration in the journal was run, and after all earlier ones of
\* its block; a Bun runner's journal names exactly what was run (applyOne, runBunMigrations).
JournaledWasRun ==
    /\ \A m \in journaled : \A n \in 1 .. m[2] : <<m[1], n>> \in ran \cap journaled
    /\ mode = "bun" => ran = journaled

\* Bun runners never collide in the journal: none of them fails (the advisory lock of
\* runBunMigrations; two pools that boot together do collide).
SerializedRunsSucceed == mode = "bun" => \A r \in Runner : pc[r] # "failed"

\* A process that begins gets through, fails or dies: no lock that a dead or failed process held
\* keeps it waiting forever (runMigrations, runBunMigrations).
EveryRunEnds ==
    \A r \in Runner : pc[r] = "off" ~> pc[r] \in {"done", "failed"}

=============================================================================

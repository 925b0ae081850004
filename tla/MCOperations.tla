---------------------------- MODULE MCOperations ----------------------------
(* One run over what works behind the requests: deliveries to webhooks and   *)
(* logout endpoints, and the migrations.  A behaviour is one of one module;  *)
(* the variables of the other are off.                                       *)
EXTENDS Naturals, FiniteSets

CONSTANTS
    None, Receiver, Runner, Block,
    Count,          \* how many migrations each block has
    RetryAttempts,  \* retry.attempts of the webhooks, at least one
    MaxNotice, MaxFaults, MaxSelected, MaxCrash

ASSUME OperationsAssumption ==
    /\ Count \in [Block -> Nat \ {0}]
    /\ RetryAttempts \in Nat \ {0} /\ MaxNotice \in Nat /\ MaxFaults \in Nat
    /\ MaxSelected \in Nat /\ MaxCrash \in Nat
    /\ None \notin Runner

\* Two blocks of tables, one with a second migration.
CountAB == [b \in {"a", "b"} |-> IF b = "a" THEN 2 ELSE 1]

VARIABLES
    part,       \* which of the modules this behaviour is about
    channel, dlqStore, jobs, deadLetters, nextNotice, replaying, faults, thrown, handled,
    mode, ran, journaled, lock, pc, applied, todo, pending, crashes

deVars == <<channel, dlqStore, jobs, deadLetters, nextNotice, replaying, faults, thrown,
             handled>>
miVars == <<mode, ran, journaled, lock, pc, applied, todo, pending, crashes>>
vars == <<part, deVars, miVars>>

Deliveries == INSTANCE Deliveries WITH
    Channels <- {"webhook", "logout"}, Stores <- {"memory", "postgres"}
Migrations == INSTANCE Migrations

DeliveriesOff ==
    /\ channel = None /\ dlqStore = None
    /\ jobs = [n \in 1 .. MaxNotice |-> [c \in Receiver |-> Deliveries!NoJob]] /\ deadLetters = None
    /\ nextNotice = None /\ replaying = None /\ faults = None /\ thrown = None
    /\ handled = None
MigrationsOff ==
    /\ mode = None /\ ran = None /\ journaled = None /\ lock = None
    /\ pc = [r \in Runner |-> "done"] /\ applied = None /\ todo = None /\ pending = None
    /\ crashes = None

Init ==
    /\ part \in {"deliveries", "migrations"}
    /\ \/ part = "deliveries" /\ Deliveries!Init
       \/ part # "deliveries" /\ DeliveriesOff
    /\ \/ part = "migrations" /\ Migrations!Init
       \/ part # "migrations" /\ MigrationsOff

Next ==
    \/ /\ part = "deliveries" /\ Deliveries!Next
       /\ UNCHANGED <<part, miVars>>
    \/ /\ part = "migrations" /\ Migrations!Next
       /\ UNCHANGED <<part, deVars>>

\* Attempts and sleeps are bounded by timers; statements of a connected process return, and the
\* advisory lock is granted in the order it was asked for.
Fairness == Deliveries!Fairness /\ Migrations!Fairness
Spec == Init /\ [][Next]_vars /\ Fairness

-----------------------------------------------------------------------------
\* Every variable of the module in question stays within its type.
TypesOK ==
    /\ part = "deliveries" => Deliveries!TypeOK
    /\ part = "migrations" => Migrations!TypeOK

\* A delivery that was given up is a dead letter until it is handled, up to the exceptions of
\* the module (deliverToEndpoint, fanOutBackchannelLogout).
FailuresRecorded == part = "deliveries" => Deliveries!FailuresRecorded

\* A journaled migration was run, after the earlier ones of its block, whatever process died
\* where; processes that hold the advisory lock never fail each other (runMigrations,
\* runBunMigrations).
JournaledWasRun ==
    part = "migrations" => Migrations!JournaledWasRun /\ Migrations!SerializedRunsSucceed

\* Every delivery that is begun ends, delivered, recorded or dropped, and every process that boots
\* gets through its migrations or fails (the retry loop; the lock of runBunMigrations).
WorkEnds == Deliveries!DeliveriesSettle /\ Migrations!EveryRunEnds

=============================================================================

------------------------------- MODULE Deliveries -------------------------------
(***************************************************************************)
(* Notices to other systems: the webhooks of audit events                  *)
(* (webhooks/dispatcher.ts) and the back-channel logout of relying parties *)
(* (oidc/logout.ts).  A notice is tried at every receiver in parallel; a   *)
(* webhook is retried, a logout token is not, and a delivery given up goes *)
(* to a dead-letter store that the operator replays from.                  *)
(*                                                                         *)
(* A webhook's dead letter is keyed by its envelope, which every endpoint  *)
(* of the event shares; a logout's has an id of its own.  The in-memory    *)
(* store replaces an entry, the Postgres one refuses a second.  Signing,   *)
(* delays and payloads are left out.                                       *)
(***************************************************************************)
EXTENDS Naturals, FiniteSets

CONSTANTS
    Receiver,       \* webhook endpoints, or clients with a backchannelLogoutUri
    None,
    Channels,       \* subset of {"webhook", "logout"}
    Stores,         \* subset of {"memory", "postgres"}
    RetryAttempts,  \* retry.attempts
    MaxNotice,      \* bound on the notices sent
    MaxFaults       \* bound on hooks and stores that throw

VARIABLES
    channel,        \* configuration
    dlqStore,       \* configuration
    jobs,           \* notice -> receiver -> its delivery
    deadLetters,    \* the dead-letter store: [notice, receiver]
    nextNotice,
    replaying,      \* the dead letter the operator has read
    faults,
    thrown,         \* history: [notice, receiver] whose record a hook or the store threw away
    handled         \* history: [notice, receiver] the operator has removed

vars == <<channel, dlqStore, jobs, deadLetters, nextNotice, replaying, faults, thrown, handled>>

Notice == 1 .. MaxNotice
Letter == [notice : Notice, receiver : Receiver]
AttemptsOneMore == RetryAttempts + 1                    \* defect: one retry too many
Attempts == IF channel = "webhook" THEN RetryAttempts ELSE 1
Job == [pc : {"none", "try", "sleep", "hook", "record", "done", "given up", "dropped"},
        attempt : 0 .. RetryAttempts]
NoJob == [pc |-> "none", attempt |-> 0]

TypeOK ==
    /\ channel \in Channels /\ dlqStore \in Stores
    /\ jobs \in [Notice -> [Receiver -> Job]] /\ deadLetters \subseteq Letter
    /\ nextNotice \in 1 .. MaxNotice + 1 /\ replaying \in Letter \cup {None}
    /\ faults \in 0 .. MaxFaults /\ thrown \subseteq Letter /\ handled \subseteq Letter

Init ==
    /\ channel \in Channels /\ dlqStore \in Stores
    /\ jobs = [n \in Notice |-> [c \in Receiver |-> NoJob]] /\ deadLetters = {}
    /\ nextNotice = 1 /\ replaying = None /\ faults = 0 /\ thrown = {} /\ handled = {}

On(n, c, pc) == jobs' = [jobs EXCEPT ![n][c].pc = pc]
Throws(n, c) ==
    /\ faults < MaxFaults /\ faults' = faults + 1
    /\ thrown' = thrown \cup {[notice |-> n, receiver |-> c]}

\* dispatch starts the endpoints subscribed to the event; fanOutBackchannelLogout starts the
\* clients that hold refresh tokens of the user, without the one that began the logout.
Started(receivers) ==
    [c \in Receiver |-> IF c \in receivers THEN [pc |-> "try", attempt |-> 0] ELSE NoJob]
Dispatch ==
    /\ nextNotice \in Notice /\ nextNotice' = nextNotice + 1
    /\ \E receivers \in SUBSET Receiver :
         jobs' = [jobs EXCEPT ![nextNotice] = Started(receivers)]
    /\ UNCHANGED <<channel, dlqStore, deadLetters, replaying, faults, thrown, handled>>

\* attemptOnce and postLogoutToken: a 2xx, or an error or timeout; the last failure gives up.
RetriedForever(attempt) == attempt                       \* defect: the attempt is not counted
Retried(attempt) == attempt + 1
Attempt(n, c) ==
    LET attempt == Retried(jobs[n][c].attempt) IN
    /\ jobs[n][c].pc = "try"
    /\ \/ On(n, c, "done")
       \/ jobs' = [jobs EXCEPT ![n][c] =
                      [pc |-> IF attempt < Attempts THEN "sleep"
                              ELSE IF channel = "webhook" THEN "hook" ELSE "record",
                       attempt |-> attempt]]
    /\ UNCHANGED <<channel, dlqStore, deadLetters, nextNotice, replaying, faults, thrown, handled>>

Sleep(n, c) ==
    /\ jobs[n][c].pc = "sleep" /\ On(n, c, "try")
    /\ UNCHANGED <<channel, dlqStore, deadLetters, nextNotice, replaying, faults, thrown, handled>>

\* onDeliveryError comes before the record, and one that throws skips it.
CallErrorHook(n, c) ==
    /\ jobs[n][c].pc = "hook"
    /\ \/ On(n, c, "record") /\ UNCHANGED <<faults, thrown>>
       \/ On(n, c, "dropped") /\ Throws(n, c)
    /\ UNCHANGED <<channel, dlqStore, deadLetters, nextNotice, replaying, handled>>

\* recordFailure.  The onError hook of a logout comes after it: one that throws rejects the
\* fan-out and changes nothing here, as the letter is stored and the others go on.
SameKey(n, c) == {l \in deadLetters : l.notice = n /\ (channel = "logout" => l.receiver = c)}
RecordedAlone(n, c) == {[notice |-> n, receiver |-> c]}     \* defect: the store is replaced
Recorded(n, c) == (deadLetters \ SameKey(n, c)) \cup {[notice |-> n, receiver |-> c]}
RecordFailure(n, c) ==
    /\ jobs[n][c].pc = "record"
    /\ \/ /\ dlqStore = "postgres" /\ SameKey(n, c) # {}
          /\ On(n, c, "dropped") /\ UNCHANGED <<deadLetters, faults, thrown>>
       \/ /\ dlqStore = "postgres" => SameKey(n, c) = {}
          /\ \/ /\ On(n, c, "given up") /\ deadLetters' = Recorded(n, c)
                /\ UNCHANGED <<faults, thrown>>
             \/ On(n, c, "dropped") /\ Throws(n, c) /\ UNCHANGED deadLetters
    /\ UNCHANGED <<channel, dlqStore, nextNotice, replaying, handled>>

\* The operator lists a dead letter, replays it, and removes it by its key.
ListFailed ==
    /\ replaying = None /\ \E l \in deadLetters : replaying' = l
    /\ UNCHANGED <<channel, dlqStore, jobs, deadLetters, nextNotice, faults, thrown, handled>>
RemoveFailure ==
    /\ replaying # None /\ replaying' = None
    /\ deadLetters' = deadLetters \ SameKey(replaying.notice, replaying.receiver)
    /\ handled' = handled \cup {replaying}
    /\ UNCHANGED <<channel, dlqStore, jobs, nextNotice, faults, thrown>>

Step(n, c) == Attempt(n, c) \/ Sleep(n, c) \/ CallErrorHook(n, c) \/ RecordFailure(n, c)
Next ==
    \/ Dispatch \/ ListFailed \/ RemoveFailure
    \/ \E n \in Notice, c \in Receiver : Step(n, c)

\* Every attempt is bounded by AbortSignal.timeout and every sleep by its timer.
Fairness == \A n \in Notice, c \in Receiver : WF_vars(Step(n, c))
Spec == Init /\ [][Next]_vars /\ Fairness

-----------------------------------------------------------------------------
(* Properties.                                                             *)

GivenUp(n) == {c \in Receiver : jobs[n][c].pc \in {"given up", "dropped"}}

\* The key of the delivery has the letter of a delivery of the notice that was given up.
Kept(n, c) ==
    \E l \in deadLetters \cup handled :
        /\ l.notice = n /\ l.receiver \in GivenUp(n)
        /\ channel = "logout" => l.receiver = c

\* A delivery that was given up is in the dead-letter store, or was until the operator handled
\* it, unless its own hook or store call threw, whatever happened to the other receivers: a logout
\* under its own key, a webhook under that of its event, which may hold the letter of another
\* endpoint given up (deliverToEndpoint, deliverLogoutToOne).
FailuresRecorded ==
    \A n \in Notice : \A c \in GivenUp(n) :
        [notice |-> n, receiver |-> c] \in thrown \/ Kept(n, c)

\* Every delivery that is begun ends, delivered, recorded or dropped, whatever the other
\* receivers of the notice do (the retry loop, Promise.all).
DeliveriesSettle ==
    \A n \in Notice, c \in Receiver :
        jobs[n][c].pc = "try" ~> jobs[n][c].pc \in {"done", "given up", "dropped"}

=============================================================================

------------------------------- MODULE AuditChain -------------------------------
(***************************************************************************)
(* The tamper-evident audit log (audit/integrity.ts over the audit sinks): *)
(* the emitter appends each event with a link, the hash of the event and   *)
(* of the link before it, one chain per writer.                            *)
(*                                                                         *)
(* The sink seeds its chain, hashes and stores the row in awaited steps    *)
(* that other requests of the process, the retention job and a restart     *)
(* interleave with.  Events are numbered in the order of their `at`, which *)
(* is the order a verification is given them in; hashes do not collide, so *)
(* the hash of a link is its event, and Genesis stands for "".             *)
(***************************************************************************)
EXTENDS Naturals, FiniteSets

CONSTANTS
    Request,        \* slots for requests that emit events
    None,
    Writings,       \* subset of {"fresh", "scanned", "loaded"}: a writer per process, or a
                    \* stable one whose head is looked for in the log or loaded
    SeedScanLimit,  \* seedScanLimit
    MaxEvent        \* bound on the events emitted

VARIABLES
    writing,        \* configuration
    process,        \* the process: its writerId when that is fresh
    seeded,         \* seeded
    lastHash,       \* lastHash of the process
    log,            \* the rows the sink stores: [event, previous, writer]
    nextEvent,
    work,           \* appends between two steps
    altered,        \* history: a row was removed or changed behind the sink
    causes          \* history: what legally made a gap in a chain

vars == <<writing, process, seeded, lastHash, log, nextEvent, work, altered, causes>>
memory == <<process, seeded, lastHash>>

Genesis == 0
Event == 1 .. MaxEvent
Hash == Event \cup {Genesis}
Writer == 1 .. 2
Link == [event : Event, previous : Hash, writer : Writer, intact : BOOLEAN]
Work == [pc : {"seed", "hash", "store"}, event : Event, previous : Hash]
Cause == {"overlap", "failure", "scan", "retention"}

TypeOK ==
    /\ writing \in Writings /\ process \in Writer /\ seeded \in BOOLEAN /\ lastHash \in Hash
    /\ log \subseteq Link /\ nextEvent \in 1 .. MaxEvent + 1
    /\ work \in [Request -> Work \cup {None}]
    /\ altered \in BOOLEAN /\ causes \subseteq Cause

Init ==
    /\ writing \in Writings /\ process = 1 /\ seeded = FALSE /\ lastHash = Genesis
    /\ log = {} /\ nextEvent = 1 /\ work = [r \in Request |-> None]
    /\ altered = FALSE /\ causes = {}

WriterId == IF writing = "fresh" THEN process ELSE 1
At(r, pc) == work[r] # None /\ work[r].pc = pc
Busy == \E r \in Request : work[r] # None
Newest(rows) == CHOOSE l \in rows : \A m \in rows : m.event <= l.event

\* The rows list({limit}) returns, newest first.
Scanned == {l \in log : Cardinality({m \in log : m.event > l.event}) < SeedScanLimit}

-----------------------------------------------------------------------------
(* append.                                                                 *)

\* An emitted event reaches the sink; seeded is set before the head is awaited.
Emit(r) ==
    /\ work[r] = None /\ nextEvent \in Event /\ nextEvent' = nextEvent + 1
    /\ work' = [work EXCEPT ![r] = [pc |-> IF seeded THEN "hash" ELSE "seed",
                                    event |-> nextEvent, previous |-> Genesis]]
    /\ seeded' = TRUE
    /\ causes' = causes \cup IF Busy THEN {"overlap"} ELSE {}
    /\ UNCHANGED <<writing, process, lastHash, log, altered>>

\* seed: a fresh writer starts at genesis; a stable one resumes from its newest link.
HeadGenesis(rows) == Genesis                             \* defect: the chain is not resumed
Head(rows) ==
    LET own == {l \in rows : l.writer = WriterId} IN
    IF own = {} THEN Genesis ELSE Newest(own).event
Seed(r) ==
    /\ At(r, "seed") /\ work' = [work EXCEPT ![r].pc = "hash"]
    /\ lastHash' = CASE writing = "fresh"   -> Genesis
                     [] writing = "loaded"  -> Head(log)
                     [] writing = "scanned" -> Head(Scanned)
    /\ causes' = causes \cup IF lastHash' # Head(log) THEN {"scan"} ELSE {}
    /\ UNCHANGED <<writing, process, seeded, log, nextEvent, altered>>

\* The head is read, and replaced once hashAuditEvent has been awaited.
HashEvent(r) ==
    /\ At(r, "hash")
    /\ work' = [work EXCEPT ![r].pc = "store", ![r].previous = lastHash]
    /\ UNCHANGED <<writing, memory, log, nextEvent, altered, causes>>

Linked(r) == work[r].event
StoreEvent(r) ==
    /\ At(r, "store") /\ work' = [work EXCEPT ![r] = None] /\ lastHash' = Linked(r)
    /\ \/ /\ log' = log \cup {[event |-> work[r].event, previous |-> work[r].previous,
                              writer |-> WriterId, intact |-> TRUE]}
          /\ UNCHANGED causes
       \/ UNCHANGED log /\ causes' = causes \cup {"failure"}
    /\ UNCHANGED <<writing, process, seeded, nextEvent, altered>>

-----------------------------------------------------------------------------
(* Restarts, retention, and hands behind the sink.                         *)

Restart ==
    /\ process \in Writer /\ process + 1 \in Writer /\ process' = process + 1
    /\ seeded' = FALSE /\ lastHash' = Genesis
    /\ work' = [r \in Request |-> None]
    /\ UNCHANGED <<writing, log, nextEvent, altered, causes>>

\* prune deletes the rows older than the cutoff.
Prune ==
    /\ \E cutoff \in Event :
         /\ \E l \in log : l.event < cutoff
         /\ log' = {l \in log : l.event >= cutoff}
    /\ causes' = causes \cup {"retention"}
    /\ UNCHANGED <<writing, memory, nextEvent, work, altered>>

\* Someone who can write rows changes a stored event, or removes one that a later event of
\* its writer follows.
Tamper ==
    /\ ~altered /\ altered' = TRUE
    /\ \E l \in log :
         \/ /\ l.intact /\ log' = (log \ {l}) \cup {[l EXCEPT !.intact = FALSE]}
         \/ /\ \E m \in log : m.previous = l.event
            /\ log' = log \ {l}
    /\ UNCHANGED <<writing, memory, nextEvent, work, causes>>

Next ==
    \/ \E r \in Request : Emit(r) \/ Seed(r) \/ HashEvent(r) \/ StoreEvent(r)
    \/ Restart \/ Prune \/ Tamper

Spec == Init /\ [][Next]_vars

-----------------------------------------------------------------------------
(* verifyAuditChain and its properties.                                    *)

\* Each row follows the row of its writer that precedes it, the first one genesis, and hashes
\* to what was stored.
PrecedingAny(l) == l.previous                        \* defect: the link is not compared
Preceding(l) ==
    LET before == {m \in log : m.writer = l.writer /\ m.event < l.event} IN
    IF before = {} THEN Genesis ELSE Newest(before).event
VerifyAuditChain == \A l \in log : l.intact /\ l.previous = Preceding(l)

\* A log nobody tampered with verifies, whatever restarts and interleavings of other writers
\* it went through, unless appends of one process overlapped, an append failed after its
\* hash became the head, the seed scan did not reach the head, or retention removed rows:
\* the four ways the code itself breaks its chain (createTamperEvidentSink).
UntamperedVerifies == ~altered /\ causes = {} => VerifyAuditChain

\* A change to a stored event or the removal of one that has a successor never verifies,
\* until retention has removed what was tampered with (verifyAuditChain).
TamperingDetected == altered /\ "retention" \notin causes => ~VerifyAuditChain

=============================================================================

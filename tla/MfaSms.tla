-------------------------------- MODULE MfaSms --------------------------------
(***************************************************************************)
(* Codes by text message: the challenge record of one place, which is the  *)
(* setup of a phone in the enrollment row or one parked login in a scoped  *)
(* record.  Only a login counts its messages against a budget, and only a  *)
(* login ends in a session.  Both stores change the record by comparing    *)
(* what is stored (in Postgres under a condition or a compare-and-swap     *)
(* that is retried), so each operation of the store is one step.  Between  *)
(* them a request holds what it read.                                      *)
(*                                                                         *)
(* The code is kept as a hash and sent by the application, or started,     *)
(* sent and checked by a verification provider.                            *)
(***************************************************************************)
EXTENDS Naturals, FiniteSets

CONSTANTS
    Request,            \* slots for requests in flight together
    None,
    Senders,            \* subset of {"provider", "application"}
    SmsMaxAttempts,     \* smsMaxAttempts
    SmsSendMaxAttempts, \* smsSendMaxAttempts
    MaxChallenge        \* bound on the challenges claimed

VARIABLES
    sender, place,  \* configuration: who sends, and "setup" or "login"
    enrolled,       \* the phone of the login is still enrolled
    parked,         \* the login still waits
    sms,            \* the challenge record, None when absent
    nextChallenge,
    deliveries,     \* messages counted in this window
    work,           \* requests between two steps
    delivered,      \* history: challenges whose message went out
    guesses,        \* history: challenge -> codes tried
    restored,       \* history: challenge -> times a rollback brought it back
    completed       \* history: challenge -> times it was completed

vars == <<sender, place, enrolled, parked, sms, nextChallenge, deliveries, work,
          delivered, guesses, restored, completed>>
histories == <<delivered, guesses, restored, completed>>

Challenge == 1 .. MaxChallenge
Sms == [id : Challenge \cup {None}, ready : BOOLEAN, failed : 0 .. SmsMaxAttempts,
        cooled : BOOLEAN]
Work == [pc : {"budget", "claim", "start", "finalize", "deliver", "rollback", "check", "record",
               "complete", "enrolled", "promote"},
         challenge : Challenge \cup {None}, previous : Sms \cup {None}]
Tries == 0 .. (SmsMaxAttempts + Cardinality(Request)) * (MaxChallenge + 1)

TypeOK ==
    /\ sender \in Senders /\ place \in {"setup", "login"}
    /\ enrolled \in BOOLEAN /\ parked \in BOOLEAN /\ sms \in Sms \cup {None}
    /\ nextChallenge \in 1 .. MaxChallenge + 1 /\ deliveries \in 0 .. SmsSendMaxAttempts
    /\ work \in [Request -> Work \cup {None}]
    /\ delivered \subseteq Challenge
    /\ guesses \in [Challenge -> Tries] /\ restored \in [Challenge -> Tries]
    /\ completed \in [Challenge -> Tries]

Init ==
    /\ sender \in Senders /\ place \in {"setup", "login"}
    /\ enrolled = (place = "login") /\ parked = (place = "login") /\ sms = None
    /\ nextChallenge = 1 /\ deliveries = 0 /\ work = [r \in Request |-> None]
    /\ delivered = {} /\ guesses = [c \in Challenge |-> 0]
    /\ restored = [c \in Challenge |-> 0] /\ completed = [c \in Challenge |-> 0]

At(r, pc) == work[r] # None /\ work[r].pc = pc
Ends(r) == work' = [work EXCEPT ![r] = None]
On(r, pc) == work' = [work EXCEPT ![r].pc = pc]
Begins(r, pc, challenge, previous) ==
    /\ work[r] = None /\ (place = "login" => parked /\ enrolled)
    /\ work' = [work EXCEPT ![r] = [pc |-> pc, challenge |-> challenge, previous |-> previous]]
Cooled == sms # None => sms.cooled
Current(r) == sms # None /\ sms.id = work[r].challenge

\* A request for a message: refused while the last one cools down.
SendSms(r) ==
    /\ Cooled /\ Begins(r, IF place = "login" THEN "budget" ELSE "claim", None, sms)
    /\ UNCHANGED <<sender, place, enrolled, parked, sms, nextChallenge, deliveries,
                    histories>>

\* In a login claimCodeAttempt counts the message, or refuses it.
CountDelivery(r) ==
    /\ At(r, "budget")
    /\ IF deliveries < SmsSendMaxAttempts
       THEN deliveries' = deliveries + 1 /\ On(r, "claim")
       ELSE Ends(r) /\ UNCHANGED deliveries
    /\ UNCHANGED <<sender, place, enrolled, parked, sms, nextChallenge, histories>>

DeliveryWindowEnds ==
    /\ deliveries > 0 /\ deliveries' = 0
    /\ UNCHANGED <<sender, place, enrolled, parked, sms, nextChallenge, work, histories>>

\* claimSmsChallenge checks the cooldown again and replaces the challenge.
ClaimSms(r) ==
    /\ At(r, "claim") /\ nextChallenge \in Challenge
    /\ IF ~Cooled THEN Ends(r) /\ UNCHANGED <<sms, nextChallenge>>
       ELSE /\ sms' = [id |-> nextChallenge, ready |-> FALSE, failed |-> 0, cooled |-> FALSE]
            /\ nextChallenge' = nextChallenge + 1
            /\ work' = [work EXCEPT ![r].challenge = nextChallenge,
                            ![r].pc = IF sender = "provider" THEN "start" ELSE "finalize"]
    /\ UNCHANGED <<sender, place, enrolled, parked, deliveries, histories>>

\* startProviderSmsChallenge: the provider sends, or fails.
StartProvider(r) ==
    /\ At(r, "start")
    /\ \/ On(r, "finalize") /\ delivered' = delivered \cup {work[r].challenge}
       \/ On(r, "rollback") /\ UNCHANGED delivered
    /\ UNCHANGED <<sender, place, enrolled, parked, sms, nextChallenge, deliveries,
                    guesses, restored, completed>>

\* finalizeSmsChallenge stores the hash or the reference unless the claim was lost; a lost
\* one is cancelled at the provider.
Finalize(r) ==
    /\ At(r, "finalize")
    /\ IF ~Current(r) THEN Ends(r) /\ UNCHANGED sms
       ELSE /\ sms' = [sms EXCEPT !.ready = TRUE]
            /\ IF sender = "provider" THEN Ends(r) ELSE On(r, "deliver")
    /\ UNCHANGED <<sender, place, enrolled, parked, nextChallenge, deliveries, histories>>

\* onSendSmsCode delivers, or throws.
Deliver(r) ==
    /\ At(r, "deliver")
    /\ \/ Ends(r) /\ delivered' = delivered \cup {work[r].challenge}
       \/ On(r, "rollback") /\ UNCHANGED delivered
    /\ UNCHANGED <<sender, place, enrolled, parked, sms, nextChallenge, deliveries,
                    guesses, restored, completed>>

\* rollbackSmsChallenge puts back what was read before the claim.
Restored(r) == work[r].previous
Rollback(r) ==
    LET previous == work[r].previous IN
    /\ At(r, "rollback") /\ Ends(r)
    /\ IF ~Current(r) THEN UNCHANGED <<sms, restored>>
       ELSE /\ sms' = Restored(r)
            /\ restored' = IF previous = None \/ previous.id = None THEN restored
                           ELSE [restored EXCEPT ![previous.id] = @ + 1]
    /\ UNCHANGED <<sender, place, enrolled, parked, nextChallenge, deliveries, delivered,
                    guesses, completed>>

CooldownEnds ==
    /\ sms # None /\ ~sms.cooled /\ sms' = [sms EXCEPT !.cooled = TRUE]
    /\ UNCHANGED <<sender, place, enrolled, parked, nextChallenge, deliveries, work,
                    histories>>
CodeExpires ==
    /\ sms # None /\ sms.ready /\ sms' = [sms EXCEPT !.ready = FALSE]
    /\ UNCHANGED <<sender, place, enrolled, parked, nextChallenge, deliveries, work,
                    histories>>

\* A code is tried while the record read is live and below its budget of failures.
VerifySms(r) ==
    /\ sms # None /\ sms.id # None /\ sms.ready /\ sms.failed < SmsMaxAttempts
    /\ Begins(r, "check", sms.id, None)
    /\ UNCHANGED <<sender, place, enrolled, parked, sms, nextChallenge, deliveries,
                    histories>>

\* The provider or the hash decides; a provider that cannot answer ends the request.
CheckSms(r) ==
    /\ At(r, "check")
    /\ \/ /\ On(r, "record") \/ (On(r, "complete") /\ work[r].challenge \in delivered)
          /\ guesses' = [guesses EXCEPT ![work[r].challenge] = @ + 1]
       \/ sender = "provider" /\ Ends(r) /\ UNCHANGED guesses
    /\ UNCHANGED <<sender, place, enrolled, parked, sms, nextChallenge, deliveries,
                    delivered, restored, completed>>

\* recordSmsFailure counts for the challenge that was read.
FailedLeft(n) == n                                           \* defect: failures do not count
Failed(n) == n + 1
RecordFailure(r) ==
    /\ At(r, "record") /\ Ends(r)
    /\ sms' = IF Current(r) /\ sms.failed < SmsMaxAttempts
              THEN [sms EXCEPT !.failed = Failed(@)] ELSE sms
    /\ UNCHANGED <<sender, place, enrolled, parked, nextChallenge, deliveries, histories>>

\* completeSmsChallenge ends the challenge that was read, which verifies the phone of a setup.
ClearedNever(record) == record                               \* defect: the challenge stays
Cleared(record) == [record EXCEPT !.id = None, !.ready = FALSE, !.failed = 0]
CompleteSms(r) ==
    /\ At(r, "complete")
    /\ IF ~Current(r) THEN Ends(r) /\ UNCHANGED <<sms, completed>>
       ELSE /\ sms' = Cleared(sms)
            /\ completed' = [completed EXCEPT ![work[r].challenge] = @ + 1]
            /\ IF place = "login" THEN On(r, "enrolled") ELSE Ends(r)
    /\ UNCHANGED <<sender, place, enrolled, parked, nextChallenge, deliveries, delivered,
                    guesses, restored>>

\* completeCodeChallenge finds an enrollment, of this phone or a newer one, or none any more.
StillEnrolled(r) ==
    /\ At(r, "enrolled")
    /\ On(r, "promote") \/ (~enrolled /\ Ends(r))
    /\ UNCHANGED <<sender, place, enrolled, parked, sms, nextChallenge, deliveries,
                    histories>>

PromoteSms(r) ==
    /\ At(r, "promote") /\ Ends(r) /\ parked' = FALSE
    /\ UNCHANGED <<sender, place, enrolled, sms, nextChallenge, deliveries, histories>>

\* removeEnrollment takes the challenges and the counters along.
RemoveEnrollment ==
    /\ enrolled \/ sms # None
    /\ enrolled' = FALSE /\ sms' = None /\ deliveries' = 0
    /\ UNCHANGED <<sender, place, parked, nextChallenge, work, histories>>

Next ==
    \/ DeliveryWindowEnds \/ CooldownEnds \/ CodeExpires \/ RemoveEnrollment
    \/ \E r \in Request :
        \/ SendSms(r) \/ CountDelivery(r) \/ ClaimSms(r) \/ StartProvider(r) \/ Finalize(r)
        \/ Deliver(r) \/ Rollback(r) \/ VerifySms(r) \/ CheckSms(r) \/ RecordFailure(r)
        \/ CompleteSms(r) \/ StillEnrolled(r) \/ PromoteSms(r)

Spec == Init /\ [][Next]_vars

------------------------------------------------------------------------------
\* The attempts at one message are limited: requests in flight may overshoot the budget
\* by one each, and every rollback that brings an older record back grants it once more.
SmsGuessesBounded ==
    \A c \in Challenge :
        guesses[c] <= (SmsMaxAttempts + Cardinality(Request) - 1) * (restored[c] + 1)

\* A message is good for one login or one phone, unless a failed resend restored it.
SmsCompletesOnce == \A c \in Challenge : completed[c] <= 1 + restored[c]
==============================================================================

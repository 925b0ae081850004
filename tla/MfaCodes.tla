------------------------------- MODULE MfaCodes -------------------------------
(***************************************************************************)
(* The second factors of one user: the enrollment row with authenticator,  *)
(* phone and backup codes, its management, and the challenge that turns a  *)
(* parked login into a session with a code.  Text messages are MfaSms;     *)
(* here they matter by what they write into the enrollment.                *)
(*                                                                         *)
(* Updates that compare what they read with what is stored are one step.   *)
(* The others hold the row they read: removal of a factor, rotation of the *)
(* encryption key, the setup of a phone with its rollback, and the         *)
(* verification of the phone.                                              *)
(***************************************************************************)
EXTENDS Naturals, FiniteSets

CONSTANTS
    Request,            \* slots for requests in flight together
    None,
    MfaStores,          \* subset of {"memory", "postgres"}
    CodeMaxAttempts,    \* totpMaxAttempts and backupCodeMaxAttempts
    BackupCodeCount,    \* backupCodeCount
    MaxCode, MaxLogin,  \* bounds on backup codes and logins
    Challenge           \* challenges of a phone, of which one is current

VARIABLES
    mfaStore,       \* configuration
    enrollment,     \* enrollment row, None when absent
    nextCode,       \* the next backup code to be generated
    parked,         \* logins that wait for their second factor
    nextLogin,
    attempts,       \* code attempt counters of this window
    work,           \* requests between two steps
    promotions,     \* history: login -> sessions it became
    crossed,        \* history: logins two requests worked on together
    spent,          \* history: backup codes that were used
    overtaken       \* history: a code was spent while a request held the row

vars == <<mfaStore, enrollment, nextCode, parked, nextLogin, attempts, work,
          promotions, crossed, spent, overtaken>>
logins == <<parked, nextLogin, promotions>>
histories == <<crossed, spent, overtaken>>

Login == 1 .. MaxLogin
Code == 1 .. MaxCode
Factor == {"totp", "backup_codes"}
Row == [totp : {"none", "pending", "on"}, phone : {"none", "pending", "on"}, codes : SUBSET Code,
        challenge : Challenge \cup {None}]
Work == [pc : {"attempt", "code", "reset", "promote", "save", "claim", "sent", "verify"},
         login : Login \cup {None}, factor : Factor \cup {None}, code : Code \cup {None},
         row : Row \cup {None}, challenge : Challenge \cup {None}, fits : BOOLEAN,
         attempt : 0 .. CodeMaxAttempts]

TypeOK ==
    /\ mfaStore \in MfaStores /\ enrollment \in Row \cup {None}
    /\ nextCode \in 1 .. MaxCode + 1 /\ nextLogin \in 1 .. MaxLogin + 1
    /\ parked \subseteq Login
    /\ attempts \in [Factor -> 0 .. CodeMaxAttempts]
    /\ work \in [Request -> Work \cup {None}]
    /\ promotions \in [Login -> 0 .. Cardinality(Request) + 1] /\ crossed \subseteq Login
    /\ spent \subseteq Code /\ overtaken \in BOOLEAN

Init ==
    /\ mfaStore \in MfaStores /\ enrollment = None
    /\ nextCode = 1 /\ nextLogin = 1 /\ parked = {}
    /\ attempts = [f \in Factor |-> 0] /\ work = [r \in Request |-> None]
    /\ promotions = [l \in Login |-> 0] /\ crossed = {}
    /\ spent = {} /\ overtaken = FALSE

At(r, pc) == work[r] # None /\ work[r].pc = pc
Ends(r) == work' = [work EXCEPT ![r] = None]
On(r, pc) == work' = [work EXCEPT ![r].pc = pc]
Idle == [pc |-> "save", login |-> None, factor |-> None, code |-> None, row |-> None,
         challenge |-> None, fits |-> FALSE, attempt |-> 0]
Begins(r, w) == work[r] = None /\ work' = [work EXCEPT ![r] = w]

HasVerifiedFactor(row) == row.totp = "on" \/ row.phone = "on"
\* isMfaEnrolled: a verified factor, or backup codes left.
Enrolled(row) == row # None /\ (HasVerifiedFactor(row) \/ row.codes # {})
Blank == [totp |-> "none", phone |-> "none", codes |-> {}, challenge |-> None]
Base == IF enrollment = None THEN Blank ELSE enrollment

------------------------------------------------------------------------------
(* Enrollment and management *)

\* prepareEnrollment compares and sets: a pending authenticator is handed out again,
\* otherwise a new one is stored.
SetupTotp ==
    /\ Base.totp = "none" /\ enrollment' = [Base EXCEPT !.totp = "pending"]
    /\ UNCHANGED <<mfaStore, nextCode, logins, attempts, work, histories>>

\* confirmEnrollment compares and sets; the first authenticator brings the backup codes.
ConfirmTotp ==
    /\ enrollment # None /\ enrollment.totp = "pending"
    /\ IF enrollment.codes # {}
       THEN enrollment' = [enrollment EXCEPT !.totp = "on"] /\ UNCHANGED nextCode
       ELSE /\ nextCode' = nextCode + BackupCodeCount /\ nextCode' <= MaxCode + 1
            /\ enrollment' = [enrollment EXCEPT !.totp = "on", !.codes = nextCode .. nextCode' - 1]
    /\ UNCHANGED <<mfaStore, logins, attempts, work, histories>>

\* removeEnrollment deletes the row and the attempt counters.
Removed == enrollment' = None /\ attempts' = [f \in Factor |-> 0]
RemoveAll ==
    /\ enrollment # None /\ Removed
    /\ UNCHANGED <<mfaStore, nextCode, logins, work, histories>>

\* Removal of a factor reads the row and writes it back without the factor; backup codes
\* go with the last verified one.
Without(row, f) ==
    LET left == IF f = "totp" THEN [row EXCEPT !.totp = "none"] ELSE [row EXCEPT !.phone = "none"]
    IN IF HasVerifiedFactor(left) THEN left ELSE [left EXCEPT !.codes = {}]
RemoveFactor(r, f) ==
    /\ enrollment # None
    /\ IF f = "totp" THEN enrollment.totp # "none" ELSE enrollment.phone # "none"
    /\ Begins(r, [Idle EXCEPT !.row = Without(enrollment, f)])
    /\ UNCHANGED <<mfaStore, enrollment, nextCode, logins, attempts, histories>>

\* rotateMfaEncryptionKey lists the rows, re-encrypts the secrets and saves them.
RotateKey(r) ==
    /\ enrollment # None /\ enrollment.totp # "none" /\ Begins(r, [Idle EXCEPT !.row = enrollment])
    /\ UNCHANGED <<mfaStore, enrollment, nextCode, logins, attempts, histories>>

\* saveEnrollment upserts the row; without a factor left the enrollment is removed.
SaveRow(r) ==
    /\ At(r, "save") /\ Ends(r)
    /\ IF work[r].row.totp = "none" /\ work[r].row.phone = "none" THEN Removed
       ELSE enrollment' = work[r].row /\ UNCHANGED attempts
    /\ UNCHANGED <<mfaStore, nextCode, logins, histories>>

------------------------------------------------------------------------------
(* Setup of a phone *)

SetupPhone(r) ==
    /\ Begins(r, [Idle EXCEPT !.pc = "claim", !.row = Base])
    /\ UNCHANGED <<mfaStore, enrollment, nextCode, logins, attempts, histories>>

Fresh(c) ==
    \A held \in {enrollment} \cup {work[q] : q \in Request} \cup
                {work[q].row : q \in {p \in Request : work[p] # None}} :
        held # None => held.challenge # c
\* claimSmsChallenge writes the factors that were read and a challenge nobody holds; Postgres leaves
\* the backup codes of an existing row alone.
ClaimPhone(r, c) ==
    LET row == work[r].row
        codes == IF mfaStore = "postgres" /\ enrollment # None THEN enrollment.codes
                 ELSE row.codes
    IN
    /\ At(r, "claim") /\ Fresh(c)
    /\ work' = [work EXCEPT ![r].pc = "sent", ![r].challenge = c]
    /\ enrollment' = [totp |-> row.totp, codes |-> codes, challenge |-> c,
                      phone |-> IF row.phone = "on" THEN "on" ELSE "pending"]
    /\ UNCHANGED <<mfaStore, nextCode, logins, attempts, histories>>

SmsSent(r) ==
    /\ At(r, "sent") /\ Ends(r)
    /\ UNCHANGED <<mfaStore, enrollment, nextCode, logins, attempts, histories>>

\* While its challenge is the current one, rollbackSmsChallenge restores the whole row that
\* was read, or deletes it when there was none; in memory it clears the attempt counters, too.
Current(r) == enrollment # None /\ enrollment.challenge = work[r].challenge
RollbackPhone(r) ==
    /\ At(r, "sent") /\ Ends(r)
    /\ IF Current(r)
       THEN /\ enrollment' = IF work[r].row = Blank THEN None ELSE work[r].row
            /\ attempts' = IF mfaStore = "memory" THEN [f \in Factor |-> 0] ELSE attempts
       ELSE UNCHANGED <<enrollment, attempts>>
    /\ UNCHANGED <<mfaStore, nextCode, logins, histories>>

\* The verification route reads the row and checks the code, and completeSmsChallenge writes
\* the factors that were read, the phone verified, while the challenge is the current one.
VerifyPhone(r) ==
    /\ enrollment # None /\ enrollment.phone # "none" /\ enrollment.challenge # None
    /\ Begins(r, [Idle EXCEPT !.pc = "verify", !.challenge = enrollment.challenge,
                      !.row = [enrollment EXCEPT !.phone = "on", !.codes = {}, !.challenge = None]])
    /\ UNCHANGED <<mfaStore, enrollment, nextCode, logins, attempts, histories>>

CompletePhone(r) ==
    /\ At(r, "verify") /\ Ends(r)
    /\ enrollment' = IF Current(r) THEN [enrollment EXCEPT !.totp = work[r].row.totp,
                                                          !.phone = "on", !.challenge = None]
                     ELSE enrollment
    /\ UNCHANGED <<mfaStore, nextCode, logins, attempts, histories>>

------------------------------------------------------------------------------
(* The challenge *)

\* A login with a second factor leaves a parked session behind.
Park ==
    /\ Enrolled(enrollment) /\ nextLogin \in Login
    /\ parked' = parked \cup {nextLogin} /\ nextLogin' = nextLogin + 1
    /\ UNCHANGED <<mfaStore, enrollment, nextCode, promotions, attempts, work, histories>>

PendingExpires(l) ==
    /\ l \in parked /\ parked' = parked \ {l}
    /\ UNCHANGED <<mfaStore, enrollment, nextCode, nextLogin, promotions, attempts, work,
                   histories>>

\* The parked session and the enrollment are read, and the code c is compared with what was
\* read; c is None for a code of the authenticator.
EnterCode(r, l, c) ==
    /\ l \in parked /\ enrollment # None
    /\ Begins(r, [Idle EXCEPT !.pc = "attempt", !.login = l, !.code = c,
                      !.fits = IF c = None THEN enrollment.totp = "on" ELSE c \in enrollment.codes,
                      !.factor = IF c = None THEN "totp" ELSE "backup_codes"])
    /\ crossed' = IF \E q \in Request : work[q] # None /\ work[q].login = l
                  THEN crossed \cup {l} ELSE crossed
    /\ UNCHANGED <<mfaStore, enrollment, nextCode, logins, attempts, spent, overtaken>>

\* claimCodeAttempt counts before the code is looked at, or refuses.
Claimed(f) == attempts[f] < CodeMaxAttempts /\ attempts' = [attempts EXCEPT ![f] = @ + 1]
ClaimAttempt(r) ==
    LET w == work[r] IN
    /\ At(r, "attempt")
    /\ \/ Claimed(w.factor) /\ w.fits
          /\ work' = [work EXCEPT ![r].pc = "code", ![r].attempt = attempts'[w.factor]]
       \/ Claimed(w.factor) /\ Ends(r)                   \* the code is wrong
       \/ attempts[w.factor] = CodeMaxAttempts /\ Ends(r) /\ UNCHANGED attempts
    /\ UNCHANGED <<mfaStore, enrollment, nextCode, logins, histories>>

AttemptWindowEnds(f) ==
    /\ attempts[f] > 0 /\ attempts' = [attempts EXCEPT ![f] = 0]
    /\ UNCHANGED <<mfaStore, enrollment, nextCode, logins, work, histories>>

\* completeCodeChallenge removes the backup code if it is still there.
WithoutCodeKept(row, c) == row                           \* defect: the code is not removed
WithoutCode(row, c) == [row EXCEPT !.codes = @ \ {c}]
CompleteCode(r) ==
    LET c == work[r].code IN
    /\ At(r, "code")
    /\ IF enrollment # None /\ (c # None => c \in enrollment.codes)
       THEN /\ enrollment' = (IF c = None THEN enrollment ELSE WithoutCode(enrollment, c))
            /\ spent' = (IF c = None THEN spent ELSE spent \cup {c})
            /\ overtaken' = (overtaken \/ (c # None /\ \E q \in Request \ {r} :
                                work[q] # None /\ work[q].pc \in {"save", "claim", "sent"}))
            /\ On(r, "reset")
       ELSE Ends(r) /\ UNCHANGED <<enrollment, spent, overtaken>>
    /\ UNCHANGED <<mfaStore, nextCode, logins, attempts, crossed>>

\* resetCodeAttempts clears the counter only as this request left it.
ResetAttempts(r) ==
    LET w == work[r] IN
    /\ At(r, "reset") /\ On(r, "promote")
    /\ attempts' = IF attempts[w.factor] = w.attempt THEN [attempts EXCEPT ![w.factor] = 0]
                   ELSE attempts
    /\ UNCHANGED <<mfaStore, enrollment, nextCode, logins, histories>>

\* promote: the parked session becomes a registered one.
UnparkedNever(l) == parked                               \* defect: the parked session stays
Unparked(l) == parked \ {l}
Promote(r) ==
    LET l == work[r].login IN
    /\ At(r, "promote") /\ Ends(r)
    /\ parked' = Unparked(l) /\ promotions' = [promotions EXCEPT ![l] = @ + 1]
    /\ UNCHANGED <<mfaStore, enrollment, nextCode, nextLogin, attempts, histories>>

Next ==
    \/ SetupTotp \/ ConfirmTotp \/ RemoveAll \/ Park
    \/ \E l \in Login : PendingExpires(l)
    \/ \E f \in Factor : AttemptWindowEnds(f)
    \/ \E r \in Request :
        \/ RemoveFactor(r, "totp") \/ RemoveFactor(r, "phone") \/ RotateKey(r) \/ SaveRow(r)
        \/ SetupPhone(r) \/ SmsSent(r) \/ RollbackPhone(r) \/ VerifyPhone(r) \/ CompletePhone(r)
        \/ \E c \in Challenge : ClaimPhone(r, c)
        \/ ClaimAttempt(r) \/ CompleteCode(r) \/ ResetAttempts(r) \/ Promote(r)
        \/ \E l \in Login, c \in Code \cup {None} : EnterCode(r, l, c)

Spec == Init /\ [][Next]_vars

------------------------------------------------------------------------------
\* A backup code that signed in is gone from the enrollment, unless a request that writes
\* back a row it read (removal of a factor, key rotation, setup of a phone) was under way.
SpentCodesStaySpent == enrollment # None /\ enrollment.codes \cap spent # {} => overtaken

\* A parked login becomes a session once; only requests that read it together share it.
LoginPromotedOnce == \A l \in Login : promotions[l] > 1 => l \in crossed
==============================================================================

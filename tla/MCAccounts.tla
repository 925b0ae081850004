----------------------------- MODULE MCAccounts -----------------------------
(* One run over the modules of a person's account: passwords, the counting   *)
(* of failures, the second factor and its text messages, passkeys and linked *)
(* sign-ins, the mobile client, the credentials of linked providers, and the *)
(* audit log of what happens to them.  A behaviour is one of one module; the *)
(* variables of the others are off.                                          *)
EXTENDS Naturals, FiniteSets, TLC

CONSTANTS
    None, Request, Pair,
    Setups, MaxMailed,                          \* of the applications, and their emailed tokens
    MaxAttempts, WindowTicks, LockoutTicks, MaxNow,
    CodeMaxAttempts, BackupCodeCount, MaxCode, MaxLogin, PhoneChallenge,
    SmsMaxAttempts, SmsSendMaxAttempts, MaxChallenge,
    Passkey, Account, MaxSession, MaxCounter,
    MaxSignIn, MaxGeneration, MaxLoss,          \* of the mobile client
    SeedScanLimit, MaxEvent,                    \* of the audit log
    Grant, Deployments, MaxToken, MaxLinks      \* of linked providers

CredentialSetups == {<<"postgres", TRUE, TRUE>>, <<"memory", FALSE, TRUE>>}
LinkedDeployments == {<<"locked", "latch">>, <<"tables", "record">>, <<"accounts", "latch">>}

\* Requests are interchangeable, and so are users and passwords.
Symmetry == Permutations(Request) \cup Permutations(Pair)

VARIABLES
    part,       \* which of the modules this behaviour is about
    setup, credential, account, tokens, nextToken, crPending, signedIn, retired,
    crOvertaken, redeemed, raced,
    lockStore, now, record, lkAttempts, streak, lapped,
    mfaStore, enrollment, nextCode, mcParked, nextLogin, mcAttempts, mcWork,
    promotions, crossed, spent, mcOvertaken,
    sender, place, enrolled, msParked, sms, nextChallenge, deliveries, msWork, delivered, guesses,
    restored, completed,
    passkeys, signed, ceremony, identities, sessions, nextSession, cookie, jar, siWork,
    linkedBy, had, siOverlapped,
    store, moPending, lock, access, principal, nextSignIn, refreshing, callbacks,
    leaving, requesting, server, ended, losses, broken, reused, signedOut,
    writing, process, seeded, lastHash, log, nextEvent, auWork, altered, causes,
    deployment, policy, grants, bindings, held, locks, requests, honoured, issued, links,
    lost, lpOverlapped

crVars == <<setup, credential, account, tokens, nextToken, crPending, signedIn, retired,
             crOvertaken, redeemed, raced>>
lkVars == <<lockStore, now, record, lkAttempts, streak, lapped>>
mcVars == <<mfaStore, enrollment, nextCode, mcParked, nextLogin, mcAttempts,
             mcWork, promotions, crossed, spent, mcOvertaken>>
msVars == <<sender, place, enrolled, msParked, sms, nextChallenge, deliveries, msWork,
             delivered, guesses, restored, completed>>
siVars == <<passkeys, signed, ceremony, identities, sessions, nextSession, cookie, jar, siWork,
             linkedBy, had, siOverlapped>>
moVars == <<store, moPending, lock, access, principal, nextSignIn, refreshing,
             callbacks, leaving, requesting, server, ended, losses, broken, reused, signedOut>>
auVars == <<writing, process, seeded, lastHash, log, nextEvent, auWork, altered, causes>>
lpVars == <<deployment, policy, grants, bindings, held, locks, requests, honoured, issued,
             links, lost, lpOverlapped>>
vars == <<part, crVars, lkVars, mcVars, msVars, siVars, moVars, auVars, lpVars>>

Credentials == INSTANCE Credentials WITH
    Password <- Pair, MaxToken <- MaxMailed, Configurations <- Setups,
    pending <- crPending, overtaken <- crOvertaken
Lockout == INSTANCE Lockout WITH
    Attempt <- Request, attempts <- lkAttempts
MfaCodes == INSTANCE MfaCodes WITH
    MfaStores <- {"memory", "postgres"}, Challenge <- PhoneChallenge, parked <- mcParked,
    attempts <- mcAttempts, work <- mcWork, overtaken <- mcOvertaken
MfaSms == INSTANCE MfaSms WITH
    Senders <- {"provider", "application"}, parked <- msParked, work <- msWork
SignIn == INSTANCE SignInMethods WITH
    User <- Pair, work <- siWork, overlapped <- siOverlapped
Mobile == INSTANCE MobileClient WITH
    Arrival <- Request, pending <- moPending
Audit == INSTANCE AuditChain WITH
    Writings <- {"fresh", "scanned", "loaded"}, work <- auWork
Linked == INSTANCE LinkedProviderCredentials WITH
    Configurations <- Deployments, overlapped <- lpOverlapped

\* There are requests, finitely many, and None is neither one nor a number.
ASSUME AccountsAssumption ==
    IsFiniteSet(Request) /\ Request # {} /\ None \notin Request /\ None \notin Nat

\* For each module: bounds and limits are numbers, and None is no value of its variables.
ASSUME CredentialsAssumption ==
    /\ Setups \subseteq {"memory", "postgres"} \X BOOLEAN \X BOOLEAN /\ MaxMailed \in Nat
    /\ None \notin Pair /\ None \notin Credentials!Kind
    /\ None \notin Credentials!Row /\ None \notin Credentials!Work
ASSUME LockoutAssumption ==
    /\ MaxAttempts \in Nat \ {0} /\ WindowTicks \in Nat /\ LockoutTicks \in Nat /\ MaxNow \in Nat
    /\ None \notin Lockout!Records /\ None \notin Lockout!Attempts
ASSUME CodesAssumption ==
    /\ CodeMaxAttempts \in Nat /\ BackupCodeCount \in Nat /\ MaxCode \in Nat /\ MaxLogin \in Nat
    /\ None \notin PhoneChallenge
ASSUME SmsAssumption ==
    /\ SmsMaxAttempts \in Nat /\ SmsSendMaxAttempts \in Nat /\ MaxChallenge \in Nat
    /\ None \notin MfaSms!Work
ASSUME SignInAssumption ==
    /\ MaxSession \in Nat /\ MaxCounter \in Nat /\ Passkey \cap Account = {}
    /\ None \notin Pair /\ None \notin SignIn!Row /\ None \notin SignIn!Jar
    /\ None \notin SignIn!Work
ASSUME MobileAssumption ==
    /\ MaxSignIn \in Nat /\ MaxGeneration \in Nat \ {0} /\ MaxLoss \in Nat
    /\ None \notin Mobile!Process /\ None \notin Mobile!Token
    /\ None \notin [pc : {"read", "exchange", "save"}, token : Mobile!Token \cup {None}]
ASSUME AuditAssumption ==
    MaxEvent \in Nat /\ None \notin Audit!Work
ASSUME LinkedAssumption ==
    /\ Deployments \subseteq {"tables", "accounts", "locked"} \X {"latch", "record"}
    /\ MaxToken \in Nat /\ MaxLinks \in Nat
    /\ None \notin Linked!GrantRow /\ None \notin Linked!Work

CredentialsOff ==
    /\ setup = None /\ credential = None /\ account = None /\ tokens = None
    /\ nextToken = None /\ crPending = None /\ signedIn = None /\ retired = None
    /\ crOvertaken = None /\ redeemed = None /\ raced = None
LockoutOff ==
    /\ lockStore = None /\ now = None /\ record = None /\ lkAttempts = None /\ streak = None
    /\ lapped = None
MfaCodesOff ==
    /\ mfaStore = None /\ enrollment = None /\ nextCode = None
    /\ mcParked = None /\ nextLogin = None /\ mcAttempts = None
    /\ mcWork = None /\ promotions = None /\ crossed = None /\ spent = None /\ mcOvertaken = None
MfaSmsOff ==
    /\ sender = None /\ place = None /\ enrolled = None /\ msParked = None /\ sms = None
    /\ nextChallenge = None /\ deliveries = None /\ msWork = None /\ delivered = None
    /\ guesses = None /\ restored = None /\ completed = None
SignInOff ==
    /\ passkeys = [p \in Passkey |-> None] /\ signed = None /\ ceremony = None /\ identities = None
    /\ sessions = None /\ nextSession = None /\ cookie = None /\ jar = None /\ siWork = None
    /\ linkedBy = None /\ had = None /\ siOverlapped = None
MobileOff ==
    /\ store = None /\ moPending = None /\ lock = None /\ access = None /\ principal = None
    /\ nextSignIn = None /\ refreshing = None /\ callbacks = None
    /\ leaving = None /\ requesting = None /\ server = None /\ ended = None /\ losses = None
    /\ broken = None /\ reused = None /\ signedOut = None
AuditOff ==
    /\ writing = None /\ process = None /\ seeded = None /\ lastHash = None /\ log = None
    /\ nextEvent = None /\ auWork = None /\ altered = None /\ causes = None
LinkedOff ==
    /\ deployment = None /\ policy = None /\ grants = None /\ bindings = None /\ held = None
    /\ locks = None /\ requests = None /\ honoured = None /\ issued = None /\ links = None
    /\ lost = None /\ lpOverlapped = None

Init ==
    /\ part \in {"credentials", "lockout", "codes", "sms", "sign-in methods", "mobile", "audit",
                 "linked providers"}
    /\ \/ part = "credentials" /\ Credentials!Init
       \/ part # "credentials" /\ CredentialsOff
    /\ \/ part = "lockout" /\ Lockout!Init
       \/ part # "lockout" /\ LockoutOff
    /\ \/ part = "codes" /\ MfaCodes!Init
       \/ part # "codes" /\ MfaCodesOff
    /\ \/ part = "sms" /\ MfaSms!Init
       \/ part # "sms" /\ MfaSmsOff
    /\ \/ part = "sign-in methods" /\ SignIn!Init
       \/ part # "sign-in methods" /\ SignInOff
    /\ \/ part = "mobile" /\ Mobile!Init
       \/ part # "mobile" /\ MobileOff
    /\ \/ part = "audit" /\ Audit!Init
       \/ part # "audit" /\ AuditOff
    /\ \/ part = "linked providers" /\ Linked!Init
       \/ part # "linked providers" /\ LinkedOff

Next ==
    \/ /\ part = "credentials" /\ Credentials!Next
       /\ UNCHANGED <<part, lkVars, mcVars, msVars, siVars, moVars, auVars, lpVars>>
    \/ /\ part = "lockout" /\ Lockout!Next
       /\ UNCHANGED <<part, crVars, mcVars, msVars, siVars, moVars, auVars, lpVars>>
    \/ /\ part = "codes" /\ MfaCodes!Next
       /\ UNCHANGED <<part, crVars, lkVars, msVars, siVars, moVars, auVars, lpVars>>
    \/ /\ part = "sms" /\ MfaSms!Next
       /\ UNCHANGED <<part, crVars, lkVars, mcVars, siVars, moVars, auVars, lpVars>>
    \/ /\ part = "sign-in methods" /\ SignIn!Next
       /\ UNCHANGED <<part, crVars, lkVars, mcVars, msVars, moVars, auVars, lpVars>>
    \/ /\ part = "mobile" /\ Mobile!Next
       /\ UNCHANGED <<part, crVars, lkVars, mcVars, msVars, siVars, auVars, lpVars>>
    \/ /\ part = "audit" /\ Audit!Next
       /\ UNCHANGED <<part, crVars, lkVars, mcVars, msVars, siVars, moVars, lpVars>>
    \/ /\ part = "linked providers" /\ Linked!Next
       /\ UNCHANGED <<part, crVars, lkVars, mcVars, msVars, siVars, moVars, auVars>>

Spec == Init /\ [][Next]_vars

-----------------------------------------------------------------------------
\* Every variable of the module in question stays within its type.
TypesOK ==
    /\ part = "credentials" => Credentials!TypeOK
    /\ part = "lockout" => Lockout!TypeOK
    /\ part = "codes" => MfaCodes!TypeOK
    /\ part = "sms" => MfaSms!TypeOK
    /\ part = "sign-in methods" => SignIn!TypeOK
    /\ part = "mobile" => Mobile!TypeOK
    /\ part = "audit" => Audit!TypeOK
    /\ part = "linked providers" => Linked!TypeOK

\* What was replaced or spent stays so: a replaced password signs nobody in, an emailed token is
\* redeemed once, a backup code is used once and a login that waited for its second factor
\* becomes one session, up to the races each module names (login, resetPassword, consumeToken,
\* the backup codes of the challenge).
NothingSpentPasses ==
    /\ part = "credentials" => Credentials!RetiredStaysOut /\ Credentials!TokensPassOnce
    /\ part = "codes" => MfaCodes!SpentCodesStaySpent /\ MfaCodes!LoginPromotedOnce

\* Guessing is bounded: failures that do not overlap lock the key they are counted under, and
\* each SMS challenge gives so many guesses and is completed once (recordFailure, the SMS
\* challenge).
GuessesAreBounded ==
    /\ part = "lockout" => Lockout!FailuresLock
    /\ part = "sms" => MfaSms!SmsGuessesBounded /\ MfaSms!SmsCompletesOnce

\* A user who could sign in keeps a way to, unless two removals overlap (the removal of a passkey
\* and of an identity).
KeepsOneWayIn == part = "sign-in methods" => SignIn!KeepsOneWayIn

\* An account is linked only to the user who began the linking (the linking callback), and the
\* signature counter of a passkey never goes back (saveCredential after an authentication).
LinksItsStarter ==
    /\ [](part = "sign-in methods" => SignIn!LinksItsStarter)
    /\ SignIn!CounterNeverGoesBack

\* The mobile client never makes the server end its session for replaying a refresh token, unless
\* a rotated token was lost on its way to the storage (rotateAccessToken), and a sign-out that
\* crossed nothing lasts until the next sign-in (signOut).
NoSelfInflictedReuse ==
    part = "mobile" => Mobile!NoSelfInflictedReuse /\ Mobile!SignedOutStaysOut

\* A log nobody tampered with verifies, unless the code broke its chain in one of the four ways
\* the module names, and a tampered one does not (createTamperEvidentSink, verifyAuditChain).
UntamperedVerifies == part = "audit" => Audit!UntamperedVerifies /\ Audit!TamperingDetected

\* A grant that says active holds a token its provider honours, unless consent was withdrawn, a
\* process died with a rotated token or two requests worked on it without the row lock; and with
\* the lock a dead grant comes back only when its owner authorizes again (the resolvers).
ActiveMeansHonoured ==
    /\ [](part = "linked providers" => Linked!ActiveMeansHonoured)
    /\ Linked!DeadUntilLinked

=============================================================================

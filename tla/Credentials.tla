------------------------------ MODULE Credentials -----------------------------
(***************************************************************************)
(* The password credential of one email address and the account behind it: *)
(* registration, verification of the inbox, login with its rehash of a     *)
(* legacy hash, password reset, change of password, import, and the magic  *)
(* links and codes that sign in without a password.                        *)
(*                                                                         *)
(* Every handler reads the credential in one step and saves what it read   *)
(* with its change in a later one.  The one-time tokens are rows that a    *)
(* redemption deletes: at once in memory and for passwordless tokens, with *)
(* a read before the delete for the Postgres credential tokens.            *)
(* A password is a model value; a hash is the password and whether the     *)
(* hash is of an old kind.                                                 *)
(***************************************************************************)
EXTENDS Naturals, FiniteSets

CONSTANTS
    Password,       \* passwords a person may choose
    Request,        \* slots for requests in flight together
    None,
    MaxToken,       \* bound on the tokens issued
    Configurations  \* triples <<store, requireEmailVerification, rehashOnLogin>>

VARIABLES
    setup,          \* the configuration
    credential,     \* credential row, None when absent
    account,        \* the application's user exists
    tokens,         \* token number -> its kind, None when unissued or deleted
    nextToken,
    pending,        \* requests between two steps
    signedIn,       \* requests that ended in a session or in the second factor
    retired,        \* history: passwords replaced and not chosen again
    overtaken,      \* history: a password was replaced while a request held the row
    redeemed,       \* history: token number -> redemptions that passed
    raced           \* history: tokens two requests read before either deleted it

vars == <<setup, credential, account, tokens, nextToken, pending, signedIn,
          retired, overtaken, redeemed, raced>>

Postgres == setup[1] = "postgres"
RequireEmailVerification == setup[2]
RehashOnLogin == setup[3]

Token == 1 .. MaxToken
Passwordless == {"link", "code"}
Kind == {"verify", "reset"} \cup Passwordless
Row == [password : Password, legacy : BOOLEAN, emailVerified : BOOLEAN,
        registrationData : BOOLEAN, user : BOOLEAN]
Work == [pc : {"create", "register", "token", "verify", "rehash", "admit", "delete", "redeem",
               "user", "provision", "mark", "complete", "save", "passwordless"},
         row : Row \cup {None}, password : Password \cup {None}, token : Token \cup {None},
         kind : Kind \cup {None}]

TypeOK ==
    /\ setup \in Configurations
    /\ credential \in Row \cup {None} /\ account \in BOOLEAN
    /\ tokens \in [Token -> Kind \cup {None}]
    /\ nextToken \in 1 .. MaxToken + 1
    /\ pending \in [Request -> Work \cup {None}]
    /\ signedIn \subseteq Request
    /\ retired \subseteq Password /\ overtaken \in BOOLEAN
    /\ redeemed \in [Token -> 0 .. Cardinality(Request) + 1] /\ raced \subseteq Token

Init ==
    /\ setup \in Configurations
    /\ credential = None /\ account = FALSE
    /\ tokens = [t \in Token |-> None] /\ nextToken = 1
    /\ pending = [r \in Request |-> None] /\ signedIn = {}
    /\ retired = {} /\ overtaken = FALSE
    /\ redeemed = [t \in Token |-> 0] /\ raced = {}

At(r, pc) == pending[r] # None /\ pending[r].pc = pc
Goes(r, pc, row, password, token, kind) ==
    pending' = [pending EXCEPT ![r] = [pc |-> pc, row |-> row, password |-> password,
                                       token |-> token, kind |-> kind]]
On(r, pc) == pending' = [pending EXCEPT ![r].pc = pc]
Ends(r) == pending' = [pending EXCEPT ![r] = None]
history == <<retired, overtaken, redeemed, raced>>
tokenState == <<tokens, nextToken>>

\* saveCredential replaces the row.  A password p somebody chose retires the one that was
\* there, and overtakes the rows that other requests still hold.
Chosen(r, row, p) ==
    /\ credential' = row
    /\ retired' = (IF credential = None THEN retired ELSE retired \cup {credential.password})
                      \ {p}
    /\ overtaken' = (overtaken \/ \E q \in Request \ {r} :
                        pending[q] # None /\ pending[q].row # None)

\* generateSecureToken, saveToken and the message with it.
Issues(kind) ==
    /\ nextToken \in Token
    /\ tokens' = [tokens EXCEPT ![nextToken] = kind] /\ nextToken' = nextToken + 1

----------------------------------------------------------------------------
(* Registration and import *)

\* Neither a credential nor a user may exist; the user is created at once unless the inbox
\* is to be verified first.
Register(r, p) ==
    /\ pending[r] = None /\ credential = None /\ ~account
    /\ Goes(r, IF RequireEmailVerification THEN "register" ELSE "create", None, p, None, None)
    /\ UNCHANGED <<setup, credential, account, tokenState, signedIn, history>>

\* onCreateCredentialUser: the application refuses a second user of the same email.
CreateUser(r) ==
    /\ At(r, "create")
    /\ IF account THEN Ends(r) /\ UNCHANGED account ELSE account' = TRUE /\ On(r, "register")
    /\ UNCHANGED <<setup, credential, tokenState, signedIn, history>>

\* saveCredential, whatever another registration has saved since the read.
SaveRegistration(r) ==
    /\ At(r, "register")
    /\ Chosen(r, [password |-> pending[r].password, legacy |-> FALSE, emailVerified |-> FALSE,
                  registrationData |-> RequireEmailVerification, user |-> FALSE],
              pending[r].password)
    /\ On(r, "token")
    /\ UNCHANGED <<setup, account, tokenState, signedIn, redeemed, raced>>

\* saveVerificationToken; without the requirement the new user is signed in.
SendVerification(r) ==
    /\ At(r, "token") /\ Issues("verify") /\ Ends(r)
    /\ signedIn' = IF RequireEmailVerification THEN signedIn ELSE signedIn \cup {r}
    /\ UNCHANGED <<setup, credential, account, history>>

\* importUser creates a user and writes over the credential that is there.
Import(p, legacy) ==
    /\ ~account /\ account' = TRUE
    /\ Chosen(None, [password |-> p, legacy |-> legacy, emailVerified |-> TRUE,
                     registrationData |-> FALSE, user |-> TRUE], p)
    /\ UNCHANGED <<setup, tokenState, pending, signedIn, redeemed, raced>>

\* insertAccountCredential only inserts.
InsertAccountCredential(p) ==
    /\ credential = None /\ account
    /\ Chosen(None, [password |-> p, legacy |-> FALSE, emailVerified |-> FALSE,
                     registrationData |-> FALSE, user |-> TRUE], p)
    /\ UNCHANGED <<setup, account, tokenState, pending, signedIn, redeemed, raced>>

----------------------------------------------------------------------------
(* Login and change of password *)

\* The credential is read, of which the password will prove to be the one; any other attempt
\* changes nothing here.
Login(r, p) ==
    /\ pending[r] = None /\ r \notin signedIn /\ credential # None /\ credential.password = p
    /\ Goes(r, "verify", credential, p, None, None)
    /\ UNCHANGED <<setup, credential, account, tokenState, signedIn, history>>

\* The user is read next, then the password verified against the hash that was read.  Every
\* credential this code writes is active.
Verify(r) ==
    /\ At(r, "verify")
    /\ IF account
       THEN On(r, IF RehashOnLogin /\ pending[r].row.legacy THEN "rehash" ELSE "admit")
       ELSE Ends(r)
    /\ UNCHANGED <<setup, credential, account, tokenState, signedIn, history>>

\* rehashCredentialPassword saves the row that was read, with a new hash.
Rehashed(r) == [pending[r].row EXCEPT !.legacy = FALSE]
Rehash(r) ==
    /\ At(r, "rehash") /\ On(r, "admit") /\ credential' = Rehashed(r)
    /\ UNCHANGED <<setup, account, tokenState, signedIn, history>>

\* An unverified email is refused where it must be verified.
Admit(r) ==
    /\ At(r, "admit") /\ Ends(r)
    /\ signedIn' = IF RequireEmailVerification /\ ~pending[r].row.emailVerified THEN signedIn
                   ELSE signedIn \cup {r}
    /\ UNCHANGED <<setup, credential, account, tokenState, history>>

SignOut(r) ==
    /\ r \in signedIn /\ signedIn' = signedIn \ {r}
    /\ UNCHANGED <<setup, credential, account, tokenState, pending, history>>

\* changeAccountPassword locks the row, compares and updates the hash alone.
ChangePassword(p, q) ==
    /\ credential # None /\ credential.user /\ credential.password = p
    /\ Chosen(None, [credential EXCEPT !.password = q, !.legacy = FALSE], q)
    /\ UNCHANGED <<setup, account, tokenState, pending, signedIn, redeemed, raced>>

----------------------------------------------------------------------------
(* Tokens *)

\* A new verification token for an unverified credential, a reset token for one whose
\* registration is complete, a magic link or a code for any email.
SendVerificationAgain == credential # None /\ ~credential.emailVerified /\ Issues("verify")
SendReset == credential # None /\ ~credential.registrationData /\ Issues("reset")
SendLink == Issues("link")
SendCode == Issues("code")
SendToken ==
    /\ SendVerificationAgain \/ SendReset \/ SendLink \/ SendCode
    /\ UNCHANGED <<setup, credential, account, pending, signedIn, history>>

Expire(t) ==
    /\ tokens[t] # None /\ tokens' = [tokens EXCEPT ![t] = None]
    /\ UNCHANGED <<setup, credential, account, nextToken, pending, signedIn, history>>

\* The redemption of a token goes on with the credential of its email, but a reset whose
\* new password the policy refuses has spent its token for nothing.
Passes(r, t, kind, p) ==
    /\ redeemed' = [redeemed EXCEPT ![t] = @ + 1]
    /\ \/ Goes(r, IF kind \in Passwordless THEN "passwordless" ELSE "redeem", None, p, t, kind)
       \/ kind = "reset" /\ Ends(r)

ConsumedNever(t) == tokens                               \* defect: the row is not deleted
Consumed(t) == [tokens EXCEPT ![t] = None]

\* One step: in memory, and a link or a code in every store.
Redeemed(r, t, p) ==
    /\ tokens' = Consumed(t) /\ Passes(r, t, tokens[t], p) /\ UNCHANGED raced
RedeemLink(r, t) == tokens[t] = "link" /\ Redeemed(r, t, None)
RedeemCode(r, t) == tokens[t] = "code" /\ Redeemed(r, t, None)
\* The Postgres store selects the row of a credential token first.
SelectToken(r, t, p) ==
    /\ Goes(r, "delete", None, p, t, tokens[t])
    /\ raced' = IF \E q \in Request : At(q, "delete") /\ pending[q].token = t
                THEN raced \cup {t} ELSE raced
    /\ UNCHANGED <<tokens, redeemed>>
RedeemCredentialToken(r, t, p) ==
    /\ tokens[t] \in {"verify", "reset"}
    /\ IF Postgres THEN SelectToken(r, t, p) ELSE Redeemed(r, t, p)
Redeem(r, t, p) ==
    /\ pending[r] = None
    /\ RedeemLink(r, t) \/ RedeemCode(r, t) \/ RedeemCredentialToken(r, t, p)
    /\ UNCHANGED <<setup, credential, account, nextToken, signedIn, retired, overtaken>>

\* consumeToken of the Postgres store: the delete does not ask whether it found the row.
Delete(r) ==
    LET w == pending[r] IN
    /\ At(r, "delete") /\ tokens' = Consumed(w.token)
    /\ Passes(r, w.token, w.kind, w.password)
    /\ UNCHANGED <<setup, credential, account, nextToken, signedIn, retired, overtaken, raced>>

\* Verification reads the credential, then the user; it creates the user of a registration
\* that waited for it, unless the application refuses, and marks the email.  The second
\* save writes back the row that was read.
ReadCredential(r) ==
    /\ At(r, "redeem")
    /\ IF pending[r].kind = "verify" /\ credential = None THEN Ends(r)
       ELSE pending' = [pending EXCEPT ![r].row = credential,
                                       ![r].pc = IF pending[r].kind = "verify"
                                                 THEN "user" ELSE "save"]
    /\ UNCHANGED <<setup, credential, account, tokenState, signedIn, history>>

ReadUser(r) ==
    /\ At(r, "user")
    /\ On(r, IF RequireEmailVerification /\ ~account /\ pending[r].row.registrationData
             THEN "provision" ELSE "mark")
    /\ UNCHANGED <<setup, credential, account, tokenState, signedIn, history>>

CreateVerifiedUser(r) ==
    /\ At(r, "provision")
    /\ \/ Ends(r) /\ UNCHANGED account
       \/ ~account /\ account' = TRUE /\ On(r, "mark")
    /\ UNCHANGED <<setup, credential, tokenState, signedIn, history>>

SetEmailVerified(r) ==
    /\ At(r, "mark")
    /\ credential' = [credential EXCEPT !.emailVerified = TRUE]
    /\ IF pending[r].row.registrationData THEN On(r, "complete") ELSE Ends(r)
    /\ UNCHANGED <<setup, account, tokenState, signedIn, history>>

CompleteRegistration(r) ==
    /\ At(r, "complete")
    /\ credential' = [pending[r].row EXCEPT !.emailVerified = TRUE, !.registrationData = FALSE]
    /\ Ends(r)
    /\ UNCHANGED <<setup, account, tokenState, signedIn, history>>

\* The reset keeps user and status of the row that was read and sets everything else.
ResetRowKept(r) ==                                       \* defect: the old hash wins
    [pending[r].row EXCEPT !.emailVerified = TRUE, !.registrationData = FALSE]
ResetRow(r) ==
    [password |-> pending[r].password, legacy |-> FALSE, emailVerified |-> TRUE,
     registrationData |-> FALSE, user |-> pending[r].row # None /\ pending[r].row.user]
ResetPassword(r) ==
    /\ At(r, "save") /\ pending[r].kind = "reset"
    /\ Chosen(r, ResetRow(r), pending[r].password)
    /\ Ends(r)
    /\ UNCHANGED <<setup, account, tokenState, signedIn, redeemed, raced>>

\* completeLogin finds the user or creates one.
PasswordlessLogin(r) ==
    /\ At(r, "passwordless")
    /\ account' \in {account, TRUE}
    /\ signedIn' = IF account' THEN signedIn \cup {r} ELSE signedIn
    /\ Ends(r)
    /\ UNCHANGED <<setup, credential, tokenState, history>>

Next ==
    \/ \E r \in Request :
        \/ CreateUser(r) \/ SaveRegistration(r) \/ SendVerification(r)
        \/ Verify(r) \/ Rehash(r) \/ Admit(r) \/ SignOut(r) \/ Delete(r)
        \/ ReadCredential(r) \/ ReadUser(r) \/ CreateVerifiedUser(r) \/ SetEmailVerified(r)
        \/ CompleteRegistration(r) \/ ResetPassword(r) \/ PasswordlessLogin(r)
        \/ \E p \in Password : Register(r, p) \/ Login(r, p) \/ \E t \in Token : Redeem(r, t, p)
    \/ \E p \in Password, legacy \in BOOLEAN : Import(p, legacy)
    \/ \E p \in Password : InsertAccountCredential(p)
    \/ \E p, q \in Password : ChangePassword(p, q)
    \/ SendToken
    \/ \E t \in Token : Expire(t)

Spec == Init /\ [][Next]_vars

----------------------------------------------------------------------------
\* A password that was replaced by a reset, a change or another registration opens the
\* account again only when a login or a verification still held the row it was read from.
RetiredStaysOut == credential # None /\ credential.password \in retired => overtaken

\* A one-time token passes once.  Only two redemptions of one credential token that both
\* read the Postgres row before either deleted it pass together.
TokensPassOnce == \A t \in Token : redeemed[t] > 1 => Postgres /\ t \in raced
==============================================================================

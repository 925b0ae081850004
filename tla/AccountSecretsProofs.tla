------------------------- MODULE AccountSecretsProofs -------------------------
(*****************************************************************************)
(* Proofs about what keeps a person's account: for every number of users,    *)
(* passwords, accounts, grants and requests in flight together, and every    *)
(* value of the bounds and limits.                                           *)
(*****************************************************************************)
EXTENDS MCAccounts, Sequences, FiniteSets, FiniteSetTheorems, TLAPS

(* Credentials.                                                               *)

\* What each request brings with it, or has read.
Brings(w) ==
    /\ w.pc \in {"create", "register"} => w.password \in Pair /\ w.row = None
    /\ w.pc \in {"verify", "rehash", "admit", "user", "provision", "mark", "complete"} =>
         w.row # None
    /\ w.pc = "delete" => w.token # None /\ w.kind \in {"verify", "reset"}
    /\ w.pc \in {"delete", "redeem", "save"} /\ w.kind = "reset" => w.password \in Pair

\* A credential is never deleted, so a request that read one finds one.
AllBring ==
    \A r \in Request : crPending[r] # None =>
        Brings(crPending[r]) /\ (crPending[r].row # None => credential # None)

\* Who holds a row that was replaced since was overtaken.
Stale(row) == row # None /\ row.password \in retired
HeldRows == \A r \in Request : crPending[r] # None /\ Stale(crPending[r].row) => crOvertaken

\* The requests that are about to delete a token that they selected, and what is known of them: the
\* row is there or was there for them, and for each that has passed one was there less.
Deleting(t) == {r \in Request : Credentials!At(r, "delete") /\ crPending[r].token = t}
TokensCounted ==
    \A t \in Credentials!Token :
        /\ redeemed[t] + Cardinality(Deleting(t)) <= Cardinality(Request) + 1
        /\ t >= nextToken => tokens[t] = None
        /\ tokens[t] # None \/ t >= nextToken => redeemed[t] = 0
        /\ t >= nextToken => Deleting(t) = {}
DeletesItsKind ==
    \A r \in Request : Credentials!At(r, "delete") =>
        /\ Credentials!Postgres
        /\ tokens[crPending[r].token] \in {None, crPending[r].kind}

\* Two select the row together only where it is raced for.
PassesAlone ==
    \A t \in Credentials!Token :
        /\ t \in raced => Credentials!Postgres
        /\ t \notin raced => /\ redeemed[t] <= 1
                             /\ redeemed[t] = 1 => Deleting(t) = {}
                             /\ \A q, r \in Deleting(t) : q = r

PasswordsInv ==
    /\ Credentials!TypeOK
    /\ AllBring
    /\ HeldRows
    /\ Credentials!RetiredStaysOut
    /\ TokensCounted
    /\ DeletesItsKind
    /\ PassesAlone

\* The cardinality that Credentials takes from the standard module is the one that is counted here.
LEMMA SameCardinality == Credentials!Cardinality(Request) = Cardinality(Request)
BY DEF Credentials!Cardinality, Cardinality

\* At first nothing is stored and nobody works.
LEMMA PasswordsInit == Credentials!Init => PasswordsInv
<1> SUFFICES ASSUME Credentials!Init PROVE PasswordsInv
  OBVIOUS
<1>1. 1 \in 1 .. MaxMailed + 1 /\ Cardinality(Request) \in Nat /\ Cardinality({}) = 0
  BY AccountsAssumption, CredentialsAssumption, FS_CardinalityType, FS_EmptySet
<1>9. 0 \in 0 .. Cardinality(Request) + 1 /\ 0 + 0 <= Cardinality(Request) + 1
  BY <1>1
<1>2. Credentials!TypeOK
  <2>1. /\ tokens \in [Credentials!Token -> Credentials!Kind \cup {None}]
        /\ crPending \in [Request -> Credentials!Work \cup {None}]
    BY DEF Credentials!Init
  <2>2. redeemed \in [Credentials!Token -> 0 .. Cardinality(Request) + 1]
    BY <1>9 DEF Credentials!Init
  <2>3. redeemed \in [Credentials!Token -> 0 .. Credentials!Cardinality(Request) + 1]
    BY <2>2, SameCardinality
  <2> QED
    BY <1>1, <2>1, <2>3 DEF Credentials!Init, Credentials!TypeOK
<1>3. \A r \in Request : crPending[r] = None /\ \A pc : ~Credentials!At(r, pc)
  BY DEF Credentials!Init, Credentials!At
<1>4. AllBring /\ HeldRows /\ Credentials!RetiredStaysOut /\ DeletesItsKind
  BY <1>3 DEF Credentials!Init, AllBring, HeldRows, Credentials!RetiredStaysOut, DeletesItsKind
<1>5. \A u : Deleting(u) = {}
  BY <1>3 DEF Deleting
<1>6. \A u \in Credentials!Token : redeemed[u] = 0 /\ tokens[u] = None
  BY DEF Credentials!Init
<1>7. TokensCounted
  <2> SUFFICES ASSUME NEW u \in Credentials!Token
               PROVE  /\ redeemed[u] + Cardinality(Deleting(u)) <= Cardinality(Request) + 1
                      /\ tokens[u] = None /\ redeemed[u] = 0 /\ Deleting(u) = {}
    BY DEF TokensCounted
  <2>1. Deleting(u) = {} /\ redeemed[u] = 0 /\ tokens[u] = None
    BY <1>5, <1>6
  <2>2. redeemed[u] + Cardinality(Deleting(u)) = 0 + 0
    BY <1>1, <2>1
  <2> QED
    BY <1>9, <2>1, <2>2
<1>8. PassesAlone
  BY <1>5, <1>6 DEF Credentials!Init, PassesAlone
<1> QED
  BY <1>2, <1>4, <1>7, <1>8 DEF PasswordsInv

\* A request that works has a place among the steps and what it brings.
LEMMA CredentialAt ==
    ASSUME Credentials!TypeOK, AllBring, NEW r \in Request, crPending[r] # None
    PROVE  /\ crPending[r] \in Credentials!Work /\ Brings(crPending[r])
           /\ crPending[r].row # None =>
                crPending[r].row \in Credentials!Row /\ credential \in Credentials!Row
BY DEF Credentials!TypeOK, AllBring, Credentials!Work

\* What a step of a request does to the requests.
LEMMA CredentialWork ==
    ASSUME Credentials!TypeOK, AllBring, NEW r \in Request, NEW w,
           crPending' = [crPending EXCEPT ![r] = w],
           w = None \/ (w \in Credentials!Work /\ Brings(w) /\ (w.row # None => credential' # None)),
           credential # None => credential' # None
    PROVE  crPending' \in [Request -> Credentials!Work \cup {None}] /\ AllBring'
BY DEF Credentials!TypeOK, AllBring

\* A request that goes on with what it has brings that.
LEMMA CredentialOn ==
    ASSUME Credentials!TypeOK, AllBring, NEW r \in Request, crPending[r] # None,
           NEW pc \in {"register", "token", "rehash", "admit", "provision", "mark", "complete"},
           Credentials!On(r, pc),
           pc = "register" => crPending[r].pc = "create",
           pc \in {"rehash", "admit", "provision", "mark", "complete"} => crPending[r].row # None,
           credential # None => credential' # None
    PROVE  crPending' \in [Request -> Credentials!Work \cup {None}] /\ AllBring'
<1>1. crPending[r] \in Credentials!Work /\ Brings(crPending[r])
  BY CredentialAt
<1>2. PICK w : w = [crPending[r] EXCEPT !.pc = pc]
  OBVIOUS
<1>3. w \in Credentials!Work /\ w.pc = pc /\ w.row = crPending[r].row /\ w.password = crPending[r].password
  BY <1>1, <1>2 DEF Credentials!Work
<1>4. Brings(w)
  BY <1>1, <1>3 DEF Brings
<1>5. w.row # None => credential # None
  BY <1>3 DEF AllBring
<1>6. crPending' = [crPending EXCEPT ![r] = w]
  BY <1>2 DEF Credentials!On
<1> QED
  BY <1>3, <1>4, <1>5, <1>6, CredentialWork

\* The types, up to the bound on the redemptions of a token.
RedeemedBounded == redeemed \in [Credentials!Token -> 0 .. Credentials!Cardinality(Request) + 1]

\* A password that is chosen.
LEMMA ChosenTyped ==
    ASSUME Credentials!TypeOK, NEW r, NEW row \in Credentials!Row, NEW p \in Pair,
           Credentials!Chosen(r, row, p)
    PROVE  /\ credential' \in Credentials!Row /\ credential' # None
           /\ retired' \subseteq Pair /\ crOvertaken' \in BOOLEAN
BY AccountsAssumption, CredentialsAssumption DEF Credentials!TypeOK, Credentials!Chosen,
   Credentials!Row

\* A token that is issued is a new one.
LEMMA IssuesTyped ==
    ASSUME Credentials!TypeOK, NEW kind \in Credentials!Kind, Credentials!Issues(kind)
    PROVE  /\ nextToken \in Credentials!Token /\ nextToken' \in 1 .. MaxMailed + 1
           /\ nextToken' = nextToken + 1
           /\ tokens' \in [Credentials!Token -> Credentials!Kind \cup {None}]
           /\ tokens' = [tokens EXCEPT ![nextToken] = kind]
BY AccountsAssumption, CredentialsAssumption DEF Credentials!TypeOK, Credentials!Issues,
   Credentials!Token

\* A token that passes passes once more.
LEMMA PassesTyped ==
    ASSUME Credentials!TypeOK, AllBring, NEW r \in Request, NEW u \in Credentials!Token,
           NEW kind \in Credentials!Kind, NEW p \in Pair \cup {None}, kind = "reset" => p \in Pair,
           Credentials!Passes(r, u, kind, p), credential' = credential
    PROVE  /\ crPending' \in [Request -> Credentials!Work \cup {None}] /\ AllBring'
           /\ redeemed' \in [Credentials!Token -> Nat]
           /\ redeemed' = [redeemed EXCEPT ![u] = @ + 1]
<1>1. redeemed \in [Credentials!Token -> Nat]
  BY DEF Credentials!TypeOK
<1>2. redeemed' = [redeemed EXCEPT ![u] = @ + 1] /\ redeemed' \in [Credentials!Token -> Nat]
  BY <1>1 DEF Credentials!Passes
<1>3. CASE Credentials!Ends(r)
  BY <1>2, <1>3, CredentialWork DEF Credentials!Ends
<1>4. ASSUME NEW pc \in {"passwordless", "redeem"}, Credentials!Goes(r, pc, None, p, u, kind)
      PROVE  crPending' \in [Request -> Credentials!Work \cup {None}] /\ AllBring'
  <2>1. PICK w : w = [pc |-> pc, row |-> None, password |-> p, token |-> u, kind |-> kind]
    OBVIOUS
  <2>2. w \in Credentials!Work /\ Brings(w) /\ w.row = None
    BY <2>1 DEF Credentials!Work, Brings
  <2> QED
    BY <1>4, <2>1, <2>2, CredentialWork DEF Credentials!Goes
<1> QED
  BY <1>2, <1>3, <1>4 DEF Credentials!Passes

\* A redemption keeps the types of all it leaves alone.
LEMMA TypesKept ==
    ASSUME Credentials!TypeOK, RedeemedBounded',
           UNCHANGED <<setup, credential, account, nextToken, signedIn, retired, crOvertaken,
                       raced>>,
           crPending' \in [Request -> Credentials!Work \cup {None}],
           tokens' \in [Credentials!Token -> Credentials!Kind \cup {None}]
    PROVE  Credentials!TypeOK'
BY DEF Credentials!TypeOK, RedeemedBounded

\* Every step keeps the types and what requests bring.
LEMMA CredentialTypesNext ==
    ASSUME Credentials!TypeOK, AllBring, DeletesItsKind, [Credentials!Next]_crVars
    PROVE  /\ redeemed' \in [Credentials!Token -> Nat] /\ AllBring'
           /\ RedeemedBounded' => Credentials!TypeOK'
<1> DEFINE Goal == /\ redeemed' \in [Credentials!Token -> Nat] /\ AllBring'
                   /\ RedeemedBounded' => Credentials!TypeOK'
<1>t. /\ setup \in Setups /\ credential \in Credentials!Row \cup {None} /\ account \in BOOLEAN
      /\ tokens \in [Credentials!Token -> Credentials!Kind \cup {None}]
      /\ nextToken \in 1 .. MaxMailed + 1
      /\ crPending \in [Request -> Credentials!Work \cup {None}] /\ signedIn \subseteq Request
      /\ retired \subseteq Pair /\ crOvertaken \in BOOLEAN /\ raced \subseteq Credentials!Token
      /\ redeemed \in [Credentials!Token -> Nat]
  BY DEF Credentials!TypeOK
<1>v. Credentials!RequireEmailVerification \in BOOLEAN
  BY <1>t, AccountsAssumption, CredentialsAssumption DEF Credentials!RequireEmailVerification
<1>e. ASSUME NEW r \in Request, Credentials!Ends(r), credential # None => credential' # None
      PROVE  crPending' \in [Request -> Credentials!Work \cup {None}] /\ AllBring'
  BY <1>e, CredentialWork DEF Credentials!Ends
<1>u. ASSUME UNCHANGED crPending, credential # None => credential' # None
      PROVE  crPending' \in [Request -> Credentials!Work \cup {None}] /\ AllBring'
  BY <1>u, <1>t DEF AllBring
<1>1. ASSUME NEW r \in Request, NEW p \in Pair, Credentials!Register(r, p) PROVE Goal
  <2>1. PICK pc \in {"register", "create"} : Credentials!Goes(r, pc, None, p, None, None)
    BY <1>1 DEF Credentials!Register
  <2>2. PICK w : w = [pc |-> pc, row |-> None, password |-> p, token |-> None, kind |-> None]
    OBVIOUS
  <2>3. w \in Credentials!Work /\ Brings(w) /\ w.row = None
    BY <2>2 DEF Credentials!Work, Brings
  <2>4. crPending' \in [Request -> Credentials!Work \cup {None}] /\ AllBring'
    BY <1>1, <2>1, <2>2, <2>3, CredentialWork DEF Credentials!Goes, Credentials!Register
  <2> QED
    BY <1>1, <1>t, <2>1, <2>2, <2>3, <2>4 DEF Credentials!Register, Credentials!history,
       Credentials!tokenState, Credentials!TypeOK, RedeemedBounded
<1>2. ASSUME NEW r \in Request, Credentials!CreateUser(r) PROVE Goal
  <2>1. crPending[r] # None /\ crPending[r].pc = "create" /\ credential' = credential
    BY <1>2 DEF Credentials!CreateUser, Credentials!At
  <2>2. crPending' \in [Request -> Credentials!Work \cup {None}] /\ AllBring'
    BY <1>2, <1>e, <2>1, CredentialOn DEF Credentials!CreateUser
  <2> QED
    BY <1>2, <1>t, <2>1, <2>2 DEF Credentials!CreateUser, Credentials!history,
       Credentials!tokenState, Credentials!TypeOK, RedeemedBounded
<1>3. ASSUME NEW r \in Request, Credentials!SaveRegistration(r) PROVE Goal
  <2>1. crPending[r] # None /\ crPending[r].pc = "register"
    BY <1>3 DEF Credentials!SaveRegistration, Credentials!At
  <2>2. crPending[r].password \in Pair
    BY <2>1, CredentialAt DEF Brings
  <2>3. [password |-> crPending[r].password, legacy |-> FALSE, emailVerified |-> FALSE,
         registrationData |-> Credentials!RequireEmailVerification, user |-> FALSE] \in Credentials!Row
    BY <1>v, <2>2 DEF Credentials!Row
  <2>4. /\ credential' \in Credentials!Row /\ credential' # None
        /\ retired' \subseteq Pair /\ crOvertaken' \in BOOLEAN
    BY <1>3, <2>2, <2>3, ChosenTyped DEF Credentials!SaveRegistration
  <2>5. crPending' \in [Request -> Credentials!Work \cup {None}] /\ AllBring'
    BY <1>3, <2>1, <2>4, CredentialOn DEF Credentials!SaveRegistration
  <2> QED
    BY <1>3, <1>t, <2>1, <2>2, <2>3, <2>4, <2>5 DEF Credentials!SaveRegistration,
       Credentials!history, Credentials!tokenState, Credentials!TypeOK, RedeemedBounded
<1>4. ASSUME NEW r \in Request, Credentials!SendVerification(r) PROVE Goal
  <2>1. /\ nextToken' \in 1 .. MaxMailed + 1
        /\ tokens' \in [Credentials!Token -> Credentials!Kind \cup {None}]
    BY <1>4, IssuesTyped DEF Credentials!SendVerification, Credentials!Kind
  <2>2. crPending' \in [Request -> Credentials!Work \cup {None}] /\ AllBring'
    BY <1>4, <1>e DEF Credentials!SendVerification
  <2> QED
    BY <1>4, <1>t, <2>1, <2>2 DEF Credentials!SendVerification, Credentials!history,
       Credentials!tokenState, Credentials!TypeOK, RedeemedBounded
<1>5. ASSUME NEW p \in Pair, NEW legacy \in BOOLEAN, Credentials!Import(p, legacy) PROVE Goal
  <2>1. [password |-> p, legacy |-> legacy, emailVerified |-> TRUE, registrationData |-> FALSE,
         user |-> TRUE] \in Credentials!Row
    BY DEF Credentials!Row
  <2>2. /\ credential' \in Credentials!Row /\ credential' # None
        /\ retired' \subseteq Pair /\ crOvertaken' \in BOOLEAN
    BY <1>5, <2>1, ChosenTyped DEF Credentials!Import
  <2>3. crPending' \in [Request -> Credentials!Work \cup {None}] /\ AllBring'
    BY <1>5, <1>u, <2>2 DEF Credentials!Import
  <2> QED
    BY <1>5, <1>t, <2>1, <2>2, <2>3 DEF Credentials!Import, Credentials!history,
       Credentials!tokenState, Credentials!TypeOK, RedeemedBounded
<1>6. ASSUME NEW p \in Pair, Credentials!InsertAccountCredential(p) PROVE Goal
  <2>1. [password |-> p, legacy |-> FALSE, emailVerified |-> FALSE, registrationData |-> FALSE,
         user |-> TRUE] \in Credentials!Row
    BY DEF Credentials!Row
  <2>2. /\ credential' \in Credentials!Row /\ credential' # None
        /\ retired' \subseteq Pair /\ crOvertaken' \in BOOLEAN
    BY <1>6, <2>1, ChosenTyped DEF Credentials!InsertAccountCredential
  <2>3. crPending' \in [Request -> Credentials!Work \cup {None}] /\ AllBring'
    BY <1>6, <1>u, <2>2 DEF Credentials!InsertAccountCredential
  <2> QED
    BY <1>6, <1>t, <2>1, <2>2, <2>3 DEF Credentials!InsertAccountCredential, Credentials!history,
       Credentials!tokenState, Credentials!TypeOK, RedeemedBounded
<1>7. ASSUME NEW r \in Request, NEW p \in Pair, Credentials!Login(r, p) PROVE Goal
  <2>1. credential \in Credentials!Row /\ credential # None /\ credential' = credential
    BY <1>7, <1>t DEF Credentials!Login
  <2>2. Credentials!Goes(r, "verify", credential, p, None, None)
    BY <1>7 DEF Credentials!Login
  <2>3. PICK w : w = [pc |-> "verify", row |-> credential, password |-> p, token |-> None, kind |-> None]
    OBVIOUS
  <2>4. w \in Credentials!Work /\ Brings(w)
    BY <2>1, <2>3 DEF Credentials!Work, Brings
  <2>5. crPending' \in [Request -> Credentials!Work \cup {None}] /\ AllBring'
    BY <2>1, <2>2, <2>3, <2>4, CredentialWork DEF Credentials!Goes
  <2> QED
    BY <1>7, <1>t, <2>1, <2>2, <2>3, <2>4, <2>5 DEF Credentials!Login, Credentials!history,
       Credentials!tokenState, Credentials!TypeOK, RedeemedBounded
<1>8. ASSUME NEW r \in Request, Credentials!Rehash(r) PROVE Goal
  <2>1. crPending[r] # None /\ crPending[r].pc = "rehash"
    BY <1>8 DEF Credentials!Rehash, Credentials!At
  <2>2. crPending[r].row \in Credentials!Row /\ crPending[r].row # None
    BY <2>1, CredentialAt DEF Brings
  <2>3. credential' \in Credentials!Row /\ credential' # None
    BY <1>8, <2>2, AccountsAssumption, CredentialsAssumption DEF Credentials!Rehash,
       Credentials!Rehashed,
       Credentials!Row
  <2>4. crPending' \in [Request -> Credentials!Work \cup {None}] /\ AllBring'
    BY <1>8, <2>1, <2>2, <2>3, CredentialOn DEF Credentials!Rehash
  <2> QED
    BY <1>8, <1>t, <2>1, <2>2, <2>3, <2>4 DEF Credentials!Rehash, Credentials!history,
       Credentials!tokenState, Credentials!TypeOK, RedeemedBounded
<1>9. ASSUME NEW r \in Request, Credentials!Admit(r) PROVE Goal
  <2>1. crPending' \in [Request -> Credentials!Work \cup {None}] /\ AllBring'
    BY <1>9, <1>e DEF Credentials!Admit
  <2> QED
    BY <1>9, <1>t, <2>1 DEF Credentials!Admit, Credentials!history, Credentials!tokenState,
       Credentials!TypeOK, RedeemedBounded
<1>10. ASSUME NEW r \in Request, Credentials!SignOut(r) PROVE Goal
  <2>1. crPending' \in [Request -> Credentials!Work \cup {None}] /\ AllBring'
    BY <1>10, <1>u DEF Credentials!SignOut
  <2> QED
    BY <1>10, <1>t, <2>1 DEF Credentials!SignOut, Credentials!history, Credentials!tokenState,
       Credentials!TypeOK, RedeemedBounded
<1>11. ASSUME NEW p \in Pair, NEW q \in Pair, Credentials!ChangePassword(p, q) PROVE Goal
  <2>1. [credential EXCEPT !.password = q, !.legacy = FALSE] \in Credentials!Row
    BY <1>11, <1>t DEF Credentials!ChangePassword, Credentials!Row
  <2>2. /\ credential' \in Credentials!Row /\ credential' # None
        /\ retired' \subseteq Pair /\ crOvertaken' \in BOOLEAN
    BY <1>11, <2>1, ChosenTyped DEF Credentials!ChangePassword
  <2>3. crPending' \in [Request -> Credentials!Work \cup {None}] /\ AllBring'
    BY <1>11, <1>u, <2>2 DEF Credentials!ChangePassword
  <2> QED
    BY <1>11, <1>t, <2>1, <2>2, <2>3 DEF Credentials!ChangePassword, Credentials!history,
       Credentials!tokenState, Credentials!TypeOK, RedeemedBounded
<1>12. ASSUME Credentials!SendToken PROVE Goal
  <2>1. PICK kind \in Credentials!Kind : Credentials!Issues(kind)
    BY <1>12 DEF Credentials!SendToken, Credentials!SendVerificationAgain, Credentials!SendReset,
       Credentials!SendLink, Credentials!SendCode, Credentials!Kind, Credentials!Passwordless
  <2>2. /\ nextToken' \in 1 .. MaxMailed + 1
        /\ tokens' \in [Credentials!Token -> Credentials!Kind \cup {None}]
    BY <2>1, IssuesTyped
  <2>3. crPending' \in [Request -> Credentials!Work \cup {None}] /\ AllBring'
    BY <1>12, <1>u DEF Credentials!SendToken
  <2> QED
    BY <1>12, <1>t, <2>1, <2>2, <2>3 DEF Credentials!SendToken, Credentials!history,
       Credentials!tokenState, Credentials!TypeOK, RedeemedBounded
<1>13. ASSUME NEW u \in Credentials!Token, Credentials!Expire(u) PROVE Goal
  <2>1. crPending' \in [Request -> Credentials!Work \cup {None}] /\ AllBring'
    BY <1>13, <1>u DEF Credentials!Expire
  <2> QED
    BY <1>13, <1>t, <2>1 DEF Credentials!Expire, Credentials!history, Credentials!tokenState,
       Credentials!TypeOK, RedeemedBounded
<1>14. ASSUME NEW r \in Request, NEW u \in Credentials!Token, NEW p \in Pair, Credentials!Redeem(r, u, p)
       PROVE  Goal
  <2>1. /\ UNCHANGED <<setup, credential, account, nextToken, signedIn, retired, crOvertaken>>
        /\ tokens[u] \in Credentials!Kind
    BY <1>14 DEF Credentials!Redeem, Credentials!RedeemLink, Credentials!RedeemCode,
       Credentials!RedeemCredentialToken, Credentials!Kind, Credentials!Passwordless
  <2>2. ASSUME NEW x \in Pair \cup {None}, tokens[u] = "reset" => x \in Pair, Credentials!Redeemed(r, u, x)
        PROVE  Goal
    <3>1. /\ crPending' \in [Request -> Credentials!Work \cup {None}] /\ AllBring'
          /\ redeemed' \in [Credentials!Token -> Nat]
      BY <2>1, <2>2, PassesTyped DEF Credentials!Redeemed
    <3>2. /\ tokens' \in [Credentials!Token -> Credentials!Kind \cup {None}] /\ raced' = raced
      BY <1>t, <2>2 DEF Credentials!Redeemed, Credentials!Consumed
    <3>3. RedeemedBounded' => Credentials!TypeOK'
      BY <2>1, <3>1, <3>2, TypesKept
    <3> QED
      BY <3>1, <3>3
  <2>3. ASSUME tokens[u] \in {"verify", "reset"}, Credentials!SelectToken(r, u, p) PROVE Goal
    <3>1. PICK w : w = [pc |-> "delete", row |-> None, password |-> p, token |-> u, kind |-> tokens[u]]
      OBVIOUS
    <3>2. w \in Credentials!Work /\ Brings(w) /\ w.row = None
      <4>1. u # None
        BY AccountsAssumption, CredentialsAssumption DEF Credentials!Token
      <4> QED
        BY <2>1, <2>3, <3>1, <4>1 DEF Credentials!Work, Brings
    <3>3. crPending' \in [Request -> Credentials!Work \cup {None}] /\ AllBring'
      BY <2>1, <2>3, <3>1, <3>2, CredentialWork DEF Credentials!SelectToken, Credentials!Goes
    <3>4. raced' \subseteq Credentials!Token /\ UNCHANGED <<tokens, redeemed>>
      BY <1>t, <2>3 DEF Credentials!SelectToken
    <3> QED
      BY <1>t, <2>1, <3>3, <3>4 DEF Credentials!TypeOK, RedeemedBounded
  <2>4. \/ tokens[u] \in {"link", "code"} /\ Credentials!Redeemed(r, u, None)
        \/ /\ tokens[u] \in {"verify", "reset"}
           /\ Credentials!SelectToken(r, u, p) \/ Credentials!Redeemed(r, u, p)
    BY <1>14 DEF Credentials!Redeem, Credentials!RedeemLink, Credentials!RedeemCode,
       Credentials!RedeemCredentialToken
  <2> QED
    BY <2>2, <2>3, <2>4
<1>15. ASSUME NEW r \in Request, Credentials!Delete(r) PROVE Goal
  <2>1. crPending[r] \in Credentials!Work /\ Brings(crPending[r]) /\ crPending[r].pc = "delete"
    BY <1>15, CredentialAt DEF Credentials!Delete, Credentials!At
  <2>2. PICK u \in Credentials!Token, kind \in {"verify", "reset"}, p \in Pair \cup {None} :
            /\ u = crPending[r].token /\ kind = crPending[r].kind /\ p = crPending[r].password
            /\ kind = "reset" => p \in Pair
    BY <2>1 DEF Brings, Credentials!Work
  <2>3. /\ Credentials!Passes(r, u, kind, p) /\ tokens' = Credentials!Consumed(u)
        /\ UNCHANGED <<setup, credential, account, nextToken, signedIn, retired, crOvertaken, raced>>
    BY <1>15, <2>2 DEF Credentials!Delete
  <2>4. /\ crPending' \in [Request -> Credentials!Work \cup {None}] /\ AllBring'
        /\ redeemed' \in [Credentials!Token -> Nat]
    BY <2>2, <2>3, PassesTyped DEF Credentials!Kind
  <2>5. tokens' \in [Credentials!Token -> Credentials!Kind \cup {None}]
    BY <1>t, <2>3 DEF Credentials!Consumed
  <2>6. RedeemedBounded' => Credentials!TypeOK'
    BY <2>3, <2>4, <2>5, TypesKept
  <2> QED
    BY <2>4, <2>6
<1>16. ASSUME NEW r \in Request, Credentials!ReadCredential(r) PROVE Goal
  <2>1. crPending[r] \in Credentials!Work /\ Brings(crPending[r]) /\ crPending[r].pc = "redeem"
    BY <1>16, CredentialAt DEF Credentials!ReadCredential, Credentials!At
  <2>2. crPending' \in [Request -> Credentials!Work \cup {None}] /\ AllBring'
    <3>1. CASE crPending[r].kind = "verify" /\ credential = None
      BY <1>16, <1>e, <3>1 DEF Credentials!ReadCredential
    <3>2. CASE ~(crPending[r].kind = "verify" /\ credential = None)
      <4>0. PICK pc \in {"user", "save"} :
                pc = IF crPending[r].kind = "verify" THEN "user" ELSE "save"
        OBVIOUS
      <4>1. PICK w : w = [crPending[r] EXCEPT !.row = credential, !.pc = pc]
        OBVIOUS
      <4>2. crPending' = [crPending EXCEPT ![r] = w] /\ credential' = credential
        BY <1>16, <1>t, <3>2, <4>0, <4>1 DEF Credentials!ReadCredential
      <4>3. /\ w \in Credentials!Work /\ w.row = credential /\ w.pc = pc
            /\ w.kind = crPending[r].kind /\ w.password = crPending[r].password
        BY <1>t, <2>1, <4>1 DEF Credentials!Work
      <4>4. Brings(w)
        BY <2>1, <3>2, <4>0, <4>3 DEF Brings
      <4> QED
        BY <4>2, <4>3, <4>4, CredentialWork
    <3> QED
      BY <3>1, <3>2
  <2> QED
    BY <1>16, <1>t, <2>2 DEF Credentials!ReadCredential, Credentials!history,
       Credentials!tokenState,
       Credentials!TypeOK, RedeemedBounded
<1>17. ASSUME NEW r \in Request, Credentials!SetEmailVerified(r) PROVE Goal
  <2>1. crPending[r] # None /\ crPending[r].pc = "mark"
    BY <1>17 DEF Credentials!SetEmailVerified, Credentials!At
  <2>2. crPending[r].row # None /\ credential \in Credentials!Row
    BY <2>1, CredentialAt DEF Brings
  <2>3. credential' \in Credentials!Row /\ credential' # None
    BY <1>17, <2>2, AccountsAssumption, CredentialsAssumption DEF Credentials!SetEmailVerified,
       Credentials!Row
  <2>4. crPending' \in [Request -> Credentials!Work \cup {None}] /\ AllBring'
    BY <1>17, <1>e, <2>1, <2>2, <2>3, CredentialOn DEF Credentials!SetEmailVerified
  <2> QED
    BY <1>17, <1>t, <2>3, <2>4 DEF Credentials!SetEmailVerified, Credentials!history,
       Credentials!tokenState, Credentials!TypeOK, RedeemedBounded
<1>22. ASSUME NEW r \in Request, Credentials!Verify(r) PROVE Goal
  <2>1. crPending[r] # None /\ crPending[r].row # None /\ credential' = credential
    BY <1>22, CredentialAt DEF Credentials!Verify, Credentials!At, Brings
  <2>2. \/ Credentials!Ends(r)
        \/ \E pc \in {"rehash", "admit"} : Credentials!On(r, pc)
    BY <1>22 DEF Credentials!Verify
  <2>3. crPending' \in [Request -> Credentials!Work \cup {None}] /\ AllBring'
    BY <1>e, <2>1, <2>2, CredentialOn
  <2> QED
    BY <1>22, <1>t, <2>3 DEF Credentials!Verify, Credentials!history,
       Credentials!tokenState, Credentials!TypeOK, RedeemedBounded
<1>23. ASSUME NEW r \in Request, Credentials!ReadUser(r) PROVE Goal
  <2>1. crPending[r] # None /\ crPending[r].row # None /\ credential' = credential
    BY <1>23, CredentialAt DEF Credentials!ReadUser, Credentials!At, Brings
  <2>2. \E pc \in {"provision", "mark"} : Credentials!On(r, pc)
    BY <1>23 DEF Credentials!ReadUser
  <2>3. crPending' \in [Request -> Credentials!Work \cup {None}] /\ AllBring'
    BY <2>1, <2>2, CredentialOn
  <2> QED
    BY <1>23, <1>t, <2>3 DEF Credentials!ReadUser, Credentials!history,
       Credentials!tokenState, Credentials!TypeOK, RedeemedBounded
<1>24. ASSUME NEW r \in Request, Credentials!CreateVerifiedUser(r) PROVE Goal
  <2>1. crPending[r] # None /\ crPending[r].row # None /\ credential' = credential
    BY <1>24, CredentialAt DEF Credentials!CreateVerifiedUser, Credentials!At, Brings
  <2>2. Credentials!Ends(r) \/ Credentials!On(r, "mark")
    BY <1>24 DEF Credentials!CreateVerifiedUser
  <2>3. crPending' \in [Request -> Credentials!Work \cup {None}] /\ AllBring'
    BY <1>e, <2>1, <2>2, CredentialOn
  <2> QED
    BY <1>24, <1>t, <2>3 DEF Credentials!CreateVerifiedUser, Credentials!history,
       Credentials!tokenState, Credentials!TypeOK, RedeemedBounded
<1>18. ASSUME NEW r \in Request, Credentials!CompleteRegistration(r) PROVE Goal
  <2>1. crPending[r] # None /\ crPending[r].pc = "complete"
    BY <1>18 DEF Credentials!CompleteRegistration, Credentials!At
  <2>2. crPending[r].row \in Credentials!Row
    BY <2>1, CredentialAt DEF Brings
  <2>3. credential' \in Credentials!Row /\ credential' # None
    BY <1>18, <2>2, AccountsAssumption, CredentialsAssumption
       DEF Credentials!CompleteRegistration, Credentials!Row
  <2>4. crPending' \in [Request -> Credentials!Work \cup {None}] /\ AllBring'
    BY <1>18, <1>e, <2>3 DEF Credentials!CompleteRegistration
  <2> QED
    BY <1>18, <1>t, <2>1, <2>2, <2>3, <2>4 DEF Credentials!CompleteRegistration,
       Credentials!history, Credentials!tokenState, Credentials!TypeOK, RedeemedBounded
<1>19. ASSUME NEW r \in Request, Credentials!ResetPassword(r) PROVE Goal
  <2>1. crPending[r] # None /\ crPending[r].pc = "save" /\ crPending[r].kind = "reset"
    BY <1>19 DEF Credentials!ResetPassword, Credentials!At
  <2>2. crPending[r].password \in Pair /\ crPending[r].row \in Credentials!Row \cup {None}
    BY <2>1, CredentialAt DEF Brings, Credentials!Work
  <2>3. Credentials!ResetRow(r) \in Credentials!Row
    BY <2>2 DEF Credentials!ResetRow, Credentials!Row
  <2>4. /\ credential' \in Credentials!Row /\ credential' # None
        /\ retired' \subseteq Pair /\ crOvertaken' \in BOOLEAN
    BY <1>19, <2>2, <2>3, ChosenTyped DEF Credentials!ResetPassword
  <2>5. crPending' \in [Request -> Credentials!Work \cup {None}] /\ AllBring'
    BY <1>19, <1>e, <2>4 DEF Credentials!ResetPassword
  <2> QED
    BY <1>19, <1>t, <2>1, <2>2, <2>3, <2>4, <2>5 DEF Credentials!ResetPassword,
       Credentials!history, Credentials!tokenState, Credentials!TypeOK, RedeemedBounded
<1>20. ASSUME NEW r \in Request, Credentials!PasswordlessLogin(r) PROVE Goal
  <2>1. crPending' \in [Request -> Credentials!Work \cup {None}] /\ AllBring'
    BY <1>20, <1>e DEF Credentials!PasswordlessLogin
  <2> QED
    BY <1>20, <1>t, <2>1 DEF Credentials!PasswordlessLogin, Credentials!history,
       Credentials!tokenState, Credentials!TypeOK, RedeemedBounded
<1>21. ASSUME UNCHANGED crVars PROVE Goal
  BY <1>21, <1>t, <1>u DEF crVars, Credentials!TypeOK, RedeemedBounded
<1> QED
  BY <1>1, <1>2, <1>3, <1>4, <1>5, <1>6, <1>7, <1>8, <1>9, <1>10, <1>11, <1>12, <1>13, <1>14,
     <1>15, <1>16, <1>17, <1>18, <1>19, <1>20, <1>21, <1>22, <1>23,
     <1>24 DEF Credentials!Next

\* The rows that requests hold after a step: the ones they held, or the credential as it was.
RowsKept ==
    \A q \in Request :
        \/ crPending'[q] = None
        \/ crPending'[q].row \in {None, credential}
        \/ crPending[q] # None /\ crPending'[q].row = crPending[q].row

\* The requests that are about to delete a token after a step were so before it.
StillDeletes ==
    \A q \in Request :
        crPending'[q] # None /\ crPending'[q].pc = "delete" => crPending'[q] = crPending[q]

\* A request that ends, one that goes on and one that begins.
LEMMA RowsEnd ==
    ASSUME Credentials!TypeOK, NEW r \in Request, Credentials!Ends(r)
    PROVE  RowsKept /\ StillDeletes
BY DEF Credentials!TypeOK, Credentials!Ends, RowsKept, StillDeletes

\* A request that goes on keeps the row it holds.
LEMMA RowsOn ==
    ASSUME Credentials!TypeOK, AllBring, NEW r \in Request, crPending[r] # None,
           NEW pc \in {"register", "token", "rehash", "admit", "provision", "mark", "complete"},
           Credentials!On(r, pc)
    PROVE  RowsKept /\ StillDeletes /\ crPending'[r].row = crPending[r].row
<1>1. PICK w : w = [crPending[r] EXCEPT !.pc = pc]
  OBVIOUS
<1>2. crPending[r] \in Credentials!Work
  BY CredentialAt
<1>3. w.pc = pc /\ w.row = crPending[r].row
  BY <1>1, <1>2 DEF Credentials!Work
<1>4. crPending' = [crPending EXCEPT ![r] = w]
  BY <1>1 DEF Credentials!On
<1>5. crPending'[r] = w /\ \A q \in Request \ {r} : crPending'[q] = crPending[q]
  BY <1>4 DEF Credentials!TypeOK
<1> QED
  BY <1>3, <1>5 DEF RowsKept, StillDeletes

\* A request that takes a row out of the store holds it.
LEMMA RowsGo ==
    ASSUME Credentials!TypeOK, NEW r \in Request, NEW pc, NEW row, NEW p, NEW u, NEW kind,
           row \in {None, credential}, Credentials!Goes(r, pc, row, p, u, kind)
    PROVE  /\ RowsKept /\ (pc # "delete" => StillDeletes)
           /\ crPending'[r] # None => crPending'[r].pc = pc
<1>1. PICK w : w = [pc |-> pc, row |-> row, password |-> p, token |-> u, kind |-> kind]
  OBVIOUS
<1>2. crPending'[r] = w /\ \A q \in Request \ {r} : crPending'[q] = crPending[q]
  BY <1>1 DEF Credentials!Goes, Credentials!TypeOK
<1>3. w.row = row /\ w.pc = pc
  BY <1>1
<1> QED
  BY <1>2, <1>3 DEF RowsKept, StillDeletes

\* A step that chooses no password leaves no row stale.
LEMMA OutStays ==
    ASSUME HeldRows, Credentials!RetiredStaysOut, RowsKept, UNCHANGED <<retired, crOvertaken>>,
           credential' # None /\ credential'.password \in retired => crOvertaken
    PROVE  HeldRows' /\ Credentials!RetiredStaysOut'
BY DEF HeldRows, Stale, Credentials!RetiredStaysOut, RowsKept

\* One that chooses a password retires no row that its request goes on with.
LEMMA OutChosen ==
    ASSUME Credentials!TypeOK, NEW r, NEW row, NEW p, row.password = p, Credentials!Chosen(r, row, p),
           RowsKept,
           \A q \in Request : \/ crPending'[q] = None
                              \/ crPending'[q].row = None
                              \/ q # r /\ crPending'[q] = crPending[q]
    PROVE  HeldRows' /\ Credentials!RetiredStaysOut'
<1>1. credential' = row /\ p \notin retired'
  BY DEF Credentials!Chosen
<1>2. Credentials!RetiredStaysOut'
  BY <1>1 DEF Credentials!RetiredStaysOut
<1>3. ASSUME NEW q \in Request, crPending'[q] # None, crPending'[q].row # None PROVE crOvertaken'
  BY <1>3 DEF Credentials!Chosen
<1>4. HeldRows'
  BY <1>3 DEF HeldRows, Stale
<1> QED
  BY <1>2, <1>4

\* Every step keeps the rows, and only the selection of a token begins a deletion.
LEMMA RowsNext ==
    ASSUME Credentials!TypeOK, AllBring, [Credentials!Next]_crVars
    PROVE  /\ RowsKept
           /\ \/ StillDeletes
              \/ \E r \in Request, u \in Credentials!Token, p \in Pair :
                    Credentials!Redeem(r, u, p) /\ Credentials!SelectToken(r, u, p)
<1> DEFINE Goal == /\ RowsKept
                   /\ \/ StillDeletes
                      \/ \E r \in Request, u \in Credentials!Token, p \in Pair :
                            Credentials!Redeem(r, u, p) /\ Credentials!SelectToken(r, u, p)
<1>e. ASSUME NEW r \in Request, Credentials!Ends(r) PROVE Goal
  BY <1>e, RowsEnd
<1>u. ASSUME UNCHANGED crPending PROVE Goal
  BY <1>u DEF RowsKept, StillDeletes
<1>o. ASSUME NEW r \in Request,
             NEW pc \in {"register", "token", "rehash", "admit", "provision", "mark", "complete"},
             crPending[r] # None, Credentials!On(r, pc)
      PROVE  Goal
  BY <1>o, RowsOn
<1>g. ASSUME NEW r \in Request, NEW row \in {None, credential}, NEW p, NEW u, NEW kind,
             NEW pc \in {"register", "create", "verify", "passwordless", "redeem"},
             Credentials!Goes(r, pc, row, p, u, kind)
      PROVE  Goal
  BY <1>g, RowsGo
<1>1. ASSUME NEW r \in Request, NEW p \in Pair, Credentials!Register(r, p) PROVE Goal
  <2>1. PICK pc \in {"register", "create"} : Credentials!Goes(r, pc, None, p, None, None)
    BY <1>1 DEF Credentials!Register
  <2> QED
    BY <1>g, <2>1
<1>2. ASSUME NEW r \in Request, Credentials!CreateUser(r) PROVE Goal
  BY <1>2, <1>e, <1>o DEF Credentials!CreateUser, Credentials!At
<1>3. ASSUME NEW r \in Request, Credentials!SaveRegistration(r) PROVE Goal
  BY <1>3, <1>o DEF Credentials!SaveRegistration, Credentials!At
<1>4. ASSUME NEW r \in Request, Credentials!SendVerification(r) PROVE Goal
  BY <1>4, <1>e DEF Credentials!SendVerification
<1>5. ASSUME NEW p \in Pair, NEW legacy \in BOOLEAN, Credentials!Import(p, legacy) PROVE Goal
  BY <1>5, <1>u DEF Credentials!Import
<1>6. ASSUME NEW p \in Pair, Credentials!InsertAccountCredential(p) PROVE Goal
  BY <1>6, <1>u DEF Credentials!InsertAccountCredential
<1>7. ASSUME NEW r \in Request, NEW p \in Pair, Credentials!Login(r, p) PROVE Goal
  <2>1. Credentials!Goes(r, "verify", credential, p, None, None)
    BY <1>7 DEF Credentials!Login
  <2> QED
    BY <1>g, <2>1
<1>8. ASSUME NEW r \in Request, Credentials!Rehash(r) PROVE Goal
  BY <1>8, <1>o DEF Credentials!Rehash, Credentials!At
<1>9. ASSUME NEW r \in Request, Credentials!Admit(r) PROVE Goal
  BY <1>9, <1>e DEF Credentials!Admit
<1>10. ASSUME NEW r \in Request, Credentials!SignOut(r) PROVE Goal
  BY <1>10, <1>u DEF Credentials!SignOut
<1>11. ASSUME NEW p \in Pair, NEW q \in Pair, Credentials!ChangePassword(p, q) PROVE Goal
  BY <1>11, <1>u DEF Credentials!ChangePassword
<1>12. ASSUME Credentials!SendToken PROVE Goal
  BY <1>12, <1>u DEF Credentials!SendToken
<1>13. ASSUME NEW u \in Credentials!Token, Credentials!Expire(u) PROVE Goal
  BY <1>13, <1>u DEF Credentials!Expire
<1>p. ASSUME NEW r \in Request, NEW u, NEW kind, NEW p, Credentials!Passes(r, u, kind, p) PROVE Goal
  <2>1. CASE Credentials!Ends(r)
    BY <1>e, <2>1
  <2>2. CASE \E pc \in {"passwordless", "redeem"} : Credentials!Goes(r, pc, None, p, u, kind)
    <3>1. PICK pc \in {"passwordless", "redeem"} : Credentials!Goes(r, pc, None, p, u, kind)
      BY <2>2
    <3> QED
      BY <1>g, <3>1
  <2> QED
    BY <1>p, <2>1, <2>2 DEF Credentials!Passes
<1>14. ASSUME NEW r \in Request, NEW u \in Credentials!Token, NEW p \in Pair,
              Credentials!Redeem(r, u, p)
       PROVE  Goal
  <2>1. CASE Credentials!SelectToken(r, u, p)
    <3>1. PICK kind : Credentials!Goes(r, "delete", None, p, u, kind)
      BY <2>1 DEF Credentials!SelectToken
    <3> QED
      BY <1>14, <2>1, <3>1, RowsGo
  <2>2. CASE \E x : Credentials!Redeemed(r, u, x)
    <3>1. PICK x : Credentials!Redeemed(r, u, x)
      BY <2>2
    <3> QED
      BY <1>p, <3>1 DEF Credentials!Redeemed
  <2> QED
    BY <1>14, <2>1, <2>2 DEF Credentials!Redeem, Credentials!RedeemLink, Credentials!RedeemCode,
       Credentials!RedeemCredentialToken
<1>15. ASSUME NEW r \in Request, Credentials!Delete(r) PROVE Goal
  <2>1. PICK u, kind, p : Credentials!Passes(r, u, kind, p)
    BY <1>15 DEF Credentials!Delete
  <2> QED
    BY <1>p, <2>1
<1>16. ASSUME NEW r \in Request, Credentials!ReadCredential(r) PROVE Goal
  <2>1. CASE Credentials!Ends(r)
    BY <1>e, <2>1
  <2>2. ASSUME NEW pc \in {"user", "save"},
               crPending' = [crPending EXCEPT ![r].row = credential, ![r].pc = pc]
        PROVE  Goal
    <3>1. crPending[r] \in Credentials!Work
      BY <1>16, CredentialAt DEF Credentials!ReadCredential, Credentials!At
    <3>2. PICK w : w = [crPending[r] EXCEPT !.row = credential, !.pc = pc]
      OBVIOUS
    <3>3. w.row = credential /\ w.pc = pc
      BY <3>1, <3>2 DEF Credentials!Work
    <3>4. crPending'[r] = w /\ \A q \in Request \ {r} : crPending'[q] = crPending[q]
      BY <2>2, <3>2 DEF Credentials!TypeOK
    <3> QED
      BY <3>3, <3>4 DEF RowsKept, StillDeletes
  <2>3. \/ Credentials!Ends(r)
        \/ \E pc \in {"user", "save"} :
              crPending' = [crPending EXCEPT ![r].row = credential, ![r].pc = pc]
    BY <1>16 DEF Credentials!ReadCredential
  <2> QED
    BY <2>1, <2>2, <2>3
<1>17. ASSUME NEW r \in Request, Credentials!SetEmailVerified(r) PROVE Goal
  BY <1>17, <1>e, <1>o DEF Credentials!SetEmailVerified, Credentials!At
<1>22. ASSUME NEW r \in Request, Credentials!Verify(r) PROVE Goal
  <2>1. \/ Credentials!Ends(r)
        \/ \E pc \in {"rehash", "admit"} : crPending[r] # None /\ Credentials!On(r, pc)
    BY <1>22 DEF Credentials!Verify, Credentials!At
  <2> QED
    BY <1>e, <1>o, <2>1
<1>23. ASSUME NEW r \in Request, Credentials!ReadUser(r) PROVE Goal
  <2>1. \E pc \in {"provision", "mark"} : crPending[r] # None /\ Credentials!On(r, pc)
    BY <1>23 DEF Credentials!ReadUser, Credentials!At
  <2> QED
    BY <1>o, <2>1
<1>24. ASSUME NEW r \in Request, Credentials!CreateVerifiedUser(r) PROVE Goal
  BY <1>24, <1>e, <1>o DEF Credentials!CreateVerifiedUser, Credentials!At
<1>18. ASSUME NEW r \in Request, Credentials!CompleteRegistration(r) PROVE Goal
  BY <1>18, <1>e DEF Credentials!CompleteRegistration
<1>19. ASSUME NEW r \in Request, Credentials!ResetPassword(r) PROVE Goal
  BY <1>19, <1>e DEF Credentials!ResetPassword
<1>20. ASSUME NEW r \in Request, Credentials!PasswordlessLogin(r) PROVE Goal
  BY <1>20, <1>e DEF Credentials!PasswordlessLogin
<1>21. ASSUME UNCHANGED crVars PROVE Goal
  BY <1>21, <1>u DEF crVars
<1> QED
  BY <1>1, <1>2, <1>3, <1>4, <1>5, <1>6, <1>7, <1>8, <1>9, <1>10, <1>11, <1>12, <1>13, <1>14,
     <1>15, <1>16, <1>17, <1>18, <1>19, <1>20, <1>21, <1>22, <1>23,
     <1>24 DEF Credentials!Next

\* Every step leaves a replaced password out, but for requests that it overtook.
LEMMA OutNext ==
    ASSUME Credentials!TypeOK, AllBring, HeldRows, Credentials!RetiredStaysOut,
           [Credentials!Next]_crVars
    PROVE  HeldRows' /\ Credentials!RetiredStaysOut'
<1>r. RowsKept
  BY RowsNext
<1>k. ASSUME UNCHANGED <<credential, retired, crOvertaken>>
      PROVE  HeldRows' /\ Credentials!RetiredStaysOut'
  BY <1>k, <1>r, OutStays DEF Credentials!RetiredStaysOut
<1>1. ASSUME NEW r \in Request, Credentials!SaveRegistration(r)
      PROVE  HeldRows' /\ Credentials!RetiredStaysOut'
  <2>1. crPending[r] # None /\ crPending[r].pc = "register" /\ crPending[r].row = None
    BY <1>1, CredentialAt DEF Credentials!SaveRegistration, Credentials!At, Brings
  <2>2. crPending'[r].row = None
    BY <1>1, <2>1, RowsOn DEF Credentials!SaveRegistration
  <2>3. \A q \in Request \ {r} : crPending'[q] = crPending[q]
    BY <1>1 DEF Credentials!SaveRegistration, Credentials!On, Credentials!TypeOK
  <2>4. PICK row : /\ Credentials!Chosen(r, row, crPending[r].password)
                   /\ row.password = crPending[r].password
    BY <1>1 DEF Credentials!SaveRegistration
  <2> QED
    BY <1>r, <2>2, <2>3, <2>4, OutChosen
<1>2. ASSUME NEW r \in Request, Credentials!ResetPassword(r)
      PROVE  HeldRows' /\ Credentials!RetiredStaysOut'
  <2>1. crPending'[r] = None /\ \A q \in Request \ {r} : crPending'[q] = crPending[q]
    BY <1>2 DEF Credentials!ResetPassword, Credentials!Ends, Credentials!TypeOK
  <2>2. PICK row : /\ Credentials!Chosen(r, row, crPending[r].password)
                   /\ row.password = crPending[r].password
    BY <1>2 DEF Credentials!ResetPassword, Credentials!ResetRow
  <2> QED
    BY <1>r, <2>1, <2>2, OutChosen
<1>c. ASSUME NEW row, NEW p, row.password = p, Credentials!Chosen(None, row, p), UNCHANGED crPending
      PROVE  HeldRows' /\ Credentials!RetiredStaysOut'
  <2>1. \A q \in Request : q # None /\ crPending'[q] = crPending[q]
    BY <1>c, AccountsAssumption, CredentialsAssumption
  <2> QED
    BY <1>c, <1>r, <2>1, OutChosen
<1>3. ASSUME NEW p \in Pair, NEW legacy \in BOOLEAN, Credentials!Import(p, legacy)
      PROVE  HeldRows' /\ Credentials!RetiredStaysOut'
  BY <1>3, <1>c DEF Credentials!Import
<1>4. ASSUME NEW p \in Pair, Credentials!InsertAccountCredential(p)
      PROVE  HeldRows' /\ Credentials!RetiredStaysOut'
  BY <1>4, <1>c DEF Credentials!InsertAccountCredential
<1>5. ASSUME NEW p \in Pair, NEW q \in Pair, Credentials!ChangePassword(p, q)
      PROVE  HeldRows' /\ Credentials!RetiredStaysOut'
  <2>1. credential \in Credentials!Row
    BY <1>5 DEF Credentials!ChangePassword, Credentials!TypeOK
  <2>2. PICK row : row = [credential EXCEPT !.password = q, !.legacy = FALSE]
    OBVIOUS
  <2>3. row.password = q
    BY <2>1, <2>2 DEF Credentials!Row
  <2>4. Credentials!Chosen(None, row, q) /\ UNCHANGED crPending
    BY <1>5, <2>2 DEF Credentials!ChangePassword
  <2> QED
    BY <1>c, <2>3, <2>4
\* The rows that are written without a choice are rows that the request held.
<1>6. ASSUME NEW r \in Request, Credentials!Rehash(r)
      PROVE  HeldRows' /\ Credentials!RetiredStaysOut'
  <2>1. crPending[r] # None /\ crPending[r].row \in Credentials!Row /\ crPending[r].row # None
    BY <1>6, CredentialAt DEF Credentials!Rehash, Credentials!At, Brings
  <2>2. credential'.password = crPending[r].row.password
    BY <1>6, <2>1 DEF Credentials!Rehash, Credentials!Rehashed, Credentials!Row
  <2>3. UNCHANGED <<retired, crOvertaken>>
    BY <1>6 DEF Credentials!Rehash, Credentials!history
  <2> QED
    BY <1>r, <2>1, <2>2, <2>3, OutStays DEF HeldRows, Stale
<1>7. ASSUME NEW r \in Request, Credentials!SetEmailVerified(r)
      PROVE  HeldRows' /\ Credentials!RetiredStaysOut'
  <2>1. crPending[r] # None /\ crPending[r].row # None
    BY <1>7, CredentialAt DEF Credentials!SetEmailVerified, Credentials!At, Brings
  <2>2. credential # None /\ credential \in Credentials!Row
    BY <2>1, CredentialAt DEF AllBring
  <2>3. credential'.password = credential.password
    BY <1>7, <2>2 DEF Credentials!SetEmailVerified, Credentials!Row
  <2>4. UNCHANGED <<retired, crOvertaken>>
    BY <1>7 DEF Credentials!SetEmailVerified, Credentials!history
  <2> QED
    BY <1>r, <2>2, <2>3, <2>4, OutStays DEF Credentials!RetiredStaysOut
<1>8. ASSUME NEW r \in Request, Credentials!CompleteRegistration(r)
      PROVE  HeldRows' /\ Credentials!RetiredStaysOut'
  <2>1. crPending[r] # None /\ crPending[r].row \in Credentials!Row /\ crPending[r].row # None
    BY <1>8, CredentialAt DEF Credentials!CompleteRegistration, Credentials!At, Brings
  <2>2. credential'.password = crPending[r].row.password
    BY <1>8, <2>1 DEF Credentials!CompleteRegistration, Credentials!Row
  <2>3. UNCHANGED <<retired, crOvertaken>>
    BY <1>8 DEF Credentials!CompleteRegistration, Credentials!history
  <2> QED
    BY <1>r, <2>1, <2>2, <2>3, OutStays DEF HeldRows, Stale
<1>9. ASSUME NEW r \in Request,
             \/ Credentials!CreateUser(r) \/ Credentials!SendVerification(r)
             \/ Credentials!Admit(r) \/ Credentials!SignOut(r)
             \/ Credentials!ReadCredential(r) \/ Credentials!PasswordlessLogin(r)
             \/ Credentials!Verify(r) \/ Credentials!ReadUser(r) \/ Credentials!CreateVerifiedUser(r)
      PROVE  HeldRows' /\ Credentials!RetiredStaysOut'
  BY <1>9, <1>k DEF Credentials!CreateUser, Credentials!SendVerification, Credentials!Admit,
     Credentials!SignOut, Credentials!ReadCredential, Credentials!PasswordlessLogin,
     Credentials!Verify, Credentials!ReadUser, Credentials!CreateVerifiedUser,
     Credentials!history
<1>10. ASSUME NEW r \in Request, Credentials!Delete(r)
       PROVE  HeldRows' /\ Credentials!RetiredStaysOut'
  BY <1>10, <1>k DEF Credentials!Delete
<1>11. ASSUME NEW r \in Request, NEW p \in Pair,
              \/ Credentials!Register(r, p) \/ Credentials!Login(r, p)
              \/ \E u \in Credentials!Token : Credentials!Redeem(r, u, p)
       PROVE  HeldRows' /\ Credentials!RetiredStaysOut'
  BY <1>11, <1>k DEF Credentials!Register, Credentials!Login, Credentials!Redeem,
     Credentials!history
<1>12. ASSUME Credentials!SendToken \/ \E u \in Credentials!Token : Credentials!Expire(u)
       PROVE  HeldRows' /\ Credentials!RetiredStaysOut'
  BY <1>12, <1>k DEF Credentials!SendToken, Credentials!Expire, Credentials!history
<1>13. ASSUME UNCHANGED crVars PROVE HeldRows' /\ Credentials!RetiredStaysOut'
  BY <1>13, <1>k DEF crVars
<1> QED
  BY <1>1, <1>2, <1>3, <1>4, <1>5, <1>6, <1>7, <1>8, <1>9, <1>10, <1>11, <1>12, <1>13
  DEF Credentials!Next

\* What is known of the requests that are about to delete a token.
LEMMA DeletingKnown ==
    ASSUME Credentials!TypeOK, AllBring, DeletesItsKind, NEW u \in Credentials!Token
    PROVE  /\ IsFiniteSet(Deleting(u)) /\ Cardinality(Deleting(u)) \in Nat
           /\ Cardinality(Deleting(u)) <= Cardinality(Request) /\ Cardinality(Request) \in Nat
           /\ redeemed[u] \in Nat
           /\ Deleting(u) # {} => Credentials!Postgres /\ tokens[u] \in {None, "verify", "reset"}
<1>1. /\ IsFiniteSet(Deleting(u)) /\ Cardinality(Deleting(u)) \in Nat
      /\ Cardinality(Deleting(u)) <= Cardinality(Request) /\ Cardinality(Request) \in Nat
  BY AccountsAssumption, CredentialsAssumption, FS_Subset, FS_CardinalityType DEF Deleting
<1>2. redeemed[u] \in Nat
  BY DEF Credentials!TypeOK
<1>3. ASSUME NEW r \in Deleting(u)
      PROVE  Credentials!Postgres /\ tokens[u] \in {None, "verify", "reset"}
  <2>1. r \in Request /\ Credentials!At(r, "delete") /\ crPending[r].token = u
    BY <1>3 DEF Deleting
  <2>2. crPending[r].kind \in {"verify", "reset"}
    BY <2>1, CredentialAt DEF Credentials!At, Brings
  <2> QED
    BY <2>1, <2>2 DEF DeletesItsKind
<1> QED
  BY <1>1, <1>2, <1>3

\* No request begins a deletion by a step that selects no token.
LEMMA DeletingLess ==
    ASSUME StillDeletes, NEW u
    PROVE  Deleting(u)' \subseteq Deleting(u)
BY DEF StillDeletes, Credentials!At, Deleting

\* A step that leaves the counts alone and no more deletions pending.
LEMMA TokensStay ==
    ASSUME Credentials!TypeOK, AllBring, TokensCounted, DeletesItsKind, PassesAlone, StillDeletes,
           UNCHANGED <<setup, redeemed, raced>>, nextToken' \in {nextToken, nextToken + 1},
           \A u \in Credentials!Token :
                \/ tokens'[u] \in {tokens[u], None}
                \/ u = nextToken /\ nextToken' = nextToken + 1
    PROVE  TokensCounted' /\ DeletesItsKind' /\ PassesAlone'
<1>n. nextToken \in Nat /\ Credentials!Token \subseteq Nat
  BY AccountsAssumption, CredentialsAssumption DEF Credentials!TypeOK, Credentials!Token
<1>1. ASSUME NEW u \in Credentials!Token
      PROVE  /\ redeemed'[u] + Cardinality(Deleting(u)') <= Cardinality(Request) + 1
             /\ u >= nextToken' => tokens'[u] = None
             /\ tokens'[u] # None \/ u >= nextToken' => redeemed'[u] = 0
             /\ u >= nextToken' => Deleting(u)' = {}
  <2>1. Deleting(u)' \subseteq Deleting(u)
    BY DeletingLess
  <2>2. /\ IsFiniteSet(Deleting(u)) /\ Cardinality(Deleting(u)) \in Nat /\ redeemed[u] \in Nat
        /\ Cardinality(Request) \in Nat
    BY DeletingKnown
  <2>3. Cardinality(Deleting(u)') <= Cardinality(Deleting(u)) /\ Cardinality(Deleting(u)') \in Nat
    <3>1. PICK S : S = Deleting(u)'
      OBVIOUS
    <3> QED
      BY <2>1, <2>2, <3>1, FS_Subset, FS_CardinalityType
  <2>4. redeemed'[u] + Cardinality(Deleting(u)') <= Cardinality(Request) + 1
    BY <2>2, <2>3 DEF TokensCounted
  <2>6. u >= nextToken' => u >= nextToken /\ (u = nextToken => nextToken' = nextToken)
    BY <1>n
  <2>7. u >= nextToken' => tokens'[u] = None /\ redeemed'[u] = 0 /\ Deleting(u)' = {}
    BY <1>n, <2>1, <2>6 DEF TokensCounted
  <2>8. tokens'[u] # None => redeemed'[u] = 0
    BY <1>n DEF TokensCounted
  <2> QED
    BY <2>4, <2>7, <2>8
<1>2. ASSUME NEW q \in Request, Credentials!At(q, "delete")'
      PROVE  Credentials!Postgres' /\ tokens'[crPending'[q].token] \in {None, crPending'[q].kind}
  <2>1. Credentials!At(q, "delete") /\ crPending'[q] = crPending[q]
    BY <1>2 DEF StillDeletes, Credentials!At
  <2>2. PICK u \in Credentials!Token : u = crPending[q].token
    BY <2>1, CredentialAt DEF Credentials!At, Credentials!Work, Brings
  <2>3. q \in Deleting(u)
    BY <2>1, <2>2 DEF Deleting
  <2>4. ~(u >= nextToken)
    BY <2>3 DEF TokensCounted
  <2>5. tokens'[u] \in {tokens[u], None}
    BY <1>n, <2>4
  <2>6. Credentials!Postgres /\ tokens[u] \in {None, crPending[q].kind}
    BY <2>1, <2>2 DEF DeletesItsKind
  <2> QED
    BY <2>1, <2>2, <2>5, <2>6 DEF Credentials!Postgres
<1>3. ASSUME NEW u \in Credentials!Token
      PROVE  /\ u \in raced' => Credentials!Postgres'
             /\ u \notin raced' => /\ redeemed'[u] <= 1
                                   /\ redeemed'[u] = 1 => Deleting(u)' = {}
                                   /\ \A q, r \in Deleting(u)' : q = r
  <2>1. Deleting(u)' \subseteq Deleting(u)
    BY DeletingLess
  <2> QED
    BY <2>1 DEF PassesAlone, Credentials!Postgres
<1>4. TokensCounted'
  BY <1>1 DEF TokensCounted, Credentials!Token
<1>5. DeletesItsKind'
  BY <1>2 DEF DeletesItsKind
<1>6. PassesAlone'
  BY <1>3 DEF PassesAlone, Credentials!Token
<1> QED
  BY <1>4, <1>5, <1>6

\* A redemption in one step, of a token that nobody is about to delete.
LEMMA TokenRedeemed ==
    ASSUME Credentials!TypeOK, AllBring, TokensCounted, DeletesItsKind, PassesAlone, StillDeletes,
           UNCHANGED <<setup, nextToken, raced>>, NEW u \in Credentials!Token, tokens[u] # None,
           tokens[u] \in {"link", "code"} \/ ~Credentials!Postgres,
           tokens' = [tokens EXCEPT ![u] = None], redeemed' = [redeemed EXCEPT ![u] = @ + 1]
    PROVE  TokensCounted' /\ DeletesItsKind' /\ PassesAlone'
<1>n. nextToken \in Nat /\ Credentials!Token \subseteq Nat
  BY AccountsAssumption, CredentialsAssumption DEF Credentials!TypeOK, Credentials!Token
<1>u. /\ Deleting(u) = {} /\ redeemed[u] = 0 /\ ~(u >= nextToken)
      /\ tokens'[u] = None /\ redeemed'[u] = 1
  <2>1. Deleting(u) = {}
    BY DeletingKnown
  <2>2. redeemed[u] = 0 /\ ~(u >= nextToken)
    BY DEF TokensCounted
  <2>3. tokens'[u] = None /\ redeemed'[u] = 0 + 1
    BY <2>2 DEF Credentials!TypeOK
  <2> QED
    BY <2>1, <2>2, <2>3
<1>v. \A v \in Credentials!Token \ {u} : tokens'[v] = tokens[v] /\ redeemed'[v] = redeemed[v]
  BY DEF Credentials!TypeOK
<1>1. ASSUME NEW v \in Credentials!Token
      PROVE  /\ redeemed'[v] + Cardinality(Deleting(v)') <= Cardinality(Request) + 1
             /\ v >= nextToken' => tokens'[v] = None
             /\ tokens'[v] # None \/ v >= nextToken' => redeemed'[v] = 0
             /\ v >= nextToken' => Deleting(v)' = {}
  <2>1. Deleting(v)' \subseteq Deleting(v)
    BY DeletingLess
  <2>2. /\ IsFiniteSet(Deleting(v)) /\ Cardinality(Deleting(v)) \in Nat /\ redeemed[v] \in Nat
        /\ Cardinality(Request) \in Nat
    BY DeletingKnown
  <2>3. Cardinality(Deleting(v)') <= Cardinality(Deleting(v)) /\ Cardinality(Deleting(v)') \in Nat
    <3>1. PICK S : S = Deleting(v)'
      OBVIOUS
    <3> QED
      BY <2>1, <2>2, <3>1, FS_Subset, FS_CardinalityType
  <2>4. CASE v = u
    <3>1. Cardinality(Deleting(v)) = 0
      BY <1>u, <2>4, FS_EmptySet
    <3>2. redeemed'[v] + Cardinality(Deleting(v)') <= Cardinality(Request) + 1
      BY <1>u, <2>2, <2>3, <2>4, <3>1
    <3> QED
      BY <1>u, <2>4, <3>2
  <2>5. CASE v # u
    <3>1. redeemed'[v] + Cardinality(Deleting(v)') <= Cardinality(Request) + 1
      BY <1>v, <2>2, <2>3, <2>5 DEF TokensCounted
    <3> QED
      BY <1>v, <2>1, <2>5, <3>1 DEF TokensCounted
  <2> QED
    BY <2>4, <2>5
<1>2. ASSUME NEW q \in Request, Credentials!At(q, "delete")'
      PROVE  Credentials!Postgres' /\ tokens'[crPending'[q].token] \in {None, crPending'[q].kind}
  <2>1. Credentials!At(q, "delete") /\ crPending'[q] = crPending[q]
    BY <1>2 DEF StillDeletes, Credentials!At
  <2>2. PICK v \in Credentials!Token : v = crPending[q].token
    BY <2>1, CredentialAt DEF Credentials!At, Credentials!Work, Brings
  <2>3. Credentials!Postgres /\ tokens[v] \in {None, crPending[q].kind}
    BY <2>1, <2>2 DEF DeletesItsKind
  <2>4. tokens'[v] \in {tokens[v], None}
    BY <1>u, <1>v, <2>2
  <2> QED
    BY <2>1, <2>2, <2>3, <2>4 DEF Credentials!Postgres
<1>3. ASSUME NEW v \in Credentials!Token
      PROVE  /\ v \in raced' => Credentials!Postgres'
             /\ v \notin raced' => /\ redeemed'[v] <= 1
                                   /\ redeemed'[v] = 1 => Deleting(v)' = {}
                                   /\ \A q, r \in Deleting(v)' : q = r
  <2>1. Deleting(v)' \subseteq Deleting(v)
    BY DeletingLess
  <2>2. v \in raced' => Credentials!Postgres'
    BY DEF PassesAlone, Credentials!Postgres
  <2>3. CASE v = u
    BY <1>u, <2>1, <2>2, <2>3
  <2>4. CASE v # u
    BY <1>v, <2>1, <2>2, <2>4 DEF PassesAlone
  <2> QED
    BY <2>3, <2>4
<1>4. TokensCounted'
  BY <1>1 DEF TokensCounted, Credentials!Token
<1>5. DeletesItsKind'
  BY <1>2 DEF DeletesItsKind
<1>6. PassesAlone'
  BY <1>3 DEF PassesAlone, Credentials!Token
<1> QED
  BY <1>4, <1>5, <1>6

\* The selection of a token: its request is one more that is about to delete it.
LEMMA TokenSelected ==
    ASSUME Credentials!TypeOK, AllBring, TokensCounted, DeletesItsKind, PassesAlone,
           NEW r \in Request, NEW u \in Credentials!Token, NEW p \in Pair,
           crPending[r] = None, tokens[u] \in {"verify", "reset"}, Credentials!Postgres,
           Credentials!SelectToken(r, u, p), UNCHANGED <<setup, nextToken>>
    PROVE  TokensCounted' /\ DeletesItsKind' /\ PassesAlone'
<1>n. nextToken \in Nat /\ Credentials!Token \subseteq Nat
  BY AccountsAssumption, CredentialsAssumption DEF Credentials!TypeOK, Credentials!Token
<1>w. PICK w : w = [pc |-> "delete", row |-> None, password |-> p, token |-> u, kind |-> tokens[u]]
  OBVIOUS
<1>p. /\ crPending'[r] = w /\ w.pc = "delete" /\ w.token = u /\ w.kind = tokens[u]
      /\ \A q \in Request \ {r} : crPending'[q] = crPending[q]
  BY <1>w DEF Credentials!SelectToken, Credentials!Goes, Credentials!TypeOK
<1>e. UNCHANGED <<tokens, redeemed>>
  BY DEF Credentials!SelectToken
<1>k. tokens[u] # None
  BY AccountsAssumption, CredentialsAssumption DEF Credentials!Kind
<1>u. redeemed[u] = 0 /\ ~(u >= nextToken)
  BY <1>k DEF TokensCounted
<1>d. \A v \in Credentials!Token :
          Deleting(v)' \subseteq (IF v = u THEN Deleting(v) \cup {r} ELSE Deleting(v))
  BY <1>p DEF Deleting, Credentials!At
<1>1. ASSUME NEW v \in Credentials!Token
      PROVE  /\ redeemed'[v] + Cardinality(Deleting(v)') <= Cardinality(Request) + 1
             /\ v >= nextToken' => tokens'[v] = None
             /\ tokens'[v] # None \/ v >= nextToken' => redeemed'[v] = 0
             /\ v >= nextToken' => Deleting(v)' = {}
  <2>2. /\ IsFiniteSet(Deleting(v)) /\ Cardinality(Deleting(v)) \in Nat /\ redeemed[v] \in Nat
        /\ Cardinality(Request) \in Nat
    BY DeletingKnown
  <2>4. CASE v = u
    <3>1. Cardinality(Deleting(v)') <= Cardinality(Request) /\ Cardinality(Deleting(v)') \in Nat
      <4>1. PICK S : S = Deleting(v)'
        OBVIOUS
      <4>2. S \subseteq Request
        BY <4>1 DEF Deleting
      <4> QED
        BY <4>1, <4>2, AccountsAssumption, CredentialsAssumption, FS_Subset, FS_CardinalityType
    <3>2. redeemed'[v] + Cardinality(Deleting(v)') <= Cardinality(Request) + 1
      BY <1>e, <1>u, <2>2, <2>4, <3>1
    <3> QED
      BY <1>e, <1>u, <2>4, <3>2
  <2>5. CASE v # u
    <3>0. Deleting(v)' \subseteq Deleting(v)
      BY <1>d, <2>5
    <3>1. Cardinality(Deleting(v)') <= Cardinality(Deleting(v)) /\ Cardinality(Deleting(v)') \in Nat
      <4>1. PICK S : S = Deleting(v)'
        OBVIOUS
      <4> QED
        BY <2>2, <3>0, <4>1, FS_Subset, FS_CardinalityType
    <3>2. redeemed'[v] + Cardinality(Deleting(v)') <= Cardinality(Request) + 1
      BY <1>e, <2>2, <3>1 DEF TokensCounted
    <3> QED
      BY <1>e, <3>0, <3>2 DEF TokensCounted
  <2> QED
    BY <2>4, <2>5
<1>2. ASSUME NEW q \in Request, Credentials!At(q, "delete")'
      PROVE  Credentials!Postgres' /\ tokens'[crPending'[q].token] \in {None, crPending'[q].kind}
  <2>1. CASE q = r
    BY <1>e, <1>p, <2>1 DEF Credentials!Postgres
  <2>2. CASE q # r
    <3>1. Credentials!At(q, "delete") /\ crPending'[q] = crPending[q]
      BY <1>2, <1>p, <2>2 DEF Credentials!At
    <3> QED
      BY <1>e, <3>1 DEF DeletesItsKind, Credentials!Postgres
  <2> QED
    BY <2>1, <2>2
<1>3. ASSUME NEW v \in Credentials!Token
      PROVE  /\ v \in raced' => Credentials!Postgres'
             /\ v \notin raced' => /\ redeemed'[v] <= 1
                                   /\ redeemed'[v] = 1 => Deleting(v)' = {}
                                   /\ \A q, s \in Deleting(v)' : q = s
  <2>1. v \in raced' => Credentials!Postgres'
    BY DEF Credentials!Postgres
  <2>2. raced \subseteq raced'
    BY DEF Credentials!SelectToken
  <2>3. CASE v = u
    <3>1. v \notin raced' => Deleting(v) = {}
      BY <2>3 DEF Credentials!SelectToken, Deleting
    <3> QED
      BY <1>d, <1>e, <1>u, <2>1, <2>3, <3>1
  <2>4. CASE v # u
    <3>1. Deleting(v)' \subseteq Deleting(v)
      BY <1>d, <2>4
    <3> QED
      BY <1>e, <2>1, <2>2, <3>1 DEF PassesAlone
  <2> QED
    BY <2>3, <2>4
<1>4. TokensCounted'
  BY <1>1 DEF TokensCounted, Credentials!Token
<1>5. DeletesItsKind'
  BY <1>2 DEF DeletesItsKind
<1>6. PassesAlone'
  BY <1>3 DEF PassesAlone, Credentials!Token
<1> QED
  BY <1>4, <1>5, <1>6

\* The deletion: one more has passed and one less is about to delete.
LEMMA TokenDeleted ==
    ASSUME Credentials!TypeOK, AllBring, TokensCounted, DeletesItsKind, PassesAlone, StillDeletes,
           NEW r \in Request, Credentials!Delete(r)
    PROVE  TokensCounted' /\ DeletesItsKind' /\ PassesAlone'
<1>n. nextToken \in Nat /\ Credentials!Token \subseteq Nat
  BY AccountsAssumption, CredentialsAssumption DEF Credentials!TypeOK, Credentials!Token
<1>a. Credentials!At(r, "delete") /\ crPending[r] \in Credentials!Work /\ crPending[r].token # None
  BY CredentialAt DEF Credentials!Delete, Credentials!At, Brings
<1>p. PICK u \in Credentials!Token : u = crPending[r].token
  BY <1>a DEF Credentials!Work
<1>e. /\ tokens' = [tokens EXCEPT ![u] = None] /\ redeemed' = [redeemed EXCEPT ![u] = @ + 1]
      /\ UNCHANGED <<setup, nextToken, raced>>
  BY <1>p DEF Credentials!Delete, Credentials!Consumed, Credentials!Passes
<1>f. tokens'[u] = None /\ redeemed'[u] = redeemed[u] + 1
  BY <1>e DEF Credentials!TypeOK
<1>v. \A v \in Credentials!Token \ {u} : tokens'[v] = tokens[v] /\ redeemed'[v] = redeemed[v]
  BY <1>e DEF Credentials!TypeOK
<1>r. r \in Deleting(u) /\ ~(u >= nextToken)
  BY <1>a, <1>p DEF Deleting, TokensCounted
<1>g. ~Credentials!At(r, "delete")'
  <2>1. CASE crPending' = [crPending EXCEPT ![r] = None]
    BY <2>1 DEF Credentials!At, Credentials!TypeOK
  <2>2. CASE \E p, kind : \E pc \in {"passwordless", "redeem"} :
                Credentials!Goes(r, pc, None, p, u, kind)
    <3>1. PICK p, kind : \E pc \in {"passwordless", "redeem"} :
              Credentials!Goes(r, pc, None, p, u, kind)
      BY <2>2
    <3> QED
      BY <3>1, RowsGo DEF Credentials!At
  <2> QED
    BY <1>p, <2>1, <2>2 DEF Credentials!Delete, Credentials!Passes, Credentials!Ends
<1>d. \A v \in Credentials!Token : Deleting(v)' \subseteq Deleting(v) \ {r}
  BY <1>g, DeletingLess DEF Deleting
<1>1. ASSUME NEW v \in Credentials!Token
      PROVE  /\ redeemed'[v] + Cardinality(Deleting(v)') <= Cardinality(Request) + 1
             /\ v >= nextToken' => tokens'[v] = None
             /\ tokens'[v] # None \/ v >= nextToken' => redeemed'[v] = 0
             /\ v >= nextToken' => Deleting(v)' = {}
  <2>2. /\ IsFiniteSet(Deleting(v)) /\ Cardinality(Deleting(v)) \in Nat /\ redeemed[v] \in Nat
        /\ Cardinality(Request) \in Nat
    BY DeletingKnown
  <2>4. CASE v = u
    <3>1. /\ Cardinality(Deleting(v)') <= Cardinality(Deleting(v)) - 1
          /\ Cardinality(Deleting(v)') \in Nat
      <4>1. PICK S : S = Deleting(v)'
        OBVIOUS
      <4>2. S \subseteq Deleting(v) \ {r} /\ r \in Deleting(v)
        BY <1>d, <1>r, <2>4, <4>1
      <4>3. /\ IsFiniteSet(Deleting(v) \ {r})
            /\ Cardinality(Deleting(v) \ {r}) = Cardinality(Deleting(v)) - 1
        BY <2>2, <4>2, FS_RemoveElement
      <4> QED
        BY <4>1, <4>2, <4>3, FS_Subset, FS_CardinalityType
    <3>2. redeemed[v] + Cardinality(Deleting(v)) <= Cardinality(Request) + 1
      BY DEF TokensCounted
    <3>3. redeemed'[v] + Cardinality(Deleting(v)') <= Cardinality(Request) + 1
      BY <1>f, <2>2, <2>4, <3>1, <3>2
    <3> QED
      BY <1>e, <1>f, <1>r, <2>4, <3>3
  <2>5. CASE v # u
    <3>0. Deleting(v)' \subseteq Deleting(v)
      BY <1>d
    <3>1. Cardinality(Deleting(v)') <= Cardinality(Deleting(v)) /\ Cardinality(Deleting(v)') \in Nat
      <4>1. PICK S : S = Deleting(v)'
        OBVIOUS
      <4> QED
        BY <2>2, <3>0, <4>1, FS_Subset, FS_CardinalityType
    <3>2. redeemed'[v] + Cardinality(Deleting(v)') <= Cardinality(Request) + 1
      BY <1>v, <2>2, <2>5, <3>1 DEF TokensCounted
    <3> QED
      BY <1>e, <1>v, <2>5, <3>0, <3>2 DEF TokensCounted
  <2> QED
    BY <2>4, <2>5
<1>2. ASSUME NEW q \in Request, Credentials!At(q, "delete")'
      PROVE  Credentials!Postgres' /\ tokens'[crPending'[q].token] \in {None, crPending'[q].kind}
  <2>1. Credentials!At(q, "delete") /\ crPending'[q] = crPending[q]
    BY <1>2 DEF StillDeletes, Credentials!At
  <2>2. PICK v \in Credentials!Token : v = crPending[q].token
    BY <2>1, CredentialAt DEF Credentials!At, Credentials!Work, Brings
  <2>3. Credentials!Postgres /\ tokens[v] \in {None, crPending[q].kind}
    BY <2>1, <2>2 DEF DeletesItsKind
  <2>4. tokens'[v] \in {tokens[v], None}
    BY <1>f, <1>v, <2>2
  <2> QED
    BY <1>e, <2>1, <2>2, <2>3, <2>4 DEF Credentials!Postgres
<1>3. ASSUME NEW v \in Credentials!Token
      PROVE  /\ v \in raced' => Credentials!Postgres'
             /\ v \notin raced' => /\ redeemed'[v] <= 1
                                   /\ redeemed'[v] = 1 => Deleting(v)' = {}
                                   /\ \A q, s \in Deleting(v)' : q = s
  <2>1. Deleting(v)' \subseteq Deleting(v) \ {r}
    BY <1>d
  <2>2. v \in raced' => Credentials!Postgres'
    BY <1>e DEF PassesAlone, Credentials!Postgres
  <2>3. CASE v = u
    <3>1. ASSUME u \notin raced PROVE redeemed[u] = 0 /\ Deleting(u) \subseteq {r}
      <4>1. redeemed[u] <= 1 /\ redeemed[u] # 1 /\ \A q, s \in Deleting(u) : q = s
        BY <1>r, <3>1 DEF PassesAlone
      <4>2. redeemed[u] \in Nat
        BY DeletingKnown
      <4> QED
        BY <1>r, <4>1, <4>2
    <3> QED
      BY <1>e, <1>f, <2>1, <2>2, <2>3, <3>1
  <2>4. CASE v # u
    BY <1>e, <1>v, <2>1, <2>2, <2>4 DEF PassesAlone
  <2> QED
    BY <2>3, <2>4
<1>4. TokensCounted'
  BY <1>1 DEF TokensCounted, Credentials!Token
<1>5. DeletesItsKind'
  BY <1>2 DEF DeletesItsKind
<1>6. PassesAlone'
  BY <1>3 DEF PassesAlone, Credentials!Token
<1> QED
  BY <1>4, <1>5, <1>6

\* Every step keeps what is known of the tokens.
LEMMA TokensNext ==
    ASSUME Credentials!TypeOK, AllBring, TokensCounted, DeletesItsKind, PassesAlone,
           [Credentials!Next]_crVars
    PROVE  TokensCounted' /\ DeletesItsKind' /\ PassesAlone'
<1> DEFINE Goal == TokensCounted' /\ DeletesItsKind' /\ PassesAlone'
           Quiet == UNCHANGED <<setup, tokens, nextToken, redeemed, raced>>
<1>q. ASSUME Quiet, StillDeletes PROVE Goal
  BY <1>q, TokensStay
<1>i. ASSUME NEW kind \in Credentials!Kind, Credentials!Issues(kind), StillDeletes,
             UNCHANGED <<setup, redeemed, raced>>
      PROVE  Goal
  <2>1. nextToken' = nextToken + 1 /\ tokens' = [tokens EXCEPT ![nextToken] = kind]
    BY <1>i, IssuesTyped
  <2>2. \A u \in Credentials!Token : u = nextToken \/ tokens'[u] = tokens[u]
    BY <2>1 DEF Credentials!TypeOK
  <2> QED
    BY <1>i, <2>1, <2>2, TokensStay
<1>s. \/ StillDeletes
      \/ \E r \in Request, u \in Credentials!Token, p \in Pair :
            Credentials!Redeem(r, u, p) /\ Credentials!SelectToken(r, u, p)
  BY RowsNext
<1>1. ASSUME NEW r \in Request, NEW u \in Credentials!Token, NEW p \in Pair,
             Credentials!Redeem(r, u, p), Credentials!SelectToken(r, u, p)
      PROVE  Goal
  <2>1. crPending[r] = None /\ UNCHANGED <<setup, nextToken>> /\ UNCHANGED redeemed
    BY <1>1 DEF Credentials!Redeem, Credentials!SelectToken
  <2>2. redeemed'[u] # redeemed[u] + 1
    BY <2>1 DEF Credentials!TypeOK
  <2>3. ~Credentials!Redeemed(r, u, p) /\ ~Credentials!Redeemed(r, u, None)
    BY <2>2 DEF Credentials!Redeemed, Credentials!Passes, Credentials!TypeOK
  <2>4. tokens[u] \in {"verify", "reset"} /\ Credentials!Postgres
    BY <1>1, <2>3 DEF Credentials!Redeem, Credentials!RedeemLink, Credentials!RedeemCode,
       Credentials!RedeemCredentialToken
  <2> QED
    BY <1>1, <2>1, <2>4, TokenSelected
<1> SUFFICES ASSUME StillDeletes PROVE Goal
  BY <1>s, <1>1
<1>2. ASSUME NEW r \in Request,
             \/ Credentials!CreateUser(r) \/ Credentials!SaveRegistration(r)
             \/ Credentials!Rehash(r) \/ Credentials!Admit(r) \/ Credentials!SignOut(r)
             \/ Credentials!Verify(r) \/ Credentials!ReadCredential(r) \/ Credentials!ReadUser(r)
             \/ Credentials!CreateVerifiedUser(r) \/ Credentials!SetEmailVerified(r)
             \/ Credentials!CompleteRegistration(r) \/ Credentials!ResetPassword(r)
             \/ Credentials!PasswordlessLogin(r)
      PROVE  Quiet
  BY <1>2 DEF Credentials!CreateUser, Credentials!SaveRegistration, Credentials!Rehash,
     Credentials!Admit, Credentials!SignOut, Credentials!Verify, Credentials!ReadCredential,
     Credentials!ReadUser, Credentials!CreateVerifiedUser, Credentials!SetEmailVerified,
     Credentials!CompleteRegistration, Credentials!ResetPassword, Credentials!PasswordlessLogin,
     Credentials!history, Credentials!tokenState
<1>3. ASSUME NEW r \in Request, NEW p \in Pair, Credentials!Register(r, p) \/ Credentials!Login(r, p)
      PROVE  Quiet
  BY <1>3 DEF Credentials!Register, Credentials!Login, Credentials!history, Credentials!tokenState
<1>4. ASSUME NEW p \in Pair,
             \/ \E legacy \in BOOLEAN : Credentials!Import(p, legacy)
             \/ Credentials!InsertAccountCredential(p)
             \/ \E q \in Pair : Credentials!ChangePassword(p, q)
      PROVE  Quiet
  BY <1>4 DEF Credentials!Import, Credentials!InsertAccountCredential, Credentials!ChangePassword,
     Credentials!tokenState
<1>5. ASSUME NEW r \in Request, Credentials!SendVerification(r) PROVE Goal
  BY <1>5, <1>i DEF Credentials!SendVerification, Credentials!history, Credentials!Kind
<1>6. ASSUME Credentials!SendToken PROVE Goal
  <2>1. PICK kind \in Credentials!Kind : Credentials!Issues(kind)
    BY <1>6 DEF Credentials!SendToken, Credentials!SendVerificationAgain, Credentials!SendReset,
       Credentials!SendLink, Credentials!SendCode, Credentials!Kind, Credentials!Passwordless
  <2> QED
    BY <1>6, <1>i, <2>1 DEF Credentials!SendToken, Credentials!history
<1>7. ASSUME NEW u \in Credentials!Token, Credentials!Expire(u) PROVE Goal
  <2>1. \A v \in Credentials!Token : tokens'[v] \in {tokens[v], None}
    BY <1>7 DEF Credentials!Expire, Credentials!TypeOK
  <2> QED
    BY <1>7, <2>1, TokensStay DEF Credentials!Expire, Credentials!history
<1>8. ASSUME NEW r \in Request, NEW u \in Credentials!Token, NEW p \in Pair,
             Credentials!Redeem(r, u, p), ~Credentials!SelectToken(r, u, p)
      PROVE  Goal
  <2>1. /\ tokens[u] \in {"link", "code"} \/ ~Credentials!Postgres
        /\ tokens[u] \in {"link", "code", "verify", "reset"}
        /\ \E x : Credentials!Redeemed(r, u, x)
        /\ UNCHANGED <<setup, nextToken>>
    BY <1>8 DEF Credentials!Redeem, Credentials!RedeemLink, Credentials!RedeemCode,
       Credentials!RedeemCredentialToken
  <2>2. tokens[u] # None
    BY <2>1, AccountsAssumption, CredentialsAssumption DEF Credentials!Kind,
       Credentials!Passwordless
  <2>3. /\ tokens' = [tokens EXCEPT ![u] = None] /\ redeemed' = [redeemed EXCEPT ![u] = @ + 1]
        /\ UNCHANGED raced
    BY <2>1 DEF Credentials!Redeemed, Credentials!Consumed, Credentials!Passes
  <2> QED
    BY <2>1, <2>2, <2>3, TokenRedeemed
<1>9. ASSUME NEW r \in Request, Credentials!Delete(r) PROVE Goal
  BY <1>9, TokenDeleted
<1>10. ASSUME UNCHANGED crVars PROVE Quiet
  BY <1>10 DEF crVars
<1> QED
  BY <1>q, <1>1, <1>2, <1>3, <1>4, <1>5, <1>6, <1>7, <1>8, <1>9, <1>10 DEF Credentials!Next

\* Every step of passwords and emailed tokens keeps the invariant.
LEMMA PasswordsNext == PasswordsInv /\ [Credentials!Next]_crVars => PasswordsInv'
<1> SUFFICES ASSUME PasswordsInv, [Credentials!Next]_crVars PROVE PasswordsInv'
  OBVIOUS
<1>1. /\ Credentials!TypeOK /\ AllBring /\ HeldRows /\ Credentials!RetiredStaysOut
      /\ TokensCounted /\ DeletesItsKind /\ PassesAlone
  BY DEF PasswordsInv
<1>2. /\ redeemed' \in [Credentials!Token -> Nat] /\ AllBring'
      /\ RedeemedBounded' => Credentials!TypeOK'
  BY <1>1, CredentialTypesNext
<1>3. HeldRows' /\ Credentials!RetiredStaysOut'
  BY <1>1, OutNext
<1>4. TokensCounted' /\ DeletesItsKind' /\ PassesAlone'
  BY <1>1, TokensNext
<1>5. RedeemedBounded'
  <2>0. Cardinality(Request) \in Nat
    BY AccountsAssumption, CredentialsAssumption, FS_CardinalityType
  <2>1. ASSUME NEW u \in Credentials!Token PROVE redeemed'[u] \in 0 .. Cardinality(Request) + 1
    <3>1. redeemed'[u] \in Nat
      BY <1>2
    <3>2. Cardinality(Deleting(u)') \in Nat
      <4>1. PICK S : S = Deleting(u)'
        OBVIOUS
      <4>2. S \subseteq Request
        BY <4>1 DEF Deleting
      <4> QED
        BY <4>1, <4>2, AccountsAssumption, CredentialsAssumption, FS_Subset, FS_CardinalityType
    <3>3. redeemed'[u] + Cardinality(Deleting(u)') <= Cardinality(Request) + 1
      BY <1>4 DEF TokensCounted, Credentials!Token
    <3> QED
      BY <2>0, <3>1, <3>2, <3>3
  <2>2. redeemed' \in [Credentials!Token -> 0 .. Cardinality(Request) + 1]
    <3> DEFINE N == 0 .. Cardinality(Request) + 1
    <3>1. \A u \in Credentials!Token : redeemed'[u] \in N
      BY <2>1
    <3> HIDE DEF N
    <3>2. redeemed' \in [Credentials!Token -> N]
      BY <1>2, <3>1
    <3> QED
      BY <3>2 DEF N
  <2> QED
    BY <2>2, SameCardinality DEF RedeemedBounded
<1> QED
  BY <1>2, <1>3, <1>4, <1>5 DEF PasswordsInv

-------------------------------------------------------------------------------

(* Lockout.                                                                   *)

\* The record of the key counts what the history counts: no less in the same window, and redis
\* keeps it until that window is over.
InStep ==
    /\ record = None => streak.since = None /\ streak.count = 0
    /\ record # None =>
         /\ streak.since = record.windowStartedAt /\ streak.count <= record.failedAttempts
         /\ lockStore = "redis" => record.ttl >= streak.since + WindowTicks

\* The last lock is on the record.
LockSet ==
    /\ record # None /\ record.lockedUntil = streak.lockedAt + LockoutTicks
    /\ lockStore = "redis" => record.ttl >= record.lockedUntil

Locking(w) == w # None /\ w.pc \in {"lock", "stamp"}
\* The limit is reached only by a failure that is still on its way to the lock.
BelowLimit ==
    streak.count < MaxAttempts \/ \E a \in Request : Locking(lkAttempts[a])

\* What an attempt read is what the store holds, unless redis let it go before that.
ReadsRecord(w) ==
    /\ w.seen # None => record = w.seen
    /\ w.seen = None => record = None \/ (lockStore = "redis" /\ record.ttl < w.at)

OneAttempt ==
    \A a, b \in Request : lkAttempts[a] # None /\ lkAttempts[b] # None => a = b
AllRead ==
    \A a \in Request :
        lkAttempts[a] # None /\ lkAttempts[a].pc \in {"count", "stamp"} => ReadsRecord(lkAttempts[a])
NoneOutThere == \A a \in Request : lkAttempts[a] = None

\* The key is below its limit, its lockout is over, or it is locked.
Guarded ==
    \/ InStep /\ BelowLimit
    \/ now >= streak.lockedAt + LockoutTicks
    \/ LockSet /\ NoneOutThere

\* A store that changes the record in one step needs no attempt to be alone.
InMemory ==
    /\ InStep
    /\ BelowLimit \/ LockSet
    /\ \A a \in Request : lkAttempts[a] # None => lkAttempts[a].pc \in {"verify", "lock"}
Alone == OneAttempt /\ AllRead /\ Guarded

\* What the store and the requests know is not from the future.
Dated(w) ==
    /\ w.at <= now
    /\ w.seen # None => w.seen.windowStartedAt <= w.at
LockoutTypes ==
    /\ Lockout!TypeOK
    /\ record # None => record.windowStartedAt <= now
    /\ \A a \in Request : lkAttempts[a] # None => Dated(lkAttempts[a])

LockoutInv ==
    /\ LockoutTypes
    /\ lockStore = "memory" => InMemory
    /\ lockStore # "memory" /\ ~lapped => Alone

\* A failure more, up to the limit, is counted.
LEMMA OneMoreCounts ==
    ASSUME NEW n \in Lockout!Counts, NEW m \in Lockout!Counts, n <= m
    PROVE  /\ Lockout!OneMore(n) \in Lockout!Counts /\ Lockout!OneMore(n) <= Lockout!OneMore(m)
           /\ 1 <= Lockout!OneMore(m)
BY AccountsAssumption, LockoutAssumption DEF Lockout!Counts, Lockout!OneMore

\* The bounds of the clock.
LEMMA TimesOfLocks ==
    /\ 0 .. MaxNow \subseteq Lockout!Times /\ Lockout!Times \subseteq Nat
    /\ 0 \in Lockout!Times /\ 0 \in Lockout!Counts /\ 1 \in Lockout!Counts
    /\ Lockout!Counts \subseteq Nat
    /\ \A at \in 0 .. MaxNow :
          at + WindowTicks \in Lockout!Times /\ at + LockoutTicks \in Lockout!Times
BY AccountsAssumption, LockoutAssumption DEF Lockout!Times, Lockout!Counts

\* What a record is after a failure more.
LEMMA IncrementedRow ==
    ASSUME NEW row \in Lockout!Records \cup {None}, NEW at \in 0 .. MaxNow, NEW new,
           new = Lockout!Incremented(row, at)
    PROVE  /\ new \in Lockout!Records /\ new # None /\ new.ttl = at + WindowTicks
           /\ IF row # None /\ at - row.windowStartedAt <= WindowTicks
              THEN /\ new.failedAttempts = Lockout!OneMore(row.failedAttempts)
                   /\ new.windowStartedAt = row.windowStartedAt
                   /\ new.lockedUntil = row.lockedUntil
              ELSE new.failedAttempts = 1 /\ new.windowStartedAt = at
<1>1. CASE row # None /\ at - row.windowStartedAt <= WindowTicks
  <2>1. row \in Lockout!Records /\ row.failedAttempts \in Lockout!Counts
    BY <1>1 DEF Lockout!Records
  <2>2. Lockout!OneMore(row.failedAttempts) \in Lockout!Counts
    BY <2>1, AccountsAssumption, LockoutAssumption DEF Lockout!Counts, Lockout!OneMore
  <2>3. new = [row EXCEPT !.failedAttempts = Lockout!OneMore(@), !.ttl = at + WindowTicks]
    BY <1>1 DEF Lockout!Incremented
  <2>4. /\ new \in Lockout!Records /\ new.ttl = at + WindowTicks
        /\ new.failedAttempts = Lockout!OneMore(row.failedAttempts)
        /\ new.windowStartedAt = row.windowStartedAt /\ new.lockedUntil = row.lockedUntil
    BY <2>1, <2>2, <2>3, TimesOfLocks DEF Lockout!Records
  <2> QED
    BY <1>1, <2>4, AccountsAssumption, LockoutAssumption
<1>2. CASE ~(row # None /\ at - row.windowStartedAt <= WindowTicks)
  <2>1. new = [failedAttempts |-> 1, windowStartedAt |-> at, lockedUntil |-> 0,
               ttl |-> at + WindowTicks]
    BY <1>2 DEF Lockout!Incremented
  <2>2. new \in Lockout!Records
    BY <2>1, TimesOfLocks DEF Lockout!Records
  <2> QED
    BY <1>2, <2>1, <2>2, AccountsAssumption, LockoutAssumption
<1> QED
  BY <1>1, <1>2

\* A locked record stays locked until its time is over.
LEMMA LockedRowHolds ==
    ASSUME NEW row \in Lockout!Records \cup {None}, NEW at \in 0 .. MaxNow, NEW new,
           new = Lockout!LockedRow(row, at)
    PROVE  /\ new \in Lockout!Records /\ new # None
           /\ new.lockedUntil = at + LockoutTicks /\ new.ttl = at + LockoutTicks
           /\ IF row # None THEN /\ new.failedAttempts = row.failedAttempts
                                /\ new.windowStartedAt = row.windowStartedAt
              ELSE new.failedAttempts = 0 /\ new.windowStartedAt = at
<1>1. PICK base : base = IF row # None THEN row
                ELSE [failedAttempts |-> 0, windowStartedAt |-> at, lockedUntil |-> 0, ttl |-> 0]
  OBVIOUS
<1>2. base \in Lockout!Records
  BY <1>1, TimesOfLocks DEF Lockout!Records
<1>3. new = [base EXCEPT !.lockedUntil = at + LockoutTicks, !.ttl = at + LockoutTicks]
  BY <1>1 DEF Lockout!LockedRow
<1>4. /\ new \in Lockout!Records
      /\ new.lockedUntil = at + LockoutTicks /\ new.ttl = at + LockoutTicks
      /\ new.failedAttempts = base.failedAttempts /\ new.windowStartedAt = base.windowStartedAt
  BY <1>2, <1>3, TimesOfLocks DEF Lockout!Records
<1> QED
  BY <1>1, <1>4, AccountsAssumption, LockoutAssumption

\* An attempt goes on to other work.
Moves(a, w) == lkAttempts' = [lkAttempts EXCEPT ![a] = w]

\* The attempt that moves is the only one that does.
LEMMA MovedTo ==
    ASSUME LockoutTypes, NEW a \in Request, NEW w, Moves(a, w)
    PROVE  lkAttempts'[a] = w /\ \A b \in Request \ {a} : lkAttempts'[b] = lkAttempts[b]
BY DEF LockoutTypes, Lockout!TypeOK, Moves

\* A record that is read is one of the types.
LEMMA GetsRecord ==
    ASSUME LockoutTypes, NEW got, got = Lockout!Get
    PROVE  /\ got \in Lockout!Records \cup {None}
           /\ got # None => got = record
           /\ got = None => record = None \/ (lockStore = "redis" /\ record.ttl < now)
BY DEF LockoutTypes, Lockout!TypeOK, Lockout!Get

\* What an attempt goes on with is made now.
LEMMA GoesMoves ==
    ASSUME LockoutTypes, NEW a \in Request, NEW pc \in {"verify", "count", "lock", "stamp"},
           NEW seen \in Lockout!Records \cup {None}, Lockout!Goes(a, pc, seen),
           seen # None => seen = record
    PROVE  \E w \in Lockout!Attempts :
              Moves(a, w) /\ w.pc = pc /\ w.seen = seen /\ w.at = now /\ Dated(w) /\ w # None
<1>1. PICK w : w = [pc |-> pc, seen |-> seen, at |-> now]
  OBVIOUS
<1>2. now \in Lockout!Times /\ now <= now
  BY TimesOfLocks, AccountsAssumption, LockoutAssumption DEF LockoutTypes, Lockout!TypeOK
<1>3. w \in Lockout!Attempts /\ Dated(w)
  BY <1>1, <1>2 DEF Lockout!Attempts, Dated, LockoutTypes
<1>4. Moves(a, w)
  BY <1>1 DEF Lockout!Goes, Moves
<1> QED
  BY <1>1, <1>3, <1>4, AccountsAssumption, LockoutAssumption

\* At first there is no record and no attempt.
LEMMA LockoutInit == Lockout!Init => LockoutInv
<1> SUFFICES ASSUME Lockout!Init PROVE LockoutInv
  OBVIOUS
<1>1. \A a \in Request : lkAttempts[a] = None
  BY DEF Lockout!Init
<1>2. Lockout!TypeOK
  <2>1. 0 \in 0 .. MaxNow /\ lkAttempts \in [Request -> Lockout!Attempts \cup {None}]
    BY AccountsAssumption, LockoutAssumption DEF Lockout!Init
  <2>2. streak \in [count : Lockout!Counts, since : Lockout!Times \cup {None},
                   lockedAt : Lockout!Times]
    BY TimesOfLocks DEF Lockout!Init
  <2> QED
    BY <2>1, <2>2 DEF Lockout!Init, Lockout!TypeOK
<1>3. LockoutTypes
  BY <1>1, <1>2 DEF LockoutTypes, Lockout!Init
<1>4. InStep /\ BelowLimit
  BY AccountsAssumption, LockoutAssumption DEF Lockout!Init, InStep, BelowLimit
<1>5. InMemory /\ Alone
  BY <1>1, <1>4 DEF InMemory, Alone, OneAttempt, AllRead, Guarded
<1> QED
  BY <1>3, <1>5 DEF LockoutInv

\* A request that ends, or goes on with something of now, and a clock that goes on leave the
\* attempts well formed.
LEMMA AttemptsStay ==
    ASSUME LockoutTypes, now' \in 0 .. MaxNow, now' >= now,
           \/ UNCHANGED lkAttempts
           \/ lkAttempts' = [a \in Request |-> None]
           \/ \E a \in Request : \E w :
                Moves(a, w) /\ (w = None \/ (w \in Lockout!Attempts /\ Dated(w)))
    PROVE  /\ lkAttempts' \in [Request -> Lockout!Attempts \cup {None}]
           /\ \A a \in Request : lkAttempts'[a] # None => Dated(lkAttempts[a])'
<1>1. lkAttempts' \in [Request -> Lockout!Attempts \cup {None}]
  BY DEF LockoutTypes, Lockout!TypeOK, Moves
<1>2. ASSUME NEW w \in Lockout!Attempts, Dated(w) PROVE w.at <= now'
  <2>1. w.at \in Nat /\ now \in Nat /\ now' \in Nat
    BY TimesOfLocks, AccountsAssumption, LockoutAssumption DEF Lockout!Attempts, LockoutTypes,
       Lockout!TypeOK
  <2> QED
    BY <1>2, <2>1 DEF Dated
<1>3. ASSUME NEW a \in Request, lkAttempts'[a] # None
      PROVE  /\ lkAttempts'[a].at <= now'
             /\ lkAttempts'[a].seen # None =>
                    lkAttempts'[a].seen.windowStartedAt <= lkAttempts'[a].at
  <2>1. \/ lkAttempts'[a] = lkAttempts[a]
        \/ lkAttempts'[a] \in Lockout!Attempts /\ Dated(lkAttempts'[a])
    <3>1. CASE UNCHANGED lkAttempts
      BY <3>1
    <3>2. CASE lkAttempts' = [b \in Request |-> None]
      BY <1>3, <3>2
    <3>3. CASE \E b \in Request : \E w :
                Moves(b, w) /\ (w = None \/ (w \in Lockout!Attempts /\ Dated(w)))
      BY <1>3, <3>3, MovedTo
    <3> QED
      BY <3>1, <3>2, <3>3
  <2>2. PICK w : w = lkAttempts'[a]
    OBVIOUS
  <2>3. w \in Lockout!Attempts /\ Dated(w)
    BY <1>3, <2>1, <2>2 DEF LockoutTypes, Lockout!TypeOK
  <2> QED
    BY <1>2, <2>2, <2>3 DEF Dated
<1> QED
  BY <1>1, <1>3 DEF Dated

\* The history keeps its type.
LEMMA StreakStays ==
    ASSUME LockoutTypes, NEW at \in 0 .. MaxNow,
           \/ Lockout!Counted(at)
           \/ \E row : Lockout!Stamped(row, at)
           \/ streak' = [streak EXCEPT !.count = 0]
           \/ streak' = [streak EXCEPT !.count = 0, !.since = None]
    PROVE  streak' \in [count : Lockout!Counts, since : Lockout!Times \cup {None},
                        lockedAt : Lockout!Times]
<1>1. streak \in [count : Lockout!Counts, since : Lockout!Times \cup {None},
                 lockedAt : Lockout!Times]
  BY DEF LockoutTypes, Lockout!TypeOK
<1>2. Lockout!OneMore(streak.count) \in Lockout!Counts
  BY <1>1, AccountsAssumption, LockoutAssumption DEF Lockout!Counts, Lockout!OneMore
<1>3. at \in Lockout!Times
  BY TimesOfLocks
<1> QED
  BY <1>1, <1>2, <1>3, TimesOfLocks DEF Lockout!Counted, Lockout!Stamped

\* Every step keeps the types.
LEMMA LockoutTypesNext ==
    ASSUME LockoutTypes, [Lockout!Next]_lkVars PROVE LockoutTypes'
<1>t. /\ lockStore \in Lockout!Stores /\ now \in 0 .. MaxNow
      /\ record \in Lockout!Records \cup {None}
      /\ lkAttempts \in [Request -> Lockout!Attempts \cup {None}]
      /\ streak \in [count : Lockout!Counts, since : Lockout!Times \cup {None},
                    lockedAt : Lockout!Times]
      /\ lapped \in BOOLEAN /\ now <= now
      /\ record # None => record.windowStartedAt <= now
  BY AccountsAssumption, LockoutAssumption DEF LockoutTypes, Lockout!TypeOK
<1>g. ASSUME UNCHANGED <<lockStore, now>>, lapped' \in BOOLEAN,
             record' \in Lockout!Records \cup {None},
             record' # None => record'.windowStartedAt <= now,
             streak' \in [count : Lockout!Counts, since : Lockout!Times \cup {None},
                          lockedAt : Lockout!Times],
             \/ UNCHANGED lkAttempts
             \/ lkAttempts' = [a \in Request |-> None]
             \/ \E a \in Request : \E w :
                  Moves(a, w) /\ (w = None \/ (w \in Lockout!Attempts /\ Dated(w)))
      PROVE  LockoutTypes'
  <2>1. /\ lkAttempts' \in [Request -> Lockout!Attempts \cup {None}]
        /\ \A a \in Request : lkAttempts'[a] # None => Dated(lkAttempts[a])'
    BY <1>t, <1>g, AttemptsStay
  <2> QED
    BY <1>t, <1>g, <2>1 DEF LockoutTypes, Lockout!TypeOK, Lockout!Times, Lockout!Attempts,
        Lockout!Records, Lockout!Counts, Lockout!Stores
<1>w. ASSUME NEW a \in Request, lkAttempts[a] # None
      PROVE  /\ lkAttempts[a] \in Lockout!Attempts /\ lkAttempts[a].seen \in Lockout!Records \cup {None}
             /\ lkAttempts[a].at \in 0 .. MaxNow
             /\ lkAttempts[a].seen # None => lkAttempts[a].seen.windowStartedAt <= lkAttempts[a].at
             /\ lkAttempts[a].at <= now
  <2>1. lkAttempts[a] \in Lockout!Attempts /\ Dated(lkAttempts[a])
    BY <1>t, <1>w DEF LockoutTypes
  <2>2. lkAttempts[a].at \in Nat
    BY <2>1, TimesOfLocks DEF Lockout!Attempts
  <2> QED
    BY <1>t, <2>1, <2>2, AccountsAssumption, LockoutAssumption DEF Lockout!Attempts, Dated
<1>r. ASSUME NEW row \in Lockout!Records \cup {None}, NEW at \in 0 .. MaxNow, at <= now,
             row # None => row.windowStartedAt <= at, NEW new,
             new = Lockout!Incremented(row, at) \/ new = Lockout!LockedRow(row, at)
      PROVE  new \in Lockout!Records /\ new.windowStartedAt <= now
  <2>1. row # None => row.windowStartedAt \in Nat
    BY TimesOfLocks DEF Lockout!Records
  <2>2. /\ new \in Lockout!Records
        /\ \/ new.windowStartedAt = at
           \/ row # None /\ new.windowStartedAt = row.windowStartedAt
    BY <1>r, IncrementedRow, LockedRowHolds
  <2> QED
    BY <1>t, <1>r, <2>1, <2>2, AccountsAssumption, LockoutAssumption
<1>e. ASSUME NEW a \in Request, Lockout!Ends(a)
      PROVE  \E b \in Request : \E w :
                  Moves(b, w) /\ (w = None \/ (w \in Lockout!Attempts /\ Dated(w)))
  BY <1>e DEF Lockout!Ends, Moves
<1>o. ASSUME NEW a \in Request, NEW pc \in {"verify", "count", "lock", "stamp"},
             NEW seen \in Lockout!Records \cup {None}, Lockout!Goes(a, pc, seen),
             seen # None => seen = record
      PROVE  \E b \in Request : \E w :
                  Moves(b, w) /\ (w = None \/ (w \in Lockout!Attempts /\ Dated(w)))
  BY <1>o, GoesMoves
<1>1. ASSUME NEW a \in Request, Lockout!Check(a) PROVE LockoutTypes'
  <2>1. /\ Lockout!Goes(a, "verify", None) /\ lapped' \in BOOLEAN
        /\ UNCHANGED <<lockStore, now, record, streak>>
    BY <1>1, <1>t DEF Lockout!Check
  <2> QED
    BY <1>g, <1>o, <1>t, <2>1
<1>2. ASSUME NEW a \in Request, Lockout!Succeeds(a) PROVE LockoutTypes'
  <2>1. streak' \in [count : Lockout!Counts, since : Lockout!Times \cup {None},
                    lockedAt : Lockout!Times]
    BY <1>2, <1>t, StreakStays DEF Lockout!Succeeds
  <2>2. Lockout!Ends(a) /\ record' = None /\ UNCHANGED <<lockStore, now, lapped>>
    BY <1>2 DEF Lockout!Succeeds
  <2> QED
    BY <1>g, <1>e, <1>t, <2>1, <2>2
<1>a. ASSUME NEW a \in Request, NEW row \in Lockout!Records \cup {None},
             NEW at \in 0 .. MaxNow, at <= now, row # None => row.windowStartedAt <= at,
             Lockout!Answered(a, Lockout!Incremented(row, at), at),
             UNCHANGED <<lockStore, now, lapped>>
      PROVE  LockoutTypes'
  <2>1. record' \in Lockout!Records /\ record'.windowStartedAt <= now
    BY <1>a, <1>r DEF Lockout!Answered
  <2>2. streak' \in [count : Lockout!Counts, since : Lockout!Times \cup {None},
                    lockedAt : Lockout!Times]
    BY <1>a, StreakStays DEF Lockout!Answered
  <2>3. Lockout!Goes(a, "lock", None) \/ Lockout!Ends(a)
    BY <1>a DEF Lockout!Answered
  <2> QED
    BY <1>a, <1>g, <1>e, <1>o, <1>t, <2>1, <2>2, <2>3
<1>3. ASSUME NEW a \in Request, Lockout!Fails(a) \/ Lockout!Lock(a) PROVE LockoutTypes'
  <2>1. UNCHANGED <<lockStore, now, lapped>>
    BY <1>3 DEF Lockout!Fails, Lockout!Lock
  <2>2. CASE Lockout!Answered(a, Lockout!Incremented(record, now), now)
    BY <1>a, <1>t, <2>1, <2>2
  <2>3. CASE /\ Lockout!Goes(a, "count", Lockout!Get) \/ Lockout!Goes(a, "stamp", Lockout!Get)
             /\ UNCHANGED <<record, streak>>
    <3>1. PICK got : got = Lockout!Get
      OBVIOUS
    <3>2. got \in Lockout!Records \cup {None} /\ (got # None => got = record)
      BY <3>1, GetsRecord
    <3> QED
      BY <1>g, <1>o, <1>t, <2>1, <2>3, <3>1, <3>2
  <2>4. CASE /\ record' = Lockout!LockedRow(record, now) /\ Lockout!Ends(a)
             /\ Lockout!Stamped(record, now)
    <3>1. record' \in Lockout!Records /\ record'.windowStartedAt <= now
      BY <1>r, <1>t, <2>4
    <3>2. streak' \in [count : Lockout!Counts, since : Lockout!Times \cup {None},
                      lockedAt : Lockout!Times]
      BY <1>t, <2>4, StreakStays
    <3> QED
      BY <1>g, <1>e, <1>t, <2>1, <2>4, <3>1, <3>2
  <2> QED
    BY <1>3, <2>2, <2>3, <2>4 DEF Lockout!Fails, Lockout!Lock
<1>4. ASSUME NEW a \in Request, Lockout!SaveCount(a) PROVE LockoutTypes'
  <2>1. lkAttempts[a] # None /\ UNCHANGED <<lockStore, now, lapped>>
    BY <1>4 DEF Lockout!SaveCount, Lockout!At
  <2>2. Lockout!Answered(a, Lockout!Incremented(lkAttempts[a].seen, lkAttempts[a].at),
                         lkAttempts[a].at)
    BY <1>4 DEF Lockout!SaveCount
  <2> QED
    BY <1>a, <1>w, <2>1, <2>2
<1>5. ASSUME NEW a \in Request, Lockout!SaveLock(a) PROVE LockoutTypes'
  <2>1. /\ lkAttempts[a] # None /\ UNCHANGED <<lockStore, now, lapped>>
        /\ record' = Lockout!LockedRow(lkAttempts[a].seen, lkAttempts[a].at)
        /\ Lockout!Stamped(lkAttempts[a].seen, lkAttempts[a].at) /\ Lockout!Ends(a)
    BY <1>5 DEF Lockout!SaveLock, Lockout!At
  <2>2. record' \in Lockout!Records /\ record'.windowStartedAt <= now
    BY <1>r, <1>w, <2>1
  <2>3. streak' \in [count : Lockout!Counts, since : Lockout!Times \cup {None},
                    lockedAt : Lockout!Times]
    BY <1>w, <2>1, StreakStays
  <2> QED
    BY <1>g, <1>e, <1>t, <2>1, <2>2, <2>3
<1>6. ASSUME Lockout!Crash PROVE LockoutTypes'
  <2>1. streak' \in [count : Lockout!Counts, since : Lockout!Times \cup {None},
                    lockedAt : Lockout!Times]
    BY <1>6, <1>t, StreakStays DEF Lockout!Crash
  <2>2. lkAttempts' = [a \in Request |-> None] /\ UNCHANGED <<lockStore, now, record, lapped>>
    BY <1>6 DEF Lockout!Crash
  <2> QED
    BY <1>g, <1>t, <2>1, <2>2
<1>7. ASSUME Lockout!Tick PROVE LockoutTypes'
  <2>1. /\ now' \in 0 .. MaxNow /\ now' >= now /\ now' = now + 1
        /\ UNCHANGED <<lockStore, record, lkAttempts, streak, lapped>>
    BY <1>7, <1>t, AccountsAssumption, LockoutAssumption DEF Lockout!Tick
  <2>2. /\ lkAttempts' \in [Request -> Lockout!Attempts \cup {None}]
        /\ \A a \in Request : lkAttempts'[a] # None => Dated(lkAttempts[a])'
    BY <2>1, AttemptsStay
  <2>3. record' # None => record'.windowStartedAt <= now'
    <3>1. record # None => record.windowStartedAt \in Nat
      BY <1>t, TimesOfLocks DEF Lockout!Records
    <3> QED
      BY <1>t, <2>1, <3>1
  <2> QED
    BY <1>t, <2>1, <2>2, <2>3 DEF LockoutTypes, Lockout!TypeOK, Lockout!Times, Lockout!Attempts,
        Lockout!Records, Lockout!Counts, Lockout!Stores
<1>8. ASSUME UNCHANGED lkVars PROVE LockoutTypes'
  BY <1>8, <1>g, <1>t DEF lkVars
<1> QED
  BY <1>1, <1>2, <1>3, <1>4, <1>5, <1>6, <1>7, <1>8 DEF Lockout!Next

\* A failure is counted by the record as by the history.
LEMMA CountsInStep ==
    ASSUME LockoutTypes, InStep, NEW at \in 0 .. MaxNow,
           NEW row \in Lockout!Records \cup {None}, row # None => row = record,
           row = None => record = None \/ (lockStore = "redis" /\ record.ttl < at),
           row # None => row.windowStartedAt <= at,
           record' = Lockout!Incremented(row, at), Lockout!Counted(at), UNCHANGED lockStore
    PROVE  /\ InStep'
           /\ streak'.count >= MaxAttempts => record'.failedAttempts >= MaxAttempts
<1>t. /\ record \in Lockout!Records \cup {None}
      /\ streak \in [count : Lockout!Counts, since : Lockout!Times \cup {None},
                    lockedAt : Lockout!Times]
  BY DEF LockoutTypes, Lockout!TypeOK
<1>n. /\ WindowTicks \in Nat /\ at \in Nat /\ None \notin Nat /\ MaxAttempts \in Nat
      /\ Lockout!Times \subseteq Nat /\ Lockout!Counts \subseteq Nat
  BY AccountsAssumption, LockoutAssumption, TimesOfLocks
<1>1. /\ record' # None /\ record' \in Lockout!Records /\ record'.ttl = at + WindowTicks
      /\ IF row # None /\ at - row.windowStartedAt <= WindowTicks
         THEN /\ record'.failedAttempts = Lockout!OneMore(row.failedAttempts)
              /\ record'.windowStartedAt = row.windowStartedAt
         ELSE record'.failedAttempts = 1 /\ record'.windowStartedAt = at
  BY IncrementedRow
<1>2. (streak.since # None /\ at - streak.since <= WindowTicks)
          <=> (row # None /\ at - row.windowStartedAt <= WindowTicks)
  <2>1. CASE row # None
    BY <2>1, <1>n, <1>t DEF InStep, Lockout!Records
  <2>2. CASE row = None /\ record = None
    BY <2>2 DEF InStep
  <2>3. CASE row = None /\ record # None
    <3>1. record.ttl < at /\ record.ttl >= streak.since + WindowTicks
          /\ record.ttl \in Nat /\ streak.since \in Nat
      BY <2>3, <1>n, <1>t DEF InStep, Lockout!Records
    <3> QED
      BY <2>3, <3>1, <1>n
  <2> QED
    BY <2>1, <2>2, <2>3
<1>3. /\ streak'.count <= record'.failedAttempts
      /\ streak'.since = record'.windowStartedAt /\ record'.windowStartedAt <= at
      /\ record'.windowStartedAt \in Nat
  <2>1. CASE row # None /\ at - row.windowStartedAt <= WindowTicks
    <3>1. streak' = [streak EXCEPT !.count = Lockout!OneMore(streak.count)]
      BY <1>2, <2>1 DEF Lockout!Counted
    <3>2. streak'.count = Lockout!OneMore(streak.count) /\ streak'.since = streak.since
      BY <1>t, <3>1
    <3>3. /\ row = record /\ streak.count <= row.failedAttempts
          /\ streak.since = row.windowStartedAt
          /\ row.failedAttempts \in Lockout!Counts /\ row.windowStartedAt \in Nat
      BY <1>n, <2>1 DEF InStep, Lockout!Records
    <3>4. Lockout!OneMore(streak.count) <= Lockout!OneMore(row.failedAttempts)
      BY <1>t, <3>3, OneMoreCounts
    <3> QED
      BY <1>1, <2>1, <3>2, <3>3, <3>4
  <2>2. CASE ~(row # None /\ at - row.windowStartedAt <= WindowTicks)
    <3>1. streak' = [streak EXCEPT !.count = 1, !.since = at]
      BY <1>2, <2>2 DEF Lockout!Counted
    <3>2. streak'.count = 1 /\ streak'.since = at
      BY <1>t, <3>1
    <3> QED
      BY <1>1, <1>n, <2>2, <3>2
  <2> QED
    BY <2>1, <2>2
<1>4. streak'.count \in Nat /\ record'.failedAttempts \in Nat
  <2>1. streak'.count \in Lockout!Counts
    BY StreakStays
  <2> QED
    BY <1>1, <1>n, <2>1 DEF Lockout!Records
<1> QED
  BY <1>1, <1>3, <1>4, <1>n DEF InStep

\* An attempt of a store that changes the record in one step.
LEMMA InMemoryNext ==
    ASSUME LockoutTypes, lockStore = "memory", InMemory, [Lockout!Next]_lkVars
    PROVE  lockStore' = "memory" /\ InMemory'
<1>t. /\ record \in Lockout!Records \cup {None} /\ now \in 0 .. MaxNow
      /\ streak \in [count : Lockout!Counts, since : Lockout!Times \cup {None},
                    lockedAt : Lockout!Times]
      /\ record # None => record.windowStartedAt <= now
  BY DEF LockoutTypes, Lockout!TypeOK
<1>i. InStep /\ (BelowLimit \/ LockSet)
  BY DEF InMemory
<1>p. ASSUME NEW a \in Request, NEW w, Moves(a, w), w # None => w.pc \in {"verify", "lock"}
      PROVE  \A b \in Request : lkAttempts'[b] # None => lkAttempts'[b].pc \in {"verify", "lock"}
  BY <1>p, MovedTo DEF InMemory
<1>b. ASSUME NEW a \in Request, NEW w, Moves(a, w), ~Locking(lkAttempts[a]),
             UNCHANGED streak, BelowLimit
      PROVE  BelowLimit'
  BY <1>b, MovedTo DEF BelowLimit, Locking
<1>a. \A a \in Request : lkAttempts[a] # None => lkAttempts[a].pc \in {"verify", "lock"}
  BY DEF InMemory
<1>1. ASSUME NEW a \in Request, Lockout!Check(a) PROVE lockStore' = "memory" /\ InMemory'
  <2>1. /\ Lockout!Goes(a, "verify", None) /\ lkAttempts[a] = None
        /\ UNCHANGED <<lockStore, now, record, streak>>
    BY <1>1 DEF Lockout!Check
  <2>2. PICK w : Moves(a, w) /\ w.pc = "verify" /\ w # None
    BY <2>1, GoesMoves
  <2>3. BelowLimit' \/ LockSet'
    BY <1>i, <1>b, <2>1, <2>2 DEF LockSet, Locking
  <2>4. InStep'
    BY <1>i, <2>1 DEF InStep
  <2> QED
    BY <1>p, <2>1, <2>2, <2>3, <2>4 DEF InMemory
<1>2. ASSUME NEW a \in Request, Lockout!Succeeds(a) PROVE lockStore' = "memory" /\ InMemory'
  <2>1. /\ Moves(a, None) /\ record' = None /\ UNCHANGED lockStore
        /\ streak'.count = 0 /\ streak'.since = None
    BY <1>2, <1>t DEF Lockout!Succeeds, Lockout!Ends, Moves
  <2>2. PICK w : w = None
    OBVIOUS
  <2>3. InStep' /\ BelowLimit'
    BY <2>1, AccountsAssumption, LockoutAssumption DEF InStep, BelowLimit
  <2> QED
    BY <1>p, <2>1, <2>2, <2>3 DEF InMemory
<1>3. ASSUME NEW a \in Request, Lockout!Fails(a) PROVE lockStore' = "memory" /\ InMemory'
  <2>1. /\ Lockout!Answered(a, Lockout!Incremented(record, now), now) /\ UNCHANGED lockStore
        /\ lkAttempts[a] # None /\ lkAttempts[a].pc = "verify"
    BY <1>3 DEF Lockout!Fails, Lockout!At
  <2>2. record' = Lockout!Incremented(record, now) /\ Lockout!Counted(now)
    BY <2>1 DEF Lockout!Answered
  <2>3. InStep' /\ (streak'.count >= MaxAttempts => record'.failedAttempts >= MaxAttempts)
    BY <1>i, <1>t, <2>1, <2>2, CountsInStep
  <2>4. streak'.count \in Nat /\ MaxAttempts \in Nat
    BY <1>t, <2>2, StreakStays, TimesOfLocks, AccountsAssumption, LockoutAssumption
  <2>5. CASE record'.failedAttempts >= MaxAttempts
    <3>1. PICK w : Moves(a, w) /\ w.pc = "lock" /\ w # None
      BY <2>1, <2>2, <2>5, GoesMoves DEF Lockout!Answered
    <3>2. BelowLimit'
      BY <3>1, MovedTo DEF BelowLimit, Locking
    <3> QED
      BY <1>p, <2>1, <2>3, <3>1, <3>2 DEF InMemory
  <2>6. CASE ~(record'.failedAttempts >= MaxAttempts)
    <3>1. PICK w : w = None
      OBVIOUS
    <3>2. Moves(a, w)
      BY <2>1, <2>2, <2>6, <3>1 DEF Lockout!Answered, Lockout!Ends, Moves
    <3>3. BelowLimit'
      BY <2>3, <2>4, <2>6 DEF BelowLimit
    <3> QED
      BY <1>p, <2>1, <2>3, <3>1, <3>2, <3>3 DEF InMemory
  <2> QED
    BY <2>5, <2>6
<1>4. ASSUME NEW a \in Request, Lockout!Lock(a) PROVE lockStore' = "memory" /\ InMemory'
  <2>1. /\ record' = Lockout!LockedRow(record, now) /\ Lockout!Stamped(record, now)
        /\ Moves(a, None) /\ UNCHANGED lockStore
    BY <1>4 DEF Lockout!Lock, Lockout!Ends, Moves
  <2>2. /\ record' # None /\ record'.lockedUntil = now + LockoutTicks
        /\ IF record # None THEN /\ record'.failedAttempts = record.failedAttempts
                               /\ record'.windowStartedAt = record.windowStartedAt
           ELSE record'.failedAttempts = 0 /\ record'.windowStartedAt = now
    BY <1>t, <2>1, LockedRowHolds
  <2>3. /\ streak'.lockedAt = now /\ streak'.count = streak.count
        /\ streak'.since = IF record = None THEN now ELSE streak.since
    BY <1>t, <2>1 DEF Lockout!Stamped
  <2>4. InStep' /\ LockSet'
    BY <1>i, <2>1, <2>2, <2>3 DEF InStep, LockSet
  <2>5. PICK w : w = None
    OBVIOUS
  <2> QED
    BY <1>p, <2>1, <2>4, <2>5 DEF InMemory
<1>5. ASSUME NEW a \in Request, Lockout!SaveCount(a) \/ Lockout!SaveLock(a) PROVE FALSE
  BY <1>5, <1>a DEF Lockout!SaveCount, Lockout!SaveLock, Lockout!At
<1>6. ~Lockout!Crash
  BY DEF Lockout!Crash
<1>7. ASSUME Lockout!Tick \/ UNCHANGED lkVars PROVE lockStore' = "memory" /\ InMemory'
  <2>1. UNCHANGED <<lockStore, record, lkAttempts, streak>>
    BY <1>7 DEF Lockout!Tick, lkVars
  <2> QED
    BY <2>1 DEF InMemory, InStep, LockSet, BelowLimit, Locking
<1> QED
  BY <1>1, <1>2, <1>3, <1>4, <1>5, <1>6, <1>7 DEF Lockout!Next

\* The step of an attempt that is alone.
LEMMA AloneNext ==
    ASSUME LockoutTypes, lockStore # "memory", ~lapped => Alone, [Lockout!Next]_lkVars
    PROVE  lockStore' # "memory" /\ (~lapped' => Alone')
<1> DEFINE Goal == lockStore' # "memory" /\ (~lapped' => Alone')
<1>t. /\ record \in Lockout!Records \cup {None} /\ now \in 0 .. MaxNow
      /\ streak \in [count : Lockout!Counts, since : Lockout!Times \cup {None},
                    lockedAt : Lockout!Times]
      /\ record # None => record.windowStartedAt <= now
      /\ lkAttempts \in [Request -> Lockout!Attempts \cup {None}]
  BY DEF LockoutTypes, Lockout!TypeOK
<1>n. /\ LockoutTicks \in Nat /\ Lockout!Times \subseteq Nat /\ now \in Nat
      /\ MaxAttempts \in Nat \ {0} /\ Lockout!Counts \subseteq Nat
  BY <1>t, AccountsAssumption, LockoutAssumption, TimesOfLocks
<1>i. ASSUME ~lapped PROVE OneAttempt /\ AllRead /\ Guarded
  BY <1>i DEF Alone
<1>w. ASSUME NEW a \in Request, lkAttempts[a] # None
      PROVE  /\ lkAttempts[a].seen \in Lockout!Records \cup {None}
             /\ lkAttempts[a].at \in 0 .. MaxNow
             /\ lkAttempts[a].seen # None => lkAttempts[a].seen.windowStartedAt <= lkAttempts[a].at
             /\ lkAttempts[a].at <= now
  <2>1. lkAttempts[a] \in Lockout!Attempts /\ Dated(lkAttempts[a])
    BY <1>t, <1>w DEF LockoutTypes
  <2>2. lkAttempts[a].at \in Nat
    BY <2>1, TimesOfLocks DEF Lockout!Attempts
  <2> QED
    BY <1>t, <2>1, <2>2, AccountsAssumption, LockoutAssumption DEF Lockout!Attempts, Dated
\* The one attempt goes on, and the others are none.
<1>o. ASSUME NEW a \in Request, OneAttempt, lkAttempts[a] # None \/ NoneOutThere,
             NEW w, Moves(a, w)
      PROVE  /\ lkAttempts'[a] = w /\ \A b \in Request \ {a} : lkAttempts'[b] = None
             /\ OneAttempt'
  <2>1. lkAttempts'[a] = w /\ \A b \in Request \ {a} : lkAttempts'[b] = lkAttempts[b]
    BY <1>o, MovedTo
  <2>2. \A b \in Request \ {a} : lkAttempts[b] = None
    BY <1>o DEF OneAttempt, NoneOutThere
  <2> QED
    BY <2>1, <2>2 DEF OneAttempt
<1>1. ASSUME NEW a \in Request, Lockout!Check(a) PROVE Goal
  <2>1. /\ Lockout!Goes(a, "verify", None) /\ lkAttempts[a] = None /\ ~Lockout!Locked
        /\ UNCHANGED <<lockStore, now, record, streak>>
        /\ ~lapped' => ~lapped /\ NoneOutThere
    BY <1>1 DEF Lockout!Check, NoneOutThere
  <2>2. ASSUME ~lapped' PROVE Alone'
    <3>1. OneAttempt /\ AllRead /\ Guarded /\ NoneOutThere
      BY <1>i, <2>1, <2>2
    <3>2. PICK w : Moves(a, w) /\ w.pc = "verify" /\ w # None
      BY <2>1, GoesMoves
    <3>3. /\ lkAttempts'[a] = w /\ \A b \in Request \ {a} : lkAttempts'[b] = None
          /\ OneAttempt'
      BY <1>o, <3>1, <3>2
    <3>4. AllRead'
      BY <3>2, <3>3 DEF AllRead
    <3>5. CASE InStep /\ BelowLimit
      <4>1. streak.count < MaxAttempts
        BY <3>1, <3>5 DEF BelowLimit, Locking, NoneOutThere
      <4> QED
        BY <2>1, <3>3, <3>4, <3>5, <4>1 DEF Alone, Guarded, InStep, BelowLimit
    <3>6. CASE now >= streak.lockedAt + LockoutTicks
      BY <2>1, <3>3, <3>4, <3>6 DEF Alone, Guarded
    <3>7. CASE LockSet
      <4>1. ~(record.lockedUntil > now) \/ (lockStore = "redis" /\ record.ttl < now)
        BY <2>1, <3>7 DEF Lockout!Locked, Lockout!Get, LockSet
      <4>2. record.lockedUntil \in Nat /\ record.ttl \in Nat
        BY <1>n, <1>t, <3>7 DEF LockSet, Lockout!Records
      <4>3. now >= streak.lockedAt + LockoutTicks
        BY <1>n, <3>7, <4>1, <4>2 DEF LockSet
      <4> QED
        BY <2>1, <3>3, <3>4, <4>3 DEF Alone, Guarded
    <3> QED
      BY <3>1, <3>5, <3>6, <3>7 DEF Guarded
  <2> QED
    BY <2>1, <2>2
<1>2. ASSUME NEW a \in Request, Lockout!Succeeds(a) PROVE Goal
  <2>1. /\ Moves(a, None) /\ record' = None /\ UNCHANGED <<lockStore, lapped>>
        /\ streak'.count = 0 /\ streak'.since = None /\ lkAttempts[a] # None
    BY <1>2, <1>t DEF Lockout!Succeeds, Lockout!Ends, Moves, Lockout!At
  <2>2. InStep' /\ BelowLimit'
    BY <2>1, AccountsAssumption, LockoutAssumption DEF InStep, BelowLimit
  <2>3. PICK w : w = None
    OBVIOUS
  <2>4. ASSUME ~lapped PROVE Alone'
    <3>1. /\ lkAttempts'[a] = w /\ \A b \in Request \ {a} : lkAttempts'[b] = None
          /\ OneAttempt'
      BY <1>i, <1>o, <2>1, <2>3, <2>4
    <3>2. AllRead'
      BY <2>3, <3>1 DEF AllRead
    <3> QED
      BY <2>2, <3>1, <3>2 DEF Alone, Guarded
  <2> QED
    BY <2>1, <2>4
\* The request of an attempt reads the record, to count or to lock.
<1>r. ASSUME NEW a \in Request, lkAttempts[a] # None, NEW pc \in {"count", "stamp"},
             Lockout!Goes(a, pc, Lockout!Get), UNCHANGED <<lockStore, now, record, streak>>,
             Locking(lkAttempts[a]) <=> pc = "stamp", ~lapped
      PROVE  Alone'
  <2>1. OneAttempt /\ AllRead /\ Guarded
    BY <1>i, <1>r
  <2>2. PICK got : got = Lockout!Get
    OBVIOUS
  <2>3. /\ got \in Lockout!Records \cup {None}
        /\ got # None => got = record
        /\ got = None => record = None \/ (lockStore = "redis" /\ record.ttl < now)
    BY <2>2, GetsRecord
  <2>4. PICK w : Moves(a, w) /\ w.pc = pc /\ w.seen = got /\ w.at = now /\ w # None
    BY <1>r, <2>2, <2>3, GoesMoves
  <2>5. /\ lkAttempts'[a] = w /\ \A b \in Request \ {a} : lkAttempts'[b] = None
        /\ OneAttempt'
    BY <1>o, <1>r, <2>1, <2>4
  <2>6. ReadsRecord(w)
    BY <2>3, <2>4 DEF ReadsRecord
  <2>7. AllRead'
    BY <1>r, <2>5, <2>6 DEF AllRead, ReadsRecord
  <2>8. Guarded'
    <3>1. CASE InStep /\ BelowLimit
      <4>1. InStep'
        BY <1>r, <3>1 DEF InStep
      <4>2. BelowLimit'
        <5>1. CASE pc = "stamp"
          BY <2>4, <2>5, <5>1 DEF BelowLimit, Locking
        <5>2. CASE pc = "count"
          <6>1. \A b \in Request : ~Locking(lkAttempts[b])
            BY <1>r, <2>1, <5>2 DEF OneAttempt, Locking
          <6> QED
            BY <1>r, <3>1, <6>1 DEF BelowLimit
        <5> QED
          BY <5>1, <5>2
      <4> QED
        BY <4>1, <4>2 DEF Guarded
    <3>2. CASE now >= streak.lockedAt + LockoutTicks
      BY <1>r, <3>2 DEF Guarded
    <3> QED
      BY <1>r, <2>1, <3>1, <3>2 DEF Guarded, NoneOutThere
  <2> QED
    BY <2>5, <2>7, <2>8 DEF Alone
<1>3. ASSUME NEW a \in Request, Lockout!Fails(a) \/ Lockout!Lock(a) PROVE Goal
  <2>1. /\ lkAttempts[a] # None /\ UNCHANGED <<lockStore, now, record, streak, lapped>>
        /\ \/ Lockout!Goes(a, "count", Lockout!Get) /\ lkAttempts[a].pc = "verify"
           \/ Lockout!Goes(a, "stamp", Lockout!Get) /\ lkAttempts[a].pc = "lock"
    BY <1>3 DEF Lockout!Fails, Lockout!Lock, Lockout!At
  <2> QED
    BY <1>r, <2>1 DEF Locking
<1>4. ASSUME NEW a \in Request, Lockout!SaveCount(a) PROVE Goal
  <2>1. /\ lkAttempts[a] # None /\ lkAttempts[a].pc = "count"
        /\ UNCHANGED <<lockStore, now, lapped>>
    BY <1>4 DEF Lockout!SaveCount, Lockout!At
  <2>2. PICK row, at : row = lkAttempts[a].seen /\ at = lkAttempts[a].at
    OBVIOUS
  <2>3. Lockout!Answered(a, Lockout!Incremented(row, at), at)
    BY <1>4, <2>2 DEF Lockout!SaveCount
  <2>4. /\ row \in Lockout!Records \cup {None} /\ at \in 0 .. MaxNow
        /\ row # None => row.windowStartedAt <= at
    BY <1>w, <2>1, <2>2
  <2>5. record' = Lockout!Incremented(row, at) /\ Lockout!Counted(at)
    BY <2>3 DEF Lockout!Answered
  <2>6. streak'.count \in Nat /\ streak'.lockedAt = streak.lockedAt
    BY <1>n, <1>t, <2>4, <2>5, StreakStays DEF Lockout!Counted
  <2>7. ASSUME ~lapped PROVE Alone'
    <3>1. OneAttempt /\ AllRead /\ Guarded
      BY <1>i, <2>7
    <3>2. /\ row # None => row = record
          /\ row = None => record = None \/ (lockStore = "redis" /\ record.ttl < at)
      BY <2>1, <2>2, <3>1 DEF AllRead, ReadsRecord
    <3>3. PICK w : /\ Moves(a, w)
                   /\ IF record'.failedAttempts >= MaxAttempts THEN w # None /\ w.pc = "lock"
                      ELSE w = None
      <4>1. CASE record'.failedAttempts >= MaxAttempts
        <5>1. PICK w : Moves(a, w) /\ w # None /\ w.pc = "lock"
          BY <2>3, <2>5, <4>1, GoesMoves DEF Lockout!Answered
        <5> QED
          BY <4>1, <5>1
      <4>2. CASE ~(record'.failedAttempts >= MaxAttempts)
        BY <2>3, <2>5, <4>2 DEF Lockout!Answered, Lockout!Ends, Moves
      <4> QED
        BY <4>1, <4>2
    <3>4. /\ lkAttempts'[a] = w /\ \A b \in Request \ {a} : lkAttempts'[b] = None
          /\ OneAttempt'
      BY <1>o, <2>1, <3>1, <3>3
    <3>5. AllRead'
      BY <3>3, <3>4 DEF AllRead
    <3>6. CASE InStep
      <4>1. InStep' /\ (streak'.count >= MaxAttempts => record'.failedAttempts >= MaxAttempts)
        BY <2>1, <2>4, <2>5, <3>2, <3>6, CountsInStep
      <4>2. BelowLimit'
        <5>1. CASE record'.failedAttempts >= MaxAttempts
          BY <3>3, <3>4, <5>1 DEF BelowLimit, Locking
        <5>2. CASE ~(record'.failedAttempts >= MaxAttempts)
          BY <1>n, <2>6, <4>1, <5>2 DEF BelowLimit
        <5> QED
          BY <5>1, <5>2
      <4> QED
        BY <3>4, <3>5, <4>1, <4>2 DEF Alone, Guarded
    <3>7. CASE now >= streak.lockedAt + LockoutTicks
      BY <2>1, <2>6, <3>4, <3>5, <3>7 DEF Alone, Guarded
    <3> QED
      BY <2>1, <3>1, <3>6, <3>7 DEF Guarded, NoneOutThere
  <2> QED
    BY <2>1, <2>7
<1>5. ASSUME NEW a \in Request, Lockout!SaveLock(a) PROVE Goal
  <2>1. /\ lkAttempts[a] # None /\ UNCHANGED <<lockStore, now, lapped>> /\ Moves(a, None)
    BY <1>5 DEF Lockout!SaveLock, Lockout!At, Lockout!Ends, Moves
  <2>2. PICK row, at : row = lkAttempts[a].seen /\ at = lkAttempts[a].at
    OBVIOUS
  <2>3. record' = Lockout!LockedRow(row, at) /\ Lockout!Stamped(row, at)
    BY <1>5, <2>2 DEF Lockout!SaveLock
  <2>4. row \in Lockout!Records \cup {None} /\ at \in 0 .. MaxNow
    BY <1>w, <2>1, <2>2
  <2>5. streak'.lockedAt = at
    BY <1>t, <2>3 DEF Lockout!Stamped
  <2>6. /\ record' # None /\ record'.lockedUntil = at + LockoutTicks
        /\ record'.ttl = at + LockoutTicks
    BY <2>3, <2>4, LockedRowHolds
  <2>7. LockSet'
    BY <1>n, <2>4, <2>5, <2>6 DEF LockSet
  <2>8. PICK w : w = None
    OBVIOUS
  <2>9. ASSUME ~lapped PROVE Alone'
    <3>1. /\ lkAttempts'[a] = w /\ \A b \in Request \ {a} : lkAttempts'[b] = None
          /\ OneAttempt'
      BY <1>i, <1>o, <2>1, <2>8, <2>9
    <3>2. NoneOutThere' /\ AllRead'
      BY <2>8, <3>1 DEF NoneOutThere, AllRead
    <3> QED
      BY <2>7, <3>1, <3>2 DEF Alone, Guarded
  <2> QED
    BY <2>1, <2>9
<1>6. ASSUME Lockout!Crash PROVE Goal
  <2>1. /\ ~NoneOutThere /\ NoneOutThere' /\ UNCHANGED <<lockStore, now, record, lapped>>
    BY <1>6 DEF Lockout!Crash, NoneOutThere
  <2>2. streak'.count = 0 /\ streak'.since = streak.since /\ streak'.lockedAt = streak.lockedAt
    BY <1>6, <1>t DEF Lockout!Crash
  <2>3. ASSUME ~lapped PROVE Alone'
    <3>1. OneAttempt' /\ AllRead'
      BY <2>1 DEF OneAttempt, AllRead, NoneOutThere
    <3>2. CASE InStep
      <4>1. record # None => record.failedAttempts \in Nat
        BY <1>n, <1>t DEF Lockout!Records
      <4>2. InStep' /\ BelowLimit'
        BY <1>n, <2>1, <2>2, <3>2, <4>1 DEF InStep, BelowLimit
      <4> QED
        BY <3>1, <4>2 DEF Alone, Guarded
    <3>3. CASE now >= streak.lockedAt + LockoutTicks
      BY <2>1, <2>2, <3>1, <3>3 DEF Alone, Guarded
    <3> QED
      BY <1>i, <2>1, <2>3, <3>2, <3>3 DEF Guarded
  <2> QED
    BY <2>1, <2>3
<1>7. ASSUME Lockout!Tick \/ UNCHANGED lkVars PROVE Goal
  <2>1. /\ UNCHANGED <<lockStore, record, lkAttempts, streak, lapped>>
        /\ now' = now \/ now' = now + 1
    BY <1>7 DEF Lockout!Tick, lkVars
  <2>2. now >= streak.lockedAt + LockoutTicks => now' >= streak.lockedAt + LockoutTicks
    <3>1. streak.lockedAt \in Nat
      BY <1>n, <1>t
    <3> QED
      BY <1>n, <2>1, <3>1
  <2>3. Guarded => Guarded'
    BY <2>1, <2>2 DEF Guarded, InStep, LockSet, BelowLimit, Locking, NoneOutThere
  <2>4. Alone => Alone'
    BY <2>1, <2>3 DEF Alone, OneAttempt, AllRead, ReadsRecord
  <2> QED
    BY <2>1, <2>4
<1> QED
  BY <1>1, <1>2, <1>3, <1>4, <1>5, <1>6, <1>7 DEF Lockout!Next

\* Every step of the counting of failures keeps the invariant.
LEMMA LockoutNext == LockoutInv /\ [Lockout!Next]_lkVars => LockoutInv'
BY LockoutTypesNext, InMemoryNext, AloneNext DEF LockoutInv

\* The invariant locks the key.
LEMMA LockoutSafe == LockoutInv => Lockout!FailuresLock
<1> SUFFICES ASSUME LockoutInv, streak.count >= MaxAttempts,
                    \A a \in Request : ~Lockout!Recording(a),
                    now < streak.lockedAt + LockoutTicks,
                    ~(lockStore # "memory" /\ lapped)
             PROVE  Lockout!Locked
  BY DEF Lockout!FailuresLock
<1>1. /\ record \in Lockout!Records \cup {None} /\ now \in Nat
      /\ streak.count \in Nat /\ streak.lockedAt \in Nat
      /\ MaxAttempts \in Nat /\ LockoutTicks \in Nat
  BY AccountsAssumption, LockoutAssumption, TimesOfLocks DEF LockoutInv, LockoutTypes,
     Lockout!TypeOK
<1>2. ~BelowLimit
  BY <1>1 DEF BelowLimit, Locking, Lockout!Recording
<1>3. LockSet
  BY <1>1, <1>2 DEF LockoutInv, InMemory, Alone, Guarded
<1>4. record # None /\ record.ttl \in Nat /\ record.lockedUntil \in Nat
  BY <1>1, <1>3, TimesOfLocks DEF LockSet, Lockout!Records
<1>5. /\ record.lockedUntil > now
      /\ lockStore = "redis" => record.ttl > now
  BY <1>1, <1>3, <1>4 DEF LockSet
<1>6. Lockout!Get = record
  BY <1>1, <1>4, <1>5 DEF Lockout!Get
<1> QED
  BY <1>4, <1>5, <1>6 DEF Lockout!Locked

-------------------------------------------------------------------------------

(* MfaCodes.                                                                  *)

\* A request of the challenge works on a login, one of the management holds a row.
HoldsRow(w) == w.pc \in {"save", "claim", "sent", "verify"}
WorksOn(w) ==
    IF HoldsRow(w)
    THEN /\ w.row \in MfaCodes!Row /\ w.login = None
         /\ w.pc = "verify" => w.row.codes = {}
    ELSE w.login \in MfaCodes!Login /\ w.factor \in MfaCodes!Factor
AllWork == \A r \in Request : mcWork[r] # None => WorksOn(mcWork[r])

\* Backup codes that were generated, none of which was used unless a request was overtaken.
Fine(codes) ==
    /\ \A c \in codes : c < nextCode
    /\ codes \cap spent # {} => mcOvertaken
CodesFine ==
    /\ \A c \in spent : c < nextCode
    /\ enrollment # None => Fine(enrollment.codes)
    /\ \A r \in Request : mcWork[r] # None /\ HoldsRow(mcWork[r]) => Fine(mcWork[r].row.codes)

\* The requests that work on a login: the login was parked for them, and each that promoted it is
\* one less.
Working(l) == {r \in Request : mcWork[r] # None /\ mcWork[r].login = l}
LoginsCounted ==
    \A l \in MfaCodes!Login :
        /\ promotions[l] + Cardinality(Working(l)) <= Cardinality(Request) + 1
        /\ l >= nextLogin => l \notin mcParked /\ Working(l) = {}
        /\ l >= nextLogin \/ l \in mcParked => promotions[l] = 0
PromotedAlone ==
    \A l \in MfaCodes!Login : l \notin crossed =>
        /\ promotions[l] <= 1
        /\ promotions[l] = 1 => Working(l) = {}
        /\ \A q, r \in Working(l) : q = r

CodesInv ==
    /\ MfaCodes!TypeOK
    /\ AllWork
    /\ CodesFine
    /\ LoginsCounted
    /\ PromotedAlone

\* The cardinality that MfaCodes takes from the standard module is the one that is counted here.
LEMMA SameCodeCardinality == MfaCodes!Cardinality(Request) = Cardinality(Request)
BY DEF MfaCodes!Cardinality, Cardinality

\* The types, up to the bound on the promotions of a login.
PromotionsBounded ==
    promotions \in [MfaCodes!Login -> 0 .. MfaCodes!Cardinality(Request) + 1]

\* At first nobody is enrolled and no login waits.
LEMMA CodesInit == MfaCodes!Init => CodesInv
<1> SUFFICES ASSUME MfaCodes!Init PROVE CodesInv
  OBVIOUS
<1>0. /\ 1 \in 1 .. MaxCode + 1 /\ 1 \in 1 .. MaxLogin + 1 /\ 0 \in 0 .. CodeMaxAttempts
      /\ Cardinality(Request) \in Nat /\ Cardinality({}) = 0
  BY AccountsAssumption, CodesAssumption, FS_CardinalityType, FS_EmptySet
<1>1. 0 \in 0 .. Cardinality(Request) + 1 /\ 0 + 0 <= Cardinality(Request) + 1
  BY <1>0
<1>2. MfaCodes!TypeOK
  <2>1. /\ mcAttempts \in [MfaCodes!Factor -> 0 .. CodeMaxAttempts]
        /\ mcWork \in [Request -> MfaCodes!Work \cup {None}]
    BY <1>0 DEF MfaCodes!Init
  <2>2. promotions \in [MfaCodes!Login -> 0 .. Cardinality(Request) + 1]
    BY <1>1 DEF MfaCodes!Init
  <2>3. promotions \in [MfaCodes!Login -> 0 .. MfaCodes!Cardinality(Request) + 1]
    BY <2>2, SameCodeCardinality
  <2> QED
    BY <1>0, <2>1, <2>3 DEF MfaCodes!Init, MfaCodes!TypeOK
<1>3. \A r \in Request : mcWork[r] = None
  BY DEF MfaCodes!Init
<1>4. AllWork /\ CodesFine
  BY <1>3 DEF MfaCodes!Init, AllWork, CodesFine
<1>5. \A l : Working(l) = {}
  BY <1>3 DEF Working
<1>6. \A l \in MfaCodes!Login : promotions[l] = 0
  BY DEF MfaCodes!Init
<1>7. LoginsCounted
  <2> SUFFICES ASSUME NEW l \in MfaCodes!Login
               PROVE  /\ promotions[l] + Cardinality(Working(l)) <= Cardinality(Request) + 1
                      /\ l \notin mcParked /\ promotions[l] = 0 /\ Working(l) = {}
    BY DEF LoginsCounted
  <2>1. Working(l) = {} /\ promotions[l] = 0 /\ l \notin mcParked
    BY <1>5, <1>6 DEF MfaCodes!Init
  <2>2. promotions[l] + Cardinality(Working(l)) = 0 + 0
    BY <1>0, <2>1
  <2> QED
    BY <1>1, <2>1, <2>2
<1>8. PromotedAlone
  BY <1>5, <1>6 DEF PromotedAlone
<1> QED
  BY <1>2, <1>4, <1>7, <1>8 DEF CodesInv

\* A request that works.
LEMMA CodeWork ==
    ASSUME MfaCodes!TypeOK, AllWork, NEW r \in Request, mcWork[r] # None
    PROVE  mcWork[r] \in MfaCodes!Work /\ WorksOn(mcWork[r])
BY DEF MfaCodes!TypeOK, AllWork

\* The steps of a request: it goes on with what it works on or ends, it reads the enrollment,
\* or it enters a code for a login.
Changes(r, w) == mcWork' = [mcWork EXCEPT ![r] = w]
GoesOn(r) ==
    \/ Changes(r, None)
    \/ /\ mcWork[r] # None
       /\ \E w \in MfaCodes!Work :
            /\ Changes(r, w) /\ WorksOn(w) /\ (HoldsRow(w) <=> HoldsRow(mcWork[r]))
            /\ w.row = mcWork[r].row /\ w.login = mcWork[r].login
ReadsRow(r) ==
    /\ mcWork[r] = None
    /\ \E w \in MfaCodes!Work :
        /\ Changes(r, w) /\ WorksOn(w) /\ HoldsRow(w)
        /\ w.row.codes \subseteq MfaCodes!Base.codes
EntersCode(r, l) ==
    /\ mcWork[r] = None /\ l \in mcParked
    /\ \E w \in MfaCodes!Work : Changes(r, w) /\ WorksOn(w) /\ ~HoldsRow(w) /\ w.login = l
    /\ crossed' = IF \E q \in Request : mcWork[q] # None /\ mcWork[q].login = l
                  THEN crossed \cup {l} ELSE crossed

\* A request that goes on with its work works on the same login.
LEMMA GoesOnTo ==
    ASSUME MfaCodes!TypeOK, AllWork, NEW r \in Request, mcWork[r] # None,
           NEW pc \in {"attempt", "code", "reset", "promote", "save", "claim", "sent"},
           MfaCodes!On(r, pc),
           pc \in {"save", "claim", "sent"} <=> HoldsRow(mcWork[r])
    PROVE  GoesOn(r)
<1>1. PICK w : w = [mcWork[r] EXCEPT !.pc = pc]
  OBVIOUS
<1>2. mcWork[r] \in MfaCodes!Work /\ WorksOn(mcWork[r])
  BY CodeWork
<1>3. /\ w \in MfaCodes!Work /\ w.pc = pc /\ w.row = mcWork[r].row /\ w.login = mcWork[r].login
      /\ w.factor = mcWork[r].factor
  BY <1>1, <1>2 DEF MfaCodes!Work
<1>4. WorksOn(w) /\ (HoldsRow(w) <=> HoldsRow(mcWork[r]))
  BY <1>2, <1>3 DEF WorksOn, HoldsRow
<1>5. Changes(r, w)
  BY <1>1 DEF MfaCodes!On, Changes
<1> QED
  BY <1>3, <1>4, <1>5 DEF GoesOn

\* A request that does nothing yet.
LEMMA IdleWork == MfaCodes!Idle \in MfaCodes!Work
<1>1. 0 \in 0 .. CodeMaxAttempts
  BY AccountsAssumption, CodesAssumption
<1> QED
  BY <1>1 DEF MfaCodes!Idle, MfaCodes!Work

\* The row that an enrollment starts from.
LEMMA BaseRow == ASSUME MfaCodes!TypeOK PROVE MfaCodes!Base \in MfaCodes!Row
BY DEF MfaCodes!TypeOK, MfaCodes!Base, MfaCodes!Blank, MfaCodes!Row

\* A request that reads the row holds it.
LEMMA ReadsThe ==
    ASSUME NEW r \in Request, NEW row \in MfaCodes!Row, NEW w \in MfaCodes!Work,
           w.pc \in {"save", "claim", "verify"}, w.row = row, w.login = None,
           w.pc = "verify" => row.codes = {}, MfaCodes!Begins(r, w),
           row.codes \subseteq MfaCodes!Base.codes
    PROVE  ReadsRow(r)
<1>1. WorksOn(w) /\ HoldsRow(w)
  BY DEF WorksOn, HoldsRow
<1> QED
  BY <1>1 DEF ReadsRow, MfaCodes!Begins, Changes

\* A row that is saved is one of the types.
LEMMA SavesRow ==
    ASSUME NEW row \in MfaCodes!Row, NEW w, w = [MfaCodes!Idle EXCEPT !.row = row]
    PROVE  w \in MfaCodes!Work /\ w.pc = "save" /\ w.row = row /\ w.login = None
BY IdleWork DEF MfaCodes!Idle, MfaCodes!Work

\* Every step is one of these for the requests.
LEMMA CodeSteps ==
    ASSUME MfaCodes!TypeOK, AllWork, [MfaCodes!Next]_mcVars
    PROVE  \/ UNCHANGED mcWork
           \/ \E r \in Request : GoesOn(r) \/ ReadsRow(r)
           \/ \E r \in Request, l \in MfaCodes!Login, c \in MfaCodes!Code \cup {None} :
                MfaCodes!EnterCode(r, l, c) /\ EntersCode(r, l)
<1> DEFINE Goal == \/ UNCHANGED mcWork
                   \/ \E r \in Request : GoesOn(r) \/ ReadsRow(r)
                   \/ \E r \in Request, l \in MfaCodes!Login, c \in MfaCodes!Code \cup {None} :
                        MfaCodes!EnterCode(r, l, c) /\ EntersCode(r, l)
<1>b. MfaCodes!Base \in MfaCodes!Row /\ (enrollment # None => MfaCodes!Base = enrollment)
  BY BaseRow DEF MfaCodes!Base
<1>e. ASSUME NEW r \in Request, MfaCodes!Ends(r) PROVE GoesOn(r)
  BY <1>e DEF MfaCodes!Ends, GoesOn, Changes
<1>1. ASSUME \/ MfaCodes!SetupTotp \/ MfaCodes!ConfirmTotp \/ MfaCodes!RemoveAll
             \/ MfaCodes!Park
             \/ \E l \in MfaCodes!Login : MfaCodes!PendingExpires(l)
             \/ \E f \in MfaCodes!Factor : MfaCodes!AttemptWindowEnds(f)
             \/ UNCHANGED mcVars
      PROVE  UNCHANGED mcWork
  BY <1>1 DEF MfaCodes!SetupTotp, MfaCodes!ConfirmTotp, MfaCodes!RemoveAll, MfaCodes!Park,
 MfaCodes!PendingExpires, MfaCodes!AttemptWindowEnds, mcVars
<1>2. ASSUME NEW r \in Request, NEW f \in {"totp", "phone"}, MfaCodes!RemoveFactor(r, f)
      PROVE  ReadsRow(r)
  <2>1. PICK row : row = MfaCodes!Without(enrollment, f)
    OBVIOUS
  <2>2. enrollment \in MfaCodes!Row /\ MfaCodes!Base = enrollment
    BY <1>2, <1>b DEF MfaCodes!RemoveFactor
  <2>3. row \in MfaCodes!Row /\ row.codes \subseteq enrollment.codes
    <3>1. PICK left : left = IF f = "totp" THEN [enrollment EXCEPT !.totp = "none"]
                             ELSE [enrollment EXCEPT !.phone = "none"]
      OBVIOUS
    <3>2. left \in MfaCodes!Row /\ left.codes = enrollment.codes
      BY <2>2, <3>1 DEF MfaCodes!Row
    <3>3. row = left \/ row = [left EXCEPT !.codes = {}]
      BY <2>1, <3>1 DEF MfaCodes!Without
    <3> QED
      BY <3>2, <3>3 DEF MfaCodes!Row
  <2>4. PICK w : w = [MfaCodes!Idle EXCEPT !.row = row]
    OBVIOUS
  <2>5. w \in MfaCodes!Work /\ w.pc = "save" /\ w.row = row /\ w.login = None
    BY <2>3, <2>4, SavesRow
  <2>6. MfaCodes!Begins(r, w)
    BY <1>2, <2>1, <2>4 DEF MfaCodes!RemoveFactor
  <2> QED
    BY <2>2, <2>3, <2>5, <2>6, ReadsThe
<1>3. ASSUME NEW r \in Request, MfaCodes!RotateKey(r) PROVE ReadsRow(r)
  <2>1. enrollment \in MfaCodes!Row /\ MfaCodes!Base = enrollment
    BY <1>3, <1>b DEF MfaCodes!RotateKey
  <2>2. PICK row, w : row = enrollment /\ w = [MfaCodes!Idle EXCEPT !.row = row]
    OBVIOUS
  <2>3. w \in MfaCodes!Work /\ w.pc = "save" /\ w.row = row /\ w.login = None
    BY <2>1, <2>2, SavesRow
  <2>4. MfaCodes!Begins(r, w)
    BY <1>3, <2>2 DEF MfaCodes!RotateKey
  <2> QED
    BY <2>1, <2>2, <2>3, <2>4, ReadsThe
<1>4. ASSUME NEW r \in Request, MfaCodes!SetupPhone(r) PROVE ReadsRow(r)
  <2>1. PICK row, w : row = MfaCodes!Base /\ w = [MfaCodes!Idle EXCEPT !.pc = "claim", !.row = row]
    OBVIOUS
  <2>2. MfaCodes!Begins(r, w)
    BY <1>4, <2>1 DEF MfaCodes!SetupPhone
  <2>3. w \in MfaCodes!Work /\ w.pc = "claim" /\ w.row = row /\ w.login = None
    BY <1>b, <2>1, IdleWork DEF MfaCodes!Idle, MfaCodes!Work
  <2> QED
    BY <1>b, <2>1, <2>2, <2>3, ReadsThe
<1>5. ASSUME NEW r \in Request,
             \/ MfaCodes!SaveRow(r) \/ MfaCodes!SmsSent(r) \/ MfaCodes!RollbackPhone(r)
             \/ MfaCodes!CompletePhone(r) \/ MfaCodes!Promote(r)
      PROVE  GoesOn(r)
  BY <1>5, <1>e DEF MfaCodes!SaveRow, MfaCodes!SmsSent, MfaCodes!RollbackPhone,
     MfaCodes!CompletePhone, MfaCodes!Promote
<1>6. ASSUME NEW r \in Request, NEW c \in PhoneChallenge, MfaCodes!ClaimPhone(r, c)
      PROVE  GoesOn(r)
  <2>1. /\ mcWork[r] # None /\ mcWork[r].pc = "claim"
        /\ mcWork' = [mcWork EXCEPT ![r].pc = "sent", ![r].challenge = c]
    BY <1>6 DEF MfaCodes!ClaimPhone, MfaCodes!At
  <2>2. PICK w : w = [mcWork[r] EXCEPT !.pc = "sent", !.challenge = c]
    OBVIOUS
  <2>3. mcWork[r] \in MfaCodes!Work /\ WorksOn(mcWork[r])
    BY <2>1, CodeWork
  <2>4. w \in MfaCodes!Work /\ w.pc = "sent" /\ w.row = mcWork[r].row /\ w.login = mcWork[r].login
    BY <2>2, <2>3 DEF MfaCodes!Work
  <2>5. Changes(r, w)
    BY <2>1, <2>2 DEF Changes, MfaCodes!TypeOK
  <2>6. WorksOn(w) /\ HoldsRow(w) /\ HoldsRow(mcWork[r])
    BY <2>1, <2>3, <2>4 DEF WorksOn, HoldsRow
  <2> QED
    BY <2>1, <2>4, <2>5, <2>6 DEF GoesOn
<1>7. ASSUME NEW r \in Request, MfaCodes!ClaimAttempt(r) PROVE GoesOn(r)
  <2>1. mcWork[r] # None /\ mcWork[r].pc = "attempt"
    BY <1>7 DEF MfaCodes!ClaimAttempt, MfaCodes!At
  <2>2. CASE MfaCodes!Ends(r)
    BY <1>e, <2>2
  <2>3. CASE /\ MfaCodes!Claimed(mcWork[r].factor)
             /\ mcWork' = [mcWork EXCEPT ![r].pc = "code",
                                         ![r].attempt = mcAttempts'[mcWork[r].factor]]
    <3>1. mcWork[r] \in MfaCodes!Work /\ WorksOn(mcWork[r])
      BY <2>1, CodeWork
    <3>2. mcWork[r].login \in MfaCodes!Login /\ mcWork[r].factor \in MfaCodes!Factor
      BY <2>1, <3>1 DEF WorksOn, HoldsRow
    <3>3. mcAttempts'[mcWork[r].factor] \in 0 .. CodeMaxAttempts
      BY <2>3, <3>2, AccountsAssumption, CodesAssumption DEF MfaCodes!Claimed, MfaCodes!TypeOK
    <3>4. PICK n \in 0 .. CodeMaxAttempts : n = mcAttempts'[mcWork[r].factor]
      BY <3>3
    <3>5. PICK w : w = [mcWork[r] EXCEPT !.pc = "code", !.attempt = n]
      OBVIOUS
    <3>6. /\ w \in MfaCodes!Work /\ w.pc = "code" /\ w.row = mcWork[r].row
          /\ w.login = mcWork[r].login /\ w.factor = mcWork[r].factor
      BY <3>1, <3>5 DEF MfaCodes!Work
    <3>7. Changes(r, w)
      BY <2>3, <3>4, <3>5 DEF Changes, MfaCodes!TypeOK
    <3>8. WorksOn(w) /\ ~HoldsRow(w) /\ ~HoldsRow(mcWork[r])
      BY <2>1, <3>2, <3>6 DEF WorksOn, HoldsRow
    <3> QED
      BY <2>1, <3>6, <3>7, <3>8 DEF GoesOn
  <2> QED
    BY <1>7, <2>2, <2>3 DEF MfaCodes!ClaimAttempt
<1>8. ASSUME NEW r \in Request, MfaCodes!CompleteCode(r) PROVE GoesOn(r)
  <2>1. mcWork[r] # None /\ mcWork[r].pc = "code"
    BY <1>8 DEF MfaCodes!CompleteCode, MfaCodes!At
  <2>2. MfaCodes!On(r, "reset") \/ MfaCodes!Ends(r)
    BY <1>8 DEF MfaCodes!CompleteCode
  <2> QED
    BY <1>e, <2>1, <2>2, GoesOnTo DEF HoldsRow
<1>9. ASSUME NEW r \in Request, MfaCodes!ResetAttempts(r) PROVE GoesOn(r)
  <2>1. mcWork[r] # None /\ mcWork[r].pc = "reset" /\ MfaCodes!On(r, "promote")
    BY <1>9 DEF MfaCodes!ResetAttempts, MfaCodes!At
  <2> QED
    BY <2>1, GoesOnTo DEF HoldsRow
<1>10. ASSUME NEW r \in Request, NEW l \in MfaCodes!Login, NEW c \in MfaCodes!Code \cup {None},
              MfaCodes!EnterCode(r, l, c)
       PROVE  EntersCode(r, l)
  <2>1. PICK fits \in BOOLEAN, f \in MfaCodes!Factor :
            MfaCodes!Begins(r, [MfaCodes!Idle EXCEPT !.pc = "attempt", !.login = l, !.code = c,
                                                     !.fits = fits, !.factor = f])
    <3>1. PICK fits, f :
              /\ fits = IF c = None THEN enrollment.totp = "on" ELSE c \in enrollment.codes
              /\ f = IF c = None THEN "totp" ELSE "backup_codes"
      OBVIOUS
    <3>2. fits \in BOOLEAN
      <4>1. CASE c = None
        BY <3>1, <4>1
      <4>2. CASE c # None
        BY <3>1, <4>2
      <4> QED
        BY <4>1, <4>2
    <3>3. f \in MfaCodes!Factor
      BY <3>1 DEF MfaCodes!Factor
    <3> QED
      BY <1>10, <3>1, <3>2, <3>3 DEF MfaCodes!EnterCode
  <2>2. PICK w : w = [MfaCodes!Idle EXCEPT !.pc = "attempt", !.login = l, !.code = c,
                                           !.fits = fits, !.factor = f]
    OBVIOUS
  <2>3. w \in MfaCodes!Work /\ w.pc = "attempt" /\ w.login = l /\ w.factor = f
    BY <2>2, IdleWork DEF MfaCodes!Idle, MfaCodes!Work
  <2>4. WorksOn(w) /\ ~HoldsRow(w)
    BY <2>3 DEF WorksOn, HoldsRow
  <2>5. mcWork[r] = None /\ Changes(r, w)
    BY <2>1, <2>2 DEF MfaCodes!Begins, Changes
  <2> QED
    BY <1>10, <2>3, <2>4, <2>5 DEF MfaCodes!EnterCode, EntersCode
<1>11. ASSUME NEW r \in Request, MfaCodes!VerifyPhone(r) PROVE ReadsRow(r)
  <2>1. enrollment \in MfaCodes!Row /\ enrollment.challenge \in PhoneChallenge
    BY <1>11, <1>b DEF MfaCodes!VerifyPhone, MfaCodes!Row
  <2>2. PICK row : row = [enrollment EXCEPT !.phone = "on", !.codes = {}, !.challenge = None]
    OBVIOUS
  <2>3. row \in MfaCodes!Row /\ row.codes = {}
    BY <2>1, <2>2 DEF MfaCodes!Row
  <2>4. PICK w : w = [MfaCodes!Idle EXCEPT !.pc = "verify", !.challenge = enrollment.challenge,
                                           !.row = row]
    OBVIOUS
  <2>5. w \in MfaCodes!Work /\ w.pc = "verify" /\ w.row = row /\ w.login = None
    BY <2>1, <2>3, <2>4, IdleWork DEF MfaCodes!Idle, MfaCodes!Work
  <2>6. MfaCodes!Begins(r, w)
    BY <1>11, <2>2, <2>4 DEF MfaCodes!VerifyPhone
  <2> QED
    BY <2>3, <2>5, <2>6, ReadsThe
<1> QED
  BY <1>1, <1>2, <1>3, <1>4, <1>5, <1>6, <1>7, <1>8, <1>9, <1>10, <1>11 DEF MfaCodes!Next

\* What those steps do to the requests.
LEMMA RequestsKept ==
    ASSUME MfaCodes!TypeOK, AllWork,
           \/ UNCHANGED mcWork
           \/ \E r \in Request : GoesOn(r) \/ ReadsRow(r)
           \/ \E r \in Request, l \in MfaCodes!Login : EntersCode(r, l)
    PROVE  mcWork' \in [Request -> MfaCodes!Work \cup {None}] /\ AllWork'
<1>1. ASSUME NEW r \in Request, NEW w, Changes(r, w),
             w = None \/ (w \in MfaCodes!Work /\ WorksOn(w))
      PROVE  mcWork' \in [Request -> MfaCodes!Work \cup {None}] /\ AllWork'
  BY <1>1 DEF Changes, MfaCodes!TypeOK, AllWork
<1>2. CASE UNCHANGED mcWork
  BY <1>2 DEF MfaCodes!TypeOK, AllWork
<1>3. CASE \E r \in Request : GoesOn(r) \/ ReadsRow(r)
  BY <1>1, <1>3 DEF GoesOn, ReadsRow
<1>4. CASE \E r \in Request, l \in MfaCodes!Login : EntersCode(r, l)
  BY <1>1, <1>4 DEF EntersCode
<1> QED
  BY <1>2, <1>3, <1>4

\* Every step keeps the types and what requests work on.
LEMMA CodeTypesNext ==
    ASSUME MfaCodes!TypeOK, AllWork, [MfaCodes!Next]_mcVars
    PROVE  /\ promotions' \in [MfaCodes!Login -> Nat] /\ AllWork'
           /\ PromotionsBounded' => MfaCodes!TypeOK'
<1>w. mcWork' \in [Request -> MfaCodes!Work \cup {None}] /\ AllWork'
  BY CodeSteps, RequestsKept
<1>t. /\ mfaStore \in {"memory", "postgres"} /\ enrollment \in MfaCodes!Row \cup {None}
      /\ nextCode \in 1 .. MaxCode + 1 /\ nextLogin \in 1 .. MaxLogin + 1
      /\ mcParked \subseteq MfaCodes!Login
      /\ mcAttempts \in [MfaCodes!Factor -> 0 .. CodeMaxAttempts]
      /\ promotions \in [MfaCodes!Login -> Nat] /\ crossed \subseteq MfaCodes!Login
      /\ spent \subseteq MfaCodes!Code /\ mcOvertaken \in BOOLEAN
  BY DEF MfaCodes!TypeOK
<1>z. 0 \in 0 .. CodeMaxAttempts
  BY AccountsAssumption, CodesAssumption
<1>0. [f \in MfaCodes!Factor |-> 0] \in [MfaCodes!Factor -> 0 .. CodeMaxAttempts]
  BY <1>z
<1> DEFINE Fixed == UNCHANGED <<mfaStore, spent, mcOvertaken, crossed>>
           Logins == UNCHANGED <<mcParked, nextLogin, promotions>>
           Goal == /\ mfaStore' \in {"memory", "postgres"}
                   /\ enrollment' \in MfaCodes!Row \cup {None}
                   /\ nextCode' \in 1 .. MaxCode + 1 /\ nextLogin' \in 1 .. MaxLogin + 1
                   /\ mcParked' \subseteq MfaCodes!Login
                   /\ mcAttempts' \in [MfaCodes!Factor -> 0 .. CodeMaxAttempts]
                   /\ promotions' \in [MfaCodes!Login -> Nat] /\ crossed' \subseteq MfaCodes!Login
                   /\ spent' \subseteq MfaCodes!Code /\ mcOvertaken' \in BOOLEAN
<1>q. ASSUME Fixed, Logins, UNCHANGED nextCode, enrollment' \in MfaCodes!Row \cup {None},
             mcAttempts' \in [MfaCodes!Factor -> 0 .. CodeMaxAttempts]
      PROVE  Goal
  BY <1>t, <1>q
<1>b. MfaCodes!Base \in MfaCodes!Row
  BY BaseRow
<1>1. ASSUME MfaCodes!SetupTotp PROVE Goal
  <2>1. enrollment' \in MfaCodes!Row
    BY <1>1, <1>b DEF MfaCodes!SetupTotp, MfaCodes!Row
  <2> QED
    BY <1>1, <1>q, <1>t, <2>1 DEF MfaCodes!SetupTotp, MfaCodes!logins, MfaCodes!histories
<1>2. ASSUME MfaCodes!ConfirmTotp PROVE Goal
  <2>0. enrollment \in MfaCodes!Row
    BY <1>2, <1>t DEF MfaCodes!ConfirmTotp
  <2>1. CASE enrollment' = [enrollment EXCEPT !.totp = "on"] /\ UNCHANGED nextCode
    <3>1. enrollment' \in MfaCodes!Row
      BY <2>0, <2>1 DEF MfaCodes!Row
    <3> QED
      BY <1>2, <1>q, <1>t, <2>1, <3>1 DEF MfaCodes!ConfirmTotp, MfaCodes!logins, MfaCodes!histories
  <2>2. CASE /\ nextCode' = nextCode + BackupCodeCount /\ nextCode' <= MaxCode + 1
             /\ enrollment' = [enrollment EXCEPT !.totp = "on", !.codes = nextCode .. nextCode' - 1]
    <3>1. nextCode' \in 1 .. MaxCode + 1
      BY <1>t, <2>2, AccountsAssumption, CodesAssumption
    <3>2. PICK m, n : m = nextCode /\ n = nextCode'
      OBVIOUS
    <3>3. m .. n - 1 \subseteq MfaCodes!Code
      <4>1. m \in 1 .. MaxCode + 1 /\ n \in 1 .. MaxCode + 1
        BY <1>t, <3>1, <3>2
      <4> QED
        BY <4>1, AccountsAssumption, CodesAssumption DEF MfaCodes!Code
    <3>4. enrollment' \in MfaCodes!Row
      BY <2>0, <2>2, <3>2, <3>3 DEF MfaCodes!Row
    <3> QED
      BY <1>2, <1>t, <3>1, <3>4 DEF MfaCodes!ConfirmTotp, MfaCodes!logins, MfaCodes!histories
  <2> QED
    BY <1>2, <2>1, <2>2 DEF MfaCodes!ConfirmTotp
<1>3. ASSUME MfaCodes!RemoveAll PROVE Goal
  BY <1>3, <1>q, <1>0 DEF MfaCodes!RemoveAll, MfaCodes!Removed, MfaCodes!logins, MfaCodes!histories
<1>4. ASSUME NEW r \in Request, NEW f \in {"totp", "phone"}, MfaCodes!RemoveFactor(r, f) PROVE Goal
  BY <1>4, <1>q, <1>t DEF MfaCodes!RemoveFactor, MfaCodes!logins, MfaCodes!histories
<1>5. ASSUME NEW r \in Request, MfaCodes!RotateKey(r) PROVE Goal
  BY <1>5, <1>q, <1>t DEF MfaCodes!RotateKey, MfaCodes!logins, MfaCodes!histories
<1>6. ASSUME NEW r \in Request, MfaCodes!SaveRow(r) PROVE Goal
  <2>1. mcWork[r].row \in MfaCodes!Row
    BY <1>6, CodeWork DEF MfaCodes!SaveRow, MfaCodes!At, WorksOn, HoldsRow
  <2> QED
    BY <1>6, <1>q, <1>t, <1>0, <2>1 DEF MfaCodes!SaveRow, MfaCodes!Removed, MfaCodes!logins,
       MfaCodes!histories
<1>7. ASSUME NEW r \in Request, MfaCodes!SetupPhone(r) PROVE Goal
  BY <1>7, <1>q, <1>t DEF MfaCodes!SetupPhone, MfaCodes!logins, MfaCodes!histories
<1>8. ASSUME NEW r \in Request, NEW c \in PhoneChallenge, MfaCodes!ClaimPhone(r, c) PROVE Goal
  <2>1. mcWork[r].row \in MfaCodes!Row
    BY <1>8, CodeWork DEF MfaCodes!ClaimPhone, MfaCodes!At, WorksOn, HoldsRow
  <2>2. enrollment' \in MfaCodes!Row
    BY <1>8, <1>t, <2>1 DEF MfaCodes!ClaimPhone, MfaCodes!Row
  <2> QED
    BY <1>8, <1>q, <1>t, <2>2 DEF MfaCodes!ClaimPhone, MfaCodes!logins, MfaCodes!histories
<1>9. ASSUME NEW r \in Request, MfaCodes!SmsSent(r) PROVE Goal
  BY <1>9, <1>q, <1>t DEF MfaCodes!SmsSent, MfaCodes!logins, MfaCodes!histories
<1>10. ASSUME NEW r \in Request, MfaCodes!RollbackPhone(r) PROVE Goal
  <2>1. mcWork[r].row \in MfaCodes!Row
    BY <1>10, CodeWork DEF MfaCodes!RollbackPhone, MfaCodes!At, WorksOn, HoldsRow
  <2> QED
    BY <1>10, <1>q, <1>t, <1>0, <2>1 DEF MfaCodes!RollbackPhone, MfaCodes!logins,
       MfaCodes!histories
<1>11. ASSUME NEW r \in Request, MfaCodes!VerifyPhone(r) PROVE Goal
  BY <1>11, <1>q, <1>t DEF MfaCodes!VerifyPhone, MfaCodes!logins, MfaCodes!histories
<1>21. ASSUME NEW r \in Request, MfaCodes!CompletePhone(r) PROVE Goal
  <2>1. mcWork[r].row \in MfaCodes!Row
    BY <1>21, CodeWork DEF MfaCodes!CompletePhone, MfaCodes!At, WorksOn, HoldsRow
  <2>2. mcWork[r].row.totp \in {"none", "pending", "on"}
    BY <2>1 DEF MfaCodes!Row
  <2>3. enrollment' \in MfaCodes!Row \cup {None}
    BY <1>21, <1>t, <2>2 DEF MfaCodes!CompletePhone, MfaCodes!Current, MfaCodes!Row
  <2> QED
    BY <1>21, <1>q, <1>t, <2>3 DEF MfaCodes!CompletePhone, MfaCodes!logins, MfaCodes!histories
<1>12. ASSUME MfaCodes!Park PROVE Goal
  <2>1. nextLogin' \in 1 .. MaxLogin + 1 /\ mcParked' \subseteq MfaCodes!Login
    BY <1>12, <1>t, AccountsAssumption, CodesAssumption DEF MfaCodes!Park, MfaCodes!Login
  <2> QED
    BY <1>12, <1>t, <2>1 DEF MfaCodes!Park, MfaCodes!histories
<1>13. ASSUME NEW l \in MfaCodes!Login, MfaCodes!PendingExpires(l) PROVE Goal
  BY <1>13, <1>t DEF MfaCodes!PendingExpires, MfaCodes!histories
<1>14. ASSUME NEW r \in Request, NEW l \in MfaCodes!Login, NEW c, MfaCodes!EnterCode(r, l, c)
       PROVE  Goal
  BY <1>14, <1>t DEF MfaCodes!EnterCode, MfaCodes!logins
<1>15. ASSUME NEW r \in Request, MfaCodes!ClaimAttempt(r) PROVE Goal
  <2>1. mcWork[r].factor \in MfaCodes!Factor
    BY <1>15, CodeWork DEF MfaCodes!ClaimAttempt, MfaCodes!At, WorksOn, HoldsRow
  <2>2. PICK f \in MfaCodes!Factor : f = mcWork[r].factor
    BY <2>1
  <2>3. CASE MfaCodes!Claimed(f)
    <3>1. mcAttempts[f] + 1 \in 0 .. CodeMaxAttempts
      BY <1>t, <2>3, AccountsAssumption, CodesAssumption DEF MfaCodes!Claimed
    <3>2. mcAttempts' \in [MfaCodes!Factor -> 0 .. CodeMaxAttempts]
      BY <1>t, <2>3, <3>1 DEF MfaCodes!Claimed
    <3> QED
      BY <1>15, <1>q, <1>t, <3>2 DEF MfaCodes!ClaimAttempt, MfaCodes!logins, MfaCodes!histories
  <2>4. CASE UNCHANGED mcAttempts
    BY <1>15, <1>q, <1>t, <2>4 DEF MfaCodes!ClaimAttempt, MfaCodes!logins, MfaCodes!histories
  <2> QED
    BY <1>15, <2>2, <2>3, <2>4 DEF MfaCodes!ClaimAttempt
<1>16. ASSUME NEW f \in MfaCodes!Factor, MfaCodes!AttemptWindowEnds(f) PROVE Goal
  <2>1. mcAttempts' \in [MfaCodes!Factor -> 0 .. CodeMaxAttempts]
    BY <1>16, <1>t, <1>z DEF MfaCodes!AttemptWindowEnds
  <2> QED
    BY <1>16, <1>q, <1>t, <2>1 DEF MfaCodes!AttemptWindowEnds, MfaCodes!logins, MfaCodes!histories
<1>17. ASSUME NEW r \in Request, MfaCodes!CompleteCode(r) PROVE Goal
  <2>1. PICK c : c = mcWork[r].code
    OBVIOUS
  <2>2. c \in MfaCodes!Code \cup {None}
    BY <1>17, <2>1, CodeWork DEF MfaCodes!CompleteCode, MfaCodes!At, MfaCodes!Work
  <2>3. enrollment' \in MfaCodes!Row \cup {None}
    BY <1>17, <1>t, <2>1 DEF MfaCodes!CompleteCode, MfaCodes!WithoutCode, MfaCodes!Row
  <2>4. spent' \subseteq MfaCodes!Code /\ mcOvertaken' \in BOOLEAN
    BY <1>17, <1>t, <2>1, <2>2 DEF MfaCodes!CompleteCode
  <2> QED
    BY <1>17, <1>t, <2>3, <2>4 DEF MfaCodes!CompleteCode, MfaCodes!logins
<1>18. ASSUME NEW r \in Request, MfaCodes!ResetAttempts(r) PROVE Goal
  <2>1. PICK f : f = mcWork[r].factor
    OBVIOUS
  <2>2. mcAttempts' = [mcAttempts EXCEPT ![f] = 0] \/ UNCHANGED mcAttempts
    BY <1>18, <2>1 DEF MfaCodes!ResetAttempts
  <2>3. mcAttempts' \in [MfaCodes!Factor -> 0 .. CodeMaxAttempts]
    BY <1>t, <1>z, <2>2
  <2> QED
    BY <1>18, <1>q, <1>t, <2>3 DEF MfaCodes!ResetAttempts, MfaCodes!logins, MfaCodes!histories
<1>19. ASSUME NEW r \in Request, MfaCodes!Promote(r) PROVE Goal
  <2>1. PICK l \in MfaCodes!Login : l = mcWork[r].login
    BY <1>19, CodeWork DEF MfaCodes!Promote, MfaCodes!At, WorksOn, HoldsRow
  <2>2. promotions' = [promotions EXCEPT ![l] = @ + 1] /\ mcParked' = mcParked \ {l}
    BY <1>19, <2>1 DEF MfaCodes!Promote, MfaCodes!Unparked
  <2>3. promotions' \in [MfaCodes!Login -> Nat] /\ mcParked' \subseteq MfaCodes!Login
    BY <1>t, <2>2
  <2> QED
    BY <1>19, <1>t, <2>3 DEF MfaCodes!Promote, MfaCodes!histories
<1>20. ASSUME UNCHANGED mcVars PROVE Goal
  BY <1>20, <1>q, <1>t DEF mcVars
<1>22. Goal
  BY <1>1, <1>2, <1>3, <1>4, <1>5, <1>6, <1>7, <1>8, <1>9, <1>10, <1>11, <1>12, <1>13, <1>14,
     <1>15, <1>16, <1>17, <1>18, <1>19, <1>20, <1>21 DEF MfaCodes!Next
<1> QED
  BY <1>w, <1>22 DEF MfaCodes!TypeOK, PromotionsBounded

\* A step that spends no code keeps the codes fine.
LEMMA CodesStay ==
    ASSUME CodesFine, MfaCodes!TypeOK, UNCHANGED <<spent, mcOvertaken, nextCode>>,
           \/ UNCHANGED mcWork
           \/ \E r \in Request : GoesOn(r) \/ ReadsRow(r)
           \/ \E r \in Request, l \in MfaCodes!Login : EntersCode(r, l),
           enrollment' = None \/ Fine(enrollment'.codes)
    PROVE  CodesFine'
<1>b. Fine(MfaCodes!Base.codes)
  BY DEF CodesFine, Fine, MfaCodes!Base, MfaCodes!Blank
<1>1. ASSUME NEW q \in Request, mcWork'[q] # None, HoldsRow(mcWork'[q])
      PROVE  Fine(mcWork'[q].row.codes)
  <2>1. ASSUME NEW r \in Request, NEW w, Changes(r, w)
        PROVE  IF q = r THEN mcWork'[q] = w ELSE mcWork'[q] = mcWork[q]
    BY <2>1 DEF Changes, MfaCodes!TypeOK
  <2>2. ASSUME mcWork'[q] = mcWork[q] PROVE Fine(mcWork'[q].row.codes)
    BY <1>1, <2>2 DEF CodesFine
  <2>3. CASE \E r \in Request : GoesOn(r)
    BY <1>1, <2>1, <2>2, <2>3 DEF GoesOn, CodesFine
  <2>4. CASE \E r \in Request : ReadsRow(r)
    <3>1. PICK r \in Request, w \in MfaCodes!Work :
              Changes(r, w) /\ w.row.codes \subseteq MfaCodes!Base.codes
      BY <2>4 DEF ReadsRow
    <3>2. Fine(w.row.codes)
      BY <1>b, <3>1 DEF Fine
    <3> QED
      BY <2>1, <2>2, <3>1, <3>2
  <2>5. CASE \E r \in Request, l \in MfaCodes!Login : EntersCode(r, l)
    BY <1>1, <2>1, <2>2, <2>5 DEF EntersCode
  <2> QED
    BY <2>2, <2>3, <2>4, <2>5
<1>2. \A c \in spent' : c < nextCode'
  BY DEF CodesFine
<1>3. enrollment' # None => Fine(enrollment.codes)'
  BY DEF Fine
<1>4. ASSUME NEW q \in Request PROVE (mcWork[q] # None /\ HoldsRow(mcWork[q]) => Fine(mcWork[q].row.codes))'
  BY <1>1 DEF Fine, HoldsRow
<1> QED
  BY <1>2, <1>3, <1>4 DEF CodesFine

\* Every step keeps the codes fine: a new one was never spent, and one that is spent leaves the
\* enrollment.
LEMMA CodesFineNext ==
    ASSUME MfaCodes!TypeOK, AllWork, CodesFine, [MfaCodes!Next]_mcVars
    PROVE  CodesFine'
<1>s. \/ UNCHANGED mcWork
      \/ \E r \in Request : GoesOn(r) \/ ReadsRow(r)
      \/ \E r \in Request, l \in MfaCodes!Login : EntersCode(r, l)
  BY CodeSteps
<1>b. enrollment # None => Fine(enrollment.codes)
  BY DEF CodesFine
<1>n. /\ nextCode \in Nat /\ enrollment \in MfaCodes!Row \cup {None}
      /\ \A r \in Request : mcWork[r] # None /\ HoldsRow(mcWork[r]) =>
            mcWork[r].row \in MfaCodes!Row /\ Fine(mcWork[r].row.codes)
  BY AccountsAssumption, CodesAssumption DEF MfaCodes!TypeOK, AllWork, CodesFine, WorksOn
<1>k. ASSUME UNCHANGED <<spent, mcOvertaken, nextCode>>, enrollment' = None \/ Fine(enrollment'.codes)
      PROVE  CodesFine'
  BY <1>k, <1>s, CodesStay
<1>1. ASSUME MfaCodes!SetupTotp PROVE CodesFine'
  <2>1. enrollment'.codes = MfaCodes!Base.codes
    BY <1>1, BaseRow DEF MfaCodes!SetupTotp, MfaCodes!Row
  <2>2. Fine(MfaCodes!Base.codes)
    BY <1>b DEF Fine, MfaCodes!Base, MfaCodes!Blank
  <2> QED
    BY <1>1, <1>k, <2>1, <2>2 DEF MfaCodes!SetupTotp, MfaCodes!histories
<1>2. ASSUME MfaCodes!ConfirmTotp PROVE CodesFine'
  <2>0. enrollment \in MfaCodes!Row /\ Fine(enrollment.codes) /\ UNCHANGED <<spent, mcOvertaken>>
        /\ UNCHANGED mcWork
    BY <1>2, <1>b, <1>n DEF MfaCodes!ConfirmTotp, MfaCodes!histories
  <2>1. CASE enrollment' = [enrollment EXCEPT !.totp = "on"] /\ UNCHANGED nextCode
    <3>1. enrollment'.codes = enrollment.codes
      BY <2>0, <2>1 DEF MfaCodes!Row
    <3> QED
      BY <1>k, <2>0, <2>1, <3>1
  <2>2. CASE /\ nextCode' = nextCode + BackupCodeCount
             /\ enrollment' = [enrollment EXCEPT !.totp = "on", !.codes = nextCode .. nextCode' - 1]
    <3>1. PICK m, n, codes : m = nextCode /\ n = nextCode' /\ codes = m .. n - 1
      OBVIOUS
    <3>2. n \in Nat /\ m \in Nat /\ nextCode <= n
      BY <1>n, <2>2, <3>1, AccountsAssumption, CodesAssumption
    <3>3. enrollment'.codes = codes
      BY <2>0, <2>2, <3>1 DEF MfaCodes!Row
    <3>s. spent \subseteq Nat
      BY AccountsAssumption, CodesAssumption DEF MfaCodes!TypeOK, MfaCodes!Code
    <3>4. (\A c \in codes : c < n) /\ \A c \in codes : ~(c < nextCode)
      <4>1. ASSUME NEW c \in m .. n - 1 PROVE c < n /\ ~(c < m)
        BY <3>2, <4>1
      <4> QED
        BY <3>1, <4>1
    <3>5. (\A c \in spent : c < nextCode) /\ (\A c \in spent : c < n)
      BY <1>n, <3>2, <3>s DEF CodesFine
    <3>6. codes \cap spent = {}
      BY <3>4, <3>5
    <3>7. ASSUME NEW r \in Request, mcWork[r] # None, HoldsRow(mcWork[r])
          PROVE  /\ \A c \in mcWork[r].row.codes : c < n
                 /\ mcWork[r].row.codes \cap spent # {} => mcOvertaken
      <4>1. Fine(mcWork[r].row.codes) /\ mcWork[r].row.codes \subseteq Nat
        BY <1>n, <3>7, AccountsAssumption, CodesAssumption DEF MfaCodes!Row, MfaCodes!Code
      <4> QED
        BY <1>n, <3>2, <4>1 DEF Fine
    <3>8. enrollment' # None => Fine(enrollment.codes)'
      BY <3>1, <3>3, <3>4, <3>6, <2>0 DEF Fine
    <3>9. \A r \in Request :
              (mcWork[r] # None /\ HoldsRow(mcWork[r]) => Fine(mcWork[r].row.codes))'
      BY <2>0, <3>1, <3>7 DEF Fine, HoldsRow
    <3>10. \A c \in spent' : c < nextCode'
      BY <2>0, <3>1, <3>5
    <3> QED
      BY <3>8, <3>9, <3>10 DEF CodesFine
  <2> QED
    BY <1>2, <2>1, <2>2 DEF MfaCodes!ConfirmTotp
<1>3. ASSUME MfaCodes!RemoveAll PROVE CodesFine'
  BY <1>3, <1>k DEF MfaCodes!RemoveAll, MfaCodes!Removed, MfaCodes!histories
<1>4. ASSUME NEW r \in Request,
             \/ MfaCodes!RemoveFactor(r, "totp") \/ MfaCodes!RemoveFactor(r, "phone")
             \/ MfaCodes!RotateKey(r) \/ MfaCodes!SetupPhone(r) \/ MfaCodes!SmsSent(r)
             \/ MfaCodes!VerifyPhone(r) \/ MfaCodes!ClaimAttempt(r) \/ MfaCodes!ResetAttempts(r)
             \/ MfaCodes!Promote(r)
      PROVE  CodesFine'
  BY <1>4, <1>k, <1>b DEF MfaCodes!RemoveFactor, MfaCodes!RotateKey, MfaCodes!SetupPhone,
     MfaCodes!SmsSent, MfaCodes!VerifyPhone, MfaCodes!ClaimAttempt, MfaCodes!ResetAttempts,
     MfaCodes!Promote, MfaCodes!histories
<1>5. ASSUME NEW r \in Request, MfaCodes!SaveRow(r) PROVE CodesFine'
  <2>1. Fine(mcWork[r].row.codes)
    BY <1>5, <1>n DEF MfaCodes!SaveRow, MfaCodes!At, HoldsRow
  <2> QED
    BY <1>5, <1>k, <2>1 DEF MfaCodes!SaveRow, MfaCodes!Removed, MfaCodes!histories
<1>6. ASSUME NEW r \in Request, NEW c \in PhoneChallenge, MfaCodes!ClaimPhone(r, c)
      PROVE  CodesFine'
  <2>1. Fine(mcWork[r].row.codes)
    BY <1>6, <1>n DEF MfaCodes!ClaimPhone, MfaCodes!At, HoldsRow
  <2>2. enrollment'.codes = mcWork[r].row.codes
        \/ (enrollment # None /\ enrollment'.codes = enrollment.codes)
    BY <1>6 DEF MfaCodes!ClaimPhone
  <2> QED
    BY <1>6, <1>k, <1>b, <2>1, <2>2 DEF MfaCodes!ClaimPhone, MfaCodes!histories
<1>7. ASSUME NEW r \in Request, MfaCodes!RollbackPhone(r) PROVE CodesFine'
  <2>1. Fine(mcWork[r].row.codes)
    BY <1>7, <1>n DEF MfaCodes!RollbackPhone, MfaCodes!At, HoldsRow
  <2> QED
    BY <1>7, <1>k, <1>b, <2>1 DEF MfaCodes!RollbackPhone, MfaCodes!histories
<1>8. ASSUME NEW r \in Request, MfaCodes!CompletePhone(r) PROVE CodesFine'
  <2>1. enrollment' = None \/ (enrollment # None /\ enrollment'.codes = enrollment.codes)
    BY <1>8, <1>n DEF MfaCodes!CompletePhone, MfaCodes!Current, MfaCodes!Row
  <2> QED
    BY <1>8, <1>k, <1>b, <2>1 DEF MfaCodes!CompletePhone, MfaCodes!histories
<1>9. ASSUME \/ MfaCodes!Park \/ \E l \in MfaCodes!Login : MfaCodes!PendingExpires(l)
             \/ \E f \in MfaCodes!Factor : MfaCodes!AttemptWindowEnds(f)
             \/ \E r \in Request, l \in MfaCodes!Login, c \in MfaCodes!Code \cup {None} :
                    MfaCodes!EnterCode(r, l, c)
             \/ UNCHANGED mcVars
      PROVE  CodesFine'
  BY <1>9, <1>k, <1>b DEF MfaCodes!Park, MfaCodes!PendingExpires, MfaCodes!AttemptWindowEnds,
     MfaCodes!EnterCode, MfaCodes!histories, mcVars
<1>10. ASSUME NEW r \in Request, MfaCodes!CompleteCode(r) PROVE CodesFine'
  <2>1. PICK c : c = mcWork[r].code
    OBVIOUS
  <2>2. CASE ~(enrollment # None /\ (c # None => c \in enrollment.codes))
    BY <1>10, <1>k, <1>b, <2>1, <2>2 DEF MfaCodes!CompleteCode
  <2>3. CASE enrollment # None /\ c = None
    <3>1. UNCHANGED <<enrollment, spent, mcOvertaken, nextCode>>
      BY <1>10, <2>1, <2>3 DEF MfaCodes!CompleteCode, MfaCodes!TypeOK
    <3> QED
      BY <1>k, <1>b, <3>1
  <2>4. CASE enrollment # None /\ c # None /\ c \in enrollment.codes
    <3>1. /\ enrollment' = [enrollment EXCEPT !.codes = @ \ {c}] /\ spent' = spent \cup {c}
          /\ mcOvertaken' = (mcOvertaken \/ \E q \in Request \ {r} :
                               mcWork[q] # None /\ mcWork[q].pc \in {"save", "claim", "sent"})
          /\ MfaCodes!On(r, "reset") /\ UNCHANGED nextCode
      BY <1>10, <2>1, <2>4 DEF MfaCodes!CompleteCode, MfaCodes!WithoutCode
    <3>2. enrollment'.codes = enrollment.codes \ {c} /\ Fine(enrollment.codes)
      BY <1>b, <1>n, <2>4, <3>1 DEF MfaCodes!Row
    <3>3. enrollment' # None => Fine(enrollment.codes)'
      BY <3>1, <3>2 DEF Fine
    <3>4. \A d \in spent' : d < nextCode'
      BY <2>4, <3>1, <3>2 DEF CodesFine, Fine
    <3>5. ~HoldsRow(mcWork'[r]) /\ \A q \in Request \ {r} : mcWork'[q] = mcWork[q]
      <4>1. PICK w : w = [mcWork[r] EXCEPT !.pc = "reset"]
        OBVIOUS
      <4>2. w.pc = "reset"
        BY <1>10, <4>1, CodeWork DEF MfaCodes!CompleteCode, MfaCodes!At, MfaCodes!Work
      <4>3. mcWork'[r] = w /\ \A q \in Request \ {r} : mcWork'[q] = mcWork[q]
        BY <3>1, <4>1 DEF MfaCodes!On, MfaCodes!TypeOK
      <4> QED
        BY <4>2, <4>3 DEF HoldsRow
    <3>6. ASSUME NEW q \in Request, mcWork'[q] # None, HoldsRow(mcWork'[q])
          PROVE  Fine(mcWork[q].row.codes)'
      <4>1. q # r /\ mcWork'[q] = mcWork[q]
        BY <3>5, <3>6
      <4>2. Fine(mcWork[q].row.codes)
        BY <1>n, <3>6, <4>1
      <4>3. CASE mcWork[q].pc = "verify"
        <5>1. mcWork[q].row.codes = {}
          BY <3>6, <4>1, <4>3 DEF AllWork, WorksOn, HoldsRow
        <5> QED
          BY <4>1, <5>1 DEF Fine
      <4>4. CASE mcWork[q].pc # "verify"
        <5>1. mcOvertaken'
          BY <3>1, <3>6, <4>1, <4>4 DEF HoldsRow
        <5> QED
          BY <3>1, <4>1, <4>2, <5>1 DEF Fine
      <4> QED
        BY <4>3, <4>4
    <3>7. \A q \in Request : (mcWork[q] # None /\ HoldsRow(mcWork[q]) => Fine(mcWork[q].row.codes))'
      BY <3>6 DEF Fine, HoldsRow
    <3> QED
      BY <3>3, <3>4, <3>7 DEF CodesFine
  <2> QED
    BY <2>2, <2>3, <2>4
<1> QED
  BY <1>1, <1>2, <1>3, <1>4, <1>5, <1>6, <1>7, <1>8, <1>9, <1>10 DEF MfaCodes!Next

\* The requests that work on a login are finitely many.
LEMMA WorkingKnown ==
    ASSUME MfaCodes!TypeOK, NEW l \in MfaCodes!Login
    PROVE  /\ IsFiniteSet(Working(l)) /\ Cardinality(Working(l)) \in Nat
           /\ Cardinality(Request) \in Nat /\ promotions[l] \in Nat /\ l # None
<1>1. /\ IsFiniteSet(Working(l)) /\ Cardinality(Working(l)) \in Nat
      /\ Cardinality(Request) \in Nat
  BY AccountsAssumption, CodesAssumption, FS_Subset, FS_CardinalityType DEF Working
<1>2. promotions[l] \in Nat
  BY DEF MfaCodes!TypeOK
<1>3. l # None
  BY AccountsAssumption, CodesAssumption DEF MfaCodes!Login
<1> QED
  BY <1>1, <1>2, <1>3

\* A request less works on a login.
LEMMA WorkingFewer ==
    ASSUME MfaCodes!TypeOK, NEW l \in MfaCodes!Login, Working(l)' \subseteq Working(l)
    PROVE  /\ Cardinality(Working(l)') <= Cardinality(Working(l))
           /\ Cardinality(Working(l)') \in Nat
<1>1. PICK S : S = Working(l)'
  OBVIOUS
<1>2. IsFiniteSet(Working(l)) /\ S \subseteq Working(l)
  BY <1>1, WorkingKnown
<1> QED
  BY <1>1, <1>2, FS_Subset, FS_CardinalityType

\* Only a request that enters a code begins to work on a login.
LEMMA WorkingLess ==
    ASSUME MfaCodes!TypeOK, AllWork, NEW l \in MfaCodes!Login,
           UNCHANGED mcWork \/ \E r \in Request : GoesOn(r) \/ ReadsRow(r)
    PROVE  Working(l)' \subseteq Working(l)
<1>1. ASSUME NEW r \in Request, NEW w, Changes(r, w)
      PROVE  mcWork'[r] = w /\ \A q \in Request \ {r} : mcWork'[q] = mcWork[q]
  BY <1>1 DEF Changes, MfaCodes!TypeOK
<1>2. l # None
  BY WorkingKnown
<1>3. CASE UNCHANGED mcWork
  BY <1>3 DEF Working
<1>4. CASE \E r \in Request : GoesOn(r)
  BY <1>1, <1>4 DEF GoesOn, Working
<1>5. CASE \E r \in Request : ReadsRow(r)
  BY <1>1, <1>2, <1>5 DEF ReadsRow, WorksOn, Working
<1> QED
  BY <1>3, <1>4, <1>5

\* A step that promotes nobody.
LEMMA LoginsStay ==
    ASSUME MfaCodes!TypeOK, AllWork, LoginsCounted, PromotedAlone,
           UNCHANGED mcWork \/ \E r \in Request : GoesOn(r) \/ ReadsRow(r),
           UNCHANGED promotions, crossed \subseteq crossed', nextLogin' \in {nextLogin, nextLogin + 1},
           \A l \in mcParked' : l \in mcParked \/ (l = nextLogin /\ nextLogin' = nextLogin + 1)
    PROVE  LoginsCounted' /\ PromotedAlone'
<1>n. nextLogin \in Nat /\ MfaCodes!Login \subseteq Nat
  BY AccountsAssumption, CodesAssumption DEF MfaCodes!TypeOK, MfaCodes!Login
<1>1. ASSUME NEW l \in MfaCodes!Login
      PROVE  /\ promotions'[l] + Cardinality(Working(l)') <= Cardinality(Request) + 1
             /\ l >= nextLogin' => l \notin mcParked' /\ Working(l)' = {}
             /\ l >= nextLogin' \/ l \in mcParked' => promotions'[l] = 0
  <2>1. Working(l)' \subseteq Working(l)
    BY WorkingLess
  <2>2. /\ Cardinality(Working(l)') <= Cardinality(Working(l))
        /\ Cardinality(Working(l)') \in Nat /\ Cardinality(Working(l)) \in Nat
        /\ Cardinality(Request) \in Nat /\ promotions[l] \in Nat
    BY <2>1, WorkingFewer, WorkingKnown
  <2>3. promotions'[l] + Cardinality(Working(l)') <= Cardinality(Request) + 1
    BY <2>2 DEF LoginsCounted
  <2>4. l >= nextLogin' => l >= nextLogin /\ (l = nextLogin => nextLogin' = nextLogin)
    BY <1>n
  <2>5. l >= nextLogin' => l \notin mcParked' /\ Working(l)' = {} /\ promotions'[l] = 0
    BY <1>n, <2>1, <2>4 DEF LoginsCounted
  <2>6. l \in mcParked' => promotions'[l] = 0
    BY <1>n DEF LoginsCounted
  <2> QED
    BY <2>3, <2>5, <2>6
<1>2. ASSUME NEW l \in MfaCodes!Login, l \notin crossed'
      PROVE  /\ promotions'[l] <= 1 /\ (promotions'[l] = 1 => Working(l)' = {})
             /\ \A q, r \in Working(l)' : q = r
  BY <1>2, WorkingLess DEF PromotedAlone
<1> QED
  BY <1>1, <1>2 DEF LoginsCounted, PromotedAlone, MfaCodes!Login

\* A request that enters a code for a parked login is one more that works on it.
LEMMA LoginEntered ==
    ASSUME MfaCodes!TypeOK, AllWork, LoginsCounted, PromotedAlone,
           NEW r \in Request, NEW x \in MfaCodes!Login, EntersCode(r, x),
           UNCHANGED <<promotions, mcParked, nextLogin>>
    PROVE  LoginsCounted' /\ PromotedAlone'
<1>n. nextLogin \in Nat /\ MfaCodes!Login \subseteq Nat
  BY AccountsAssumption, CodesAssumption DEF MfaCodes!TypeOK, MfaCodes!Login
<1>w. PICK w : w.login = x /\ Changes(r, w)
  BY DEF EntersCode
<1>p. /\ mcWork[r] = None /\ mcWork'[r] = w
      /\ \A q \in Request \ {r} : mcWork'[q] = mcWork[q]
  BY <1>w DEF EntersCode, Changes, MfaCodes!TypeOK
<1>x. x \in mcParked /\ promotions[x] = 0 /\ ~(x >= nextLogin)
  BY DEF EntersCode, LoginsCounted
<1>d. \A l \in MfaCodes!Login :
          Working(l)' \subseteq (IF l = x THEN Working(l) \cup {r} ELSE Working(l))
  BY <1>p, <1>w DEF Working
<1>1. ASSUME NEW l \in MfaCodes!Login
      PROVE  /\ promotions'[l] + Cardinality(Working(l)') <= Cardinality(Request) + 1
             /\ l >= nextLogin' => l \notin mcParked' /\ Working(l)' = {}
             /\ l >= nextLogin' \/ l \in mcParked' => promotions'[l] = 0
  <2>1. CASE l = x
    <3>1. /\ Cardinality(Working(l)') <= Cardinality(Request)
          /\ Cardinality(Working(l)') \in Nat /\ Cardinality(Request) \in Nat
      <4>1. PICK S : S = Working(l)'
        OBVIOUS
      <4>2. S \subseteq Request
        BY <4>1 DEF Working
      <4> QED
        BY <4>1, <4>2, AccountsAssumption, CodesAssumption, FS_Subset, FS_CardinalityType
    <3>2. promotions'[l] + Cardinality(Working(l)') <= Cardinality(Request) + 1
      BY <1>x, <2>1, <3>1
    <3> QED
      BY <1>x, <2>1, <3>2
  <2>2. CASE l # x
    <3>1. Working(l)' \subseteq Working(l)
      BY <1>d, <2>2
    <3>2. /\ Cardinality(Working(l)') <= Cardinality(Working(l))
          /\ Cardinality(Working(l)') \in Nat /\ Cardinality(Working(l)) \in Nat
          /\ Cardinality(Request) \in Nat /\ promotions[l] \in Nat
      BY <3>1, WorkingFewer, WorkingKnown
    <3>3. promotions'[l] + Cardinality(Working(l)') <= Cardinality(Request) + 1
      BY <3>2 DEF LoginsCounted
    <3> QED
      BY <3>1, <3>3 DEF LoginsCounted
  <2> QED
    BY <2>1, <2>2
<1>2. ASSUME NEW l \in MfaCodes!Login, l \notin crossed'
      PROVE  /\ promotions'[l] <= 1 /\ (promotions'[l] = 1 => Working(l)' = {})
             /\ \A q, s \in Working(l)' : q = s
  <2>1. CASE l = x
    <3>1. Working(l) = {}
      BY <1>2, <2>1 DEF EntersCode, Working
    <3> QED
      BY <1>d, <1>x, <2>1, <3>1
  <2>2. CASE l # x
    <3>1. Working(l)' \subseteq Working(l)
      BY <1>d, <2>2
    <3>2. l \notin crossed
      BY <1>2 DEF EntersCode
    <3> QED
      BY <3>1, <3>2 DEF PromotedAlone
  <2> QED
    BY <2>1, <2>2
<1> QED
  BY <1>1, <1>2 DEF LoginsCounted, PromotedAlone, MfaCodes!Login

\* The promotion: one more session and one request less.
LEMMA LoginPromoted ==
    ASSUME MfaCodes!TypeOK, AllWork, LoginsCounted, PromotedAlone,
           NEW r \in Request, MfaCodes!Promote(r)
    PROVE  LoginsCounted' /\ PromotedAlone'
<1>n. nextLogin \in Nat /\ MfaCodes!Login \subseteq Nat
  BY AccountsAssumption, CodesAssumption DEF MfaCodes!TypeOK, MfaCodes!Login
<1>a. mcWork[r] # None /\ mcWork[r].pc = "promote" /\ WorksOn(mcWork[r])
  BY CodeWork DEF MfaCodes!Promote, MfaCodes!At
<1>x. PICK x \in MfaCodes!Login : x = mcWork[r].login
  BY <1>a DEF WorksOn, HoldsRow
<1>e. /\ mcParked' = mcParked \ {x} /\ promotions' = [promotions EXCEPT ![x] = @ + 1]
      /\ UNCHANGED <<nextLogin, crossed>>
  BY <1>x DEF MfaCodes!Promote, MfaCodes!Unparked, MfaCodes!histories
<1>f. promotions'[x] = promotions[x] + 1
      /\ \A l \in MfaCodes!Login \ {x} : promotions'[l] = promotions[l]
  BY <1>e DEF MfaCodes!TypeOK
<1>r. r \in Working(x) /\ ~(x >= nextLogin)
  BY <1>a, <1>x DEF Working, LoginsCounted
<1>g. mcWork'[r] = None /\ \A q \in Request \ {r} : mcWork'[q] = mcWork[q]
  BY DEF MfaCodes!Promote, MfaCodes!Ends, MfaCodes!TypeOK
<1>d. \A l \in MfaCodes!Login : Working(l)' \subseteq Working(l) \ {r}
  BY <1>g DEF Working
<1>1. ASSUME NEW l \in MfaCodes!Login
      PROVE  /\ promotions'[l] + Cardinality(Working(l)') <= Cardinality(Request) + 1
             /\ l >= nextLogin' => l \notin mcParked' /\ Working(l)' = {}
             /\ l >= nextLogin' \/ l \in mcParked' => promotions'[l] = 0
  <2>0. /\ IsFiniteSet(Working(l)) /\ Cardinality(Working(l)) \in Nat
        /\ Cardinality(Request) \in Nat /\ promotions[l] \in Nat
    BY WorkingKnown
  <2>1. CASE l = x
    <3>1. /\ Cardinality(Working(l)') <= Cardinality(Working(l)) - 1
          /\ Cardinality(Working(l)') \in Nat
      <4>1. PICK S : S = Working(l)'
        OBVIOUS
      <4>2. S \subseteq Working(l) \ {r} /\ r \in Working(l)
        BY <1>d, <1>r, <2>1, <4>1
      <4>3. /\ IsFiniteSet(Working(l) \ {r})
            /\ Cardinality(Working(l) \ {r}) = Cardinality(Working(l)) - 1
        BY <2>0, <4>2, FS_RemoveElement
      <4> QED
        BY <4>1, <4>2, <4>3, FS_Subset, FS_CardinalityType
    <3>2. promotions[l] + Cardinality(Working(l)) <= Cardinality(Request) + 1
      BY DEF LoginsCounted
    <3>3. promotions'[l] + Cardinality(Working(l)') <= Cardinality(Request) + 1
      BY <1>f, <2>0, <2>1, <3>1, <3>2
    <3> QED
      BY <1>e, <1>r, <2>1, <3>3
  <2>2. CASE l # x
    <3>1. Working(l)' \subseteq Working(l)
      BY <1>d
    <3>2. /\ Cardinality(Working(l)') <= Cardinality(Working(l))
          /\ Cardinality(Working(l)') \in Nat
      BY <3>1, WorkingFewer
    <3>3. promotions'[l] + Cardinality(Working(l)') <= Cardinality(Request) + 1
      BY <1>f, <2>0, <2>2, <3>2 DEF LoginsCounted
    <3> QED
      BY <1>e, <1>f, <2>2, <3>1, <3>3 DEF LoginsCounted
  <2> QED
    BY <2>1, <2>2
<1>2. ASSUME NEW l \in MfaCodes!Login, l \notin crossed'
      PROVE  /\ promotions'[l] <= 1 /\ (promotions'[l] = 1 => Working(l)' = {})
             /\ \A q, s \in Working(l)' : q = s
  <2>0. l \notin crossed /\ Working(l)' \subseteq Working(l) \ {r}
    BY <1>2, <1>d, <1>e
  <2>1. CASE l = x
    <3>1. promotions[x] <= 1 /\ promotions[x] # 1 /\ \A q, s \in Working(x) : q = s
      BY <1>r, <2>0, <2>1 DEF PromotedAlone
    <3>2. promotions[x] \in Nat
      BY WorkingKnown
    <3>3. promotions[x] = 0 /\ Working(x) \subseteq {r}
      BY <1>r, <3>1, <3>2
    <3> QED
      BY <1>f, <2>0, <2>1, <3>3
  <2>2. CASE l # x
    BY <1>f, <2>0, <2>2 DEF PromotedAlone
  <2> QED
    BY <2>1, <2>2
<1> QED
  BY <1>1, <1>2 DEF LoginsCounted, PromotedAlone, MfaCodes!Login

\* Every step keeps what is known of the logins.
LEMMA LoginsNext ==
    ASSUME MfaCodes!TypeOK, AllWork, LoginsCounted, PromotedAlone, [MfaCodes!Next]_mcVars
    PROVE  LoginsCounted' /\ PromotedAlone'
<1> DEFINE Quiet == UNCHANGED <<promotions, crossed, mcParked, nextLogin>>
<1>1. ASSUME NEW r \in Request, NEW l \in MfaCodes!Login, NEW c \in MfaCodes!Code \cup {None},
             MfaCodes!EnterCode(r, l, c), EntersCode(r, l)
      PROVE  LoginsCounted' /\ PromotedAlone'
  BY <1>1, LoginEntered DEF MfaCodes!EnterCode, MfaCodes!logins
<1>2. CASE UNCHANGED mcWork \/ \E r \in Request : GoesOn(r) \/ ReadsRow(r)
  <2>1. ASSUME NEW r \in Request, MfaCodes!Promote(r) PROVE LoginsCounted' /\ PromotedAlone'
    BY <2>1, LoginPromoted
  <2>2. ASSUME MfaCodes!Park PROVE LoginsCounted' /\ PromotedAlone'
    BY <1>2, <2>2, LoginsStay DEF MfaCodes!Park, MfaCodes!histories
  <2>3. ASSUME NEW l \in MfaCodes!Login, MfaCodes!PendingExpires(l)
        PROVE  LoginsCounted' /\ PromotedAlone'
    BY <1>2, <2>3, LoginsStay DEF MfaCodes!PendingExpires, MfaCodes!histories
  <2>q. ASSUME Quiet PROVE LoginsCounted' /\ PromotedAlone'
    BY <1>2, <2>q, LoginsStay
  <2>4. ASSUME \/ MfaCodes!SetupTotp \/ MfaCodes!ConfirmTotp \/ MfaCodes!RemoveAll
               \/ \E f \in MfaCodes!Factor : MfaCodes!AttemptWindowEnds(f)
               \/ UNCHANGED mcVars
        PROVE  Quiet
    BY <2>4 DEF MfaCodes!SetupTotp, MfaCodes!ConfirmTotp, MfaCodes!RemoveAll,
       MfaCodes!AttemptWindowEnds, MfaCodes!logins, MfaCodes!histories, mcVars
  <2>5. ASSUME NEW r \in Request,
               \/ MfaCodes!RemoveFactor(r, "totp") \/ MfaCodes!RemoveFactor(r, "phone")
               \/ MfaCodes!RotateKey(r) \/ MfaCodes!SaveRow(r) \/ MfaCodes!SetupPhone(r)
               \/ \E c \in PhoneChallenge : MfaCodes!ClaimPhone(r, c)
               \/ MfaCodes!SmsSent(r) \/ MfaCodes!RollbackPhone(r)
               \/ MfaCodes!VerifyPhone(r) \/ MfaCodes!CompletePhone(r)
               \/ MfaCodes!ClaimAttempt(r) \/ MfaCodes!CompleteCode(r)
               \/ MfaCodes!ResetAttempts(r)
        PROVE  Quiet
    BY <2>5 DEF MfaCodes!RemoveFactor, MfaCodes!RotateKey, MfaCodes!SaveRow, MfaCodes!SetupPhone,
       MfaCodes!ClaimPhone, MfaCodes!SmsSent, MfaCodes!RollbackPhone, MfaCodes!VerifyPhone,
       MfaCodes!CompletePhone, MfaCodes!ClaimAttempt, MfaCodes!CompleteCode, MfaCodes!ResetAttempts, MfaCodes!logins, MfaCodes!histories
  <2>6. ASSUME NEW r \in Request, NEW l \in MfaCodes!Login, NEW c \in MfaCodes!Code \cup {None},
               MfaCodes!EnterCode(r, l, c)
        PROVE  LoginsCounted' /\ PromotedAlone'
    <3>1. mcWork[r] = None /\ l \in mcParked /\ UNCHANGED <<promotions, mcParked, nextLogin>>
      BY <2>6 DEF MfaCodes!EnterCode, MfaCodes!Begins, MfaCodes!logins
    <3>2. crossed \subseteq crossed'
      BY <2>6 DEF MfaCodes!EnterCode
    <3> QED
      BY <1>2, <3>1, <3>2, LoginsStay
  <2> QED
    BY <2>1, <2>2, <2>3, <2>q, <2>4, <2>5, <2>6 DEF MfaCodes!Next
<1> QED
  BY <1>1, <1>2, CodeSteps

\* Every step of the second factor keeps the invariant.
LEMMA CodesNext == CodesInv /\ [MfaCodes!Next]_mcVars => CodesInv'
<1> SUFFICES ASSUME CodesInv, [MfaCodes!Next]_mcVars PROVE CodesInv'
  OBVIOUS
<1>1. MfaCodes!TypeOK /\ AllWork /\ CodesFine /\ LoginsCounted /\ PromotedAlone
  BY DEF CodesInv
<1>2. /\ promotions' \in [MfaCodes!Login -> Nat] /\ AllWork'
      /\ PromotionsBounded' => MfaCodes!TypeOK'
  BY <1>1, CodeTypesNext
<1>3. CodesFine'
  BY <1>1, CodesFineNext
<1>4. LoginsCounted' /\ PromotedAlone'
  BY <1>1, LoginsNext
<1>5. PromotionsBounded'
  <2>0. Cardinality(Request) \in Nat
    BY AccountsAssumption, CodesAssumption, FS_CardinalityType
  <2>1. ASSUME NEW l \in MfaCodes!Login PROVE promotions'[l] \in 0 .. Cardinality(Request) + 1
    <3>1. promotions'[l] \in Nat
      BY <1>2
    <3>2. Cardinality(Working(l)') \in Nat
      <4>1. PICK S : S = Working(l)'
        OBVIOUS
      <4>2. S \subseteq Request
        BY <4>1 DEF Working
      <4> QED
        BY <4>1, <4>2, AccountsAssumption, CodesAssumption, FS_Subset, FS_CardinalityType
    <3>3. promotions'[l] + Cardinality(Working(l)') <= Cardinality(Request) + 1
      BY <1>4 DEF LoginsCounted, MfaCodes!Login
    <3> QED
      BY <2>0, <3>1, <3>2, <3>3
  <2>2. promotions' \in [MfaCodes!Login -> 0 .. Cardinality(Request) + 1]
    <3> DEFINE N == 0 .. Cardinality(Request) + 1
    <3>1. \A l \in MfaCodes!Login : promotions'[l] \in N
      BY <2>1
    <3> HIDE DEF N
    <3>2. promotions' \in [MfaCodes!Login -> N]
      BY <1>2, <3>1
    <3> QED
      BY <3>2 DEF N
  <2> QED
    BY <2>2, SameCodeCardinality DEF PromotionsBounded
<1> QED
  BY <1>2, <1>3, <1>4, <1>5 DEF CodesInv

-------------------------------------------------------------------------------

(* MfaSms.                                                                    *)

\* The challenges that a request and the record know were claimed.
Claimed(id) == id # None => id < nextChallenge
KnowsChallenge(w) ==
    /\ w.pc \notin {"budget", "claim"} =>
            w.challenge \in MfaSms!Challenge /\ w.challenge < nextChallenge
    /\ w.previous # None => Claimed(w.previous.id)
ChallengesKnown ==
    /\ sms # None => Claimed(sms.id)
    /\ \A r \in Request : msWork[r] # None => KnowsChallenge(msWork[r])

\* The types, up to the bound on the histories.
SmsTypes ==
    /\ sender \in {"provider", "application"} /\ place \in {"setup", "login"}
    /\ enrolled \in BOOLEAN /\ msParked \in BOOLEAN
    /\ sms \in MfaSms!Sms \cup {None}
    /\ nextChallenge \in 1 .. MaxChallenge + 1 /\ deliveries \in 0 .. SmsSendMaxAttempts
    /\ msWork \in [Request -> MfaSms!Work \cup {None}]
    /\ delivered \subseteq MfaSms!Challenge
    /\ guesses \in [MfaSms!Challenge -> Nat] /\ restored \in [MfaSms!Challenge -> Nat]
    /\ completed \in [MfaSms!Challenge -> Nat]

Fresh == \A c \in MfaSms!Challenge : c >= nextChallenge => guesses[c] = 0 /\ completed[c] = 0

\* The requests with a code for a challenge, and those that have not tried it yet.
Flies(w, c) == w # None /\ w.pc \in {"check", "record", "complete"} /\ w.challenge = c
Checks(w, c) == w # None /\ w.pc = "check" /\ w.challenge = c
Flying(c) == {r \in Request : Flies(msWork[r], c)}
Checking(c) == {r \in Request : Checks(msWork[r], c)}

\* What n lives of a challenge grant.
Budget(n) == (SmsMaxAttempts + Cardinality(Request) - 1) * n

\* Codes tried and about to be tried never pass the budget: while the record is live and below
\* its limit, each that was tried in this life was counted or is still in flight.
GuessesCounted ==
    \A c \in MfaSms!Challenge :
        /\ guesses[c] + Cardinality(Checking(c)) <= Budget(restored[c] + 1)
        /\ sms # None /\ sms.id = c /\ sms.failed < SmsMaxAttempts =>
               guesses[c] + Cardinality(Checking(c))
                  <= Budget(restored[c]) + sms.failed + Cardinality(Flying(c))

\* A challenge that is still the current one was completed only in the lives before.
CompletedBefore ==
    \A c \in MfaSms!Challenge :
        /\ completed[c] <= restored[c] + 1
        /\ sms # None /\ sms.id = c => completed[c] <= restored[c]

\* Each challenge that was claimed restores an older one once at most, when its sending is over.
Sends(w) == w # None /\ w.pc \in {"start", "finalize", "deliver", "rollback"}
Sending == {r \in Request : Sends(msWork[r])}
RestoresCounted ==
    \A c \in MfaSms!Challenge : restored[c] + Cardinality(Sending) <= nextChallenge - 1

SmsInv ==
    /\ SmsTypes
    /\ ChallengesKnown
    /\ RestoresCounted
    /\ Fresh
    /\ GuessesCounted
    /\ CompletedBefore

\* The cardinality that MfaSms takes from the standard module is the one that is counted here.
LEMMA SameSmsCardinality == MfaSms!Cardinality(Request) = Cardinality(Request)
BY DEF MfaSms!Cardinality, Cardinality

\* There is a request at least, and finitely many.
LEMMA Requests == Cardinality(Request) \in Nat \ {0}
BY AccountsAssumption, SmsAssumption, FS_CardinalityType, FS_EmptySet

\* Each life of a challenge adds the same to the budget.
LEMMA BudgetGrows ==
    ASSUME NEW n \in Nat
    PROVE  /\ Budget(n) \in Nat /\ Budget(n) <= Budget(n + 1)
           /\ Budget(n + 1) = Budget(n) + SmsMaxAttempts + Cardinality(Request) - 1
<1>1. PICK a \in Nat : a = SmsMaxAttempts + Cardinality(Request) - 1
  BY AccountsAssumption, SmsAssumption, Requests
<1>2. a * n \in Nat /\ a * (n + 1) = a * n + a
  BY <1>1
<1>3. Budget(n) = a * n /\ Budget(n + 1) = a * (n + 1)
  BY <1>1 DEF Budget
<1> QED
  BY <1>1, <1>2, <1>3, AccountsAssumption, SmsAssumption, Requests

\* At first no challenge is claimed.
LEMMA SmsInit == MfaSms!Init => SmsInv
<1> SUFFICES ASSUME MfaSms!Init PROVE SmsInv
  OBVIOUS
<1>1. \A r \in Request : msWork[r] = None
  BY DEF MfaSms!Init
<1>2. \A c \in MfaSms!Challenge : guesses[c] = 0 /\ restored[c] = 0 /\ completed[c] = 0
  BY DEF MfaSms!Init
<1>3. SmsTypes
  BY AccountsAssumption, SmsAssumption DEF MfaSms!Init, SmsTypes
<1>4. ChallengesKnown /\ Fresh
  BY <1>1, <1>2 DEF MfaSms!Init, ChallengesKnown, Fresh
<1>5. \A c : Checking(c) = {} /\ Cardinality({}) = 0
  BY <1>1, FS_EmptySet DEF Checking, Checks
<1>6. Budget(0 + 1) \in Nat
  BY BudgetGrows
<1>7. GuessesCounted
  BY <1>2, <1>5, <1>6 DEF MfaSms!Init, GuessesCounted
<1>8. CompletedBefore
  BY <1>2 DEF MfaSms!Init, CompletedBefore
<1>9. RestoresCounted
  <2>1. Sending = {} /\ Cardinality({}) = 0
    BY <1>1, FS_EmptySet DEF Sending, Sends
  <2> QED
    BY <1>2, <2>1 DEF MfaSms!Init, RestoresCounted
<1> QED
  BY <1>3, <1>4, <1>7, <1>8, <1>9 DEF SmsInv

\* A request turns to other work.
Turns(r, w) == msWork' = [msWork EXCEPT ![r] = w]

\* The request that turns to other work is the only one that does.
LEMMA TurnedTo ==
    ASSUME SmsTypes, NEW r \in Request, NEW w, Turns(r, w)
    PROVE  msWork'[r] = w /\ \A q \in Request \ {r} : msWork'[q] = msWork[q]
BY DEF SmsTypes, Turns

\* What a request works on, and that its challenges were claimed.
LEMMA SmsWork ==
    ASSUME SmsTypes, ChallengesKnown, NEW r \in Request, msWork[r] # None
    PROVE  msWork[r] \in MfaSms!Work /\ KnowsChallenge(msWork[r])
BY DEF SmsTypes, ChallengesKnown

\* The step of a request from a place among its steps to another.
LEMMA TurnsOn ==
    ASSUME SmsTypes, ChallengesKnown, NEW r \in Request, msWork[r] # None,
           NEW pc \in {"start", "finalize", "deliver", "rollback", "check", "record", "complete",
                        "enrolled", "promote"},
           MfaSms!On(r, pc), msWork[r].pc \notin {"budget", "claim"}
    PROVE  \E w \in MfaSms!Work :
              /\ Turns(r, w) /\ KnowsChallenge(w) /\ w.pc = pc
              /\ w.challenge = msWork[r].challenge
<1>1. PICK w : w = [msWork[r] EXCEPT !.pc = pc]
  OBVIOUS
<1>2. msWork[r] \in MfaSms!Work /\ KnowsChallenge(msWork[r])
  BY SmsWork
<1>3. /\ w \in MfaSms!Work /\ w.pc = pc /\ w.challenge = msWork[r].challenge
      /\ w.previous = msWork[r].previous
  BY <1>1, <1>2 DEF MfaSms!Work
<1>4. KnowsChallenge(w)
  BY <1>2, <1>3 DEF KnowsChallenge
<1>5. Turns(r, w)
  BY <1>1 DEF MfaSms!On, Turns
<1> QED
  BY <1>3, <1>4, <1>5

\* A message that is within the budget goes on to the claim.
LEMMA GoesToClaim ==
    ASSUME SmsTypes, ChallengesKnown, NEW r \in Request, msWork[r] # None,
           MfaSms!On(r, "claim")
    PROVE  \E w \in MfaSms!Work : Turns(r, w) /\ KnowsChallenge(w) /\ w.pc = "claim"
<1>1. PICK w : w = [msWork[r] EXCEPT !.pc = "claim"]
  OBVIOUS
<1>2. msWork[r] \in MfaSms!Work /\ KnowsChallenge(msWork[r])
  BY SmsWork
<1>3. w \in MfaSms!Work /\ w.pc = "claim" /\ w.previous = msWork[r].previous
  BY <1>1, <1>2 DEF MfaSms!Work
<1>4. KnowsChallenge(w)
  BY <1>2, <1>3 DEF KnowsChallenge
<1>5. Turns(r, w)
  BY <1>1 DEF MfaSms!On, Turns
<1> QED
  BY <1>3, <1>4, <1>5

\* What is known of the challenges stays known.
KnownThen(id) == id # None => id < nextChallenge'

\* A step that claims one challenge at most keeps what is known of them.
LEMMA ChallengesStay ==
    ASSUME SmsTypes, ChallengesKnown, nextChallenge' \in {nextChallenge, nextChallenge + 1},
           \/ UNCHANGED msWork
           \/ \E r \in Request : \E w :
                /\ Turns(r, w)
                /\ \/ w = None
                   \/ /\ w \in MfaSms!Work
                      /\ w.pc \notin {"budget", "claim"} =>
                            w.challenge \in MfaSms!Challenge /\ w.challenge < nextChallenge'
                      /\ w.previous # None => KnownThen(w.previous.id),
           sms' # None => KnownThen(sms'.id)
    PROVE  msWork' \in [Request -> MfaSms!Work \cup {None}] /\ ChallengesKnown'
<1>n. nextChallenge \in Nat /\ MfaSms!Challenge \subseteq Nat
  BY AccountsAssumption, SmsAssumption DEF SmsTypes, MfaSms!Challenge
<1>1. msWork' \in [Request -> MfaSms!Work \cup {None}]
  BY DEF SmsTypes, Turns
<1>2. ASSUME NEW q \in Request, msWork[q] # None
      PROVE  /\ msWork[q].pc \notin {"budget", "claim"} =>
                    msWork[q].challenge \in MfaSms!Challenge /\ msWork[q].challenge < nextChallenge'
             /\ msWork[q].previous # None => KnownThen(msWork[q].previous.id)
  <2>1. msWork[q] \in MfaSms!Work /\ KnowsChallenge(msWork[q])
    BY <1>2, SmsWork
  <2>2. msWork[q].previous # None => msWork[q].previous.id \in Nat \cup {None}
    BY <1>n, <2>1 DEF MfaSms!Work, MfaSms!Sms
  <2> QED
    BY <1>n, <2>1, <2>2 DEF KnowsChallenge, Claimed, KnownThen
<1>3. ASSUME NEW q \in Request, msWork'[q] # None
      PROVE  /\ msWork'[q].pc \notin {"budget", "claim"} =>
                    msWork'[q].challenge \in MfaSms!Challenge /\ msWork'[q].challenge < nextChallenge'
             /\ msWork'[q].previous # None => KnownThen(msWork'[q].previous.id)
  <2>1. CASE UNCHANGED msWork
    BY <1>2, <1>3, <2>1
  <2>2. CASE \E r \in Request : \E w :
                /\ Turns(r, w)
                /\ \/ w = None
                   \/ /\ w \in MfaSms!Work
                      /\ w.pc \notin {"budget", "claim"} =>
                            w.challenge \in MfaSms!Challenge /\ w.challenge < nextChallenge'
                      /\ w.previous # None => KnownThen(w.previous.id)
    BY <1>2, <1>3, <2>2, TurnedTo
  <2> QED
    BY <2>1, <2>2
<1>4. ChallengesKnown'
  BY <1>3 DEF ChallengesKnown, KnowsChallenge, Claimed, KnownThen, MfaSms!Challenge
<1> QED
  BY <1>1, <1>4

\* Every step keeps the types, and challenges that are not claimed yet unknown and untried.
LEMMA SmsTypesNext ==
    ASSUME SmsTypes, ChallengesKnown, Fresh, [MfaSms!Next]_msVars
    PROVE  SmsTypes' /\ ChallengesKnown' /\ Fresh'
<1> DEFINE Goal == SmsTypes' /\ ChallengesKnown' /\ Fresh'
           WorkKept == msWork' \in [Request -> MfaSms!Work \cup {None}] /\ ChallengesKnown'
<1>t. /\ sender \in {"provider", "application"} /\ place \in {"setup", "login"}
      /\ enrolled \in BOOLEAN /\ msParked \in BOOLEAN
      /\ sms \in MfaSms!Sms \cup {None}
      /\ nextChallenge \in 1 .. MaxChallenge + 1 /\ deliveries \in 0 .. SmsSendMaxAttempts
      /\ msWork \in [Request -> MfaSms!Work \cup {None}]
      /\ delivered \subseteq MfaSms!Challenge
      /\ guesses \in [MfaSms!Challenge -> Nat] /\ restored \in [MfaSms!Challenge -> Nat]
      /\ completed \in [MfaSms!Challenge -> Nat]
  BY DEF SmsTypes
<1>n. nextChallenge \in Nat /\ MfaSms!Challenge \subseteq Nat
  BY <1>t, AccountsAssumption, SmsAssumption DEF MfaSms!Challenge
<1>k. sms # None => Claimed(sms.id)
  BY DEF ChallengesKnown
<1>e. ASSUME NEW r \in Request, MfaSms!Ends(r), UNCHANGED nextChallenge, sms' # None => Claimed(sms'.id)
      PROVE  WorkKept
  BY <1>e, ChallengesStay DEF MfaSms!Ends, Turns, Claimed, KnownThen
<1>u. ASSUME UNCHANGED <<msWork, nextChallenge>>, sms' # None => Claimed(sms'.id) PROVE WorkKept
  BY <1>u, ChallengesStay DEF Claimed, KnownThen
<1>o. ASSUME NEW r \in Request, msWork[r] # None, msWork[r].pc \notin {"budget", "claim"},
             NEW pc \in {"start", "finalize", "deliver", "rollback", "check", "record", "complete",
                        "enrolled", "promote"},
             MfaSms!On(r, pc), UNCHANGED nextChallenge, sms' # None => Claimed(sms'.id)
      PROVE  WorkKept
  <2>1. PICK w \in MfaSms!Work : Turns(r, w) /\ KnowsChallenge(w)
    BY <1>o, TurnsOn
  <2> QED
    BY <1>o, <2>1, ChallengesStay DEF KnowsChallenge, Claimed, KnownThen
<1>f. ASSUME UNCHANGED <<guesses, completed, nextChallenge>> PROVE Fresh'
  BY <1>f DEF Fresh, MfaSms!Challenge
<1>1. ASSUME NEW r \in Request, MfaSms!SendSms(r) PROVE Goal
  <2>0. PICK pc \in {"budget", "claim"} : MfaSms!Begins(r, pc, None, sms)
    BY <1>1 DEF MfaSms!SendSms
  <2>1. PICK w : w = [pc |-> pc, challenge |-> None, previous |-> sms]
    OBVIOUS
  <2>2. Turns(r, w) /\ UNCHANGED <<nextChallenge, sms>>
    BY <1>1, <2>0, <2>1 DEF MfaSms!SendSms, MfaSms!Begins, Turns
  <2>3. w \in MfaSms!Work /\ w.pc \in {"budget", "claim"} /\ w.previous = sms
    BY <1>t, <2>1 DEF MfaSms!Work
  <2>4. WorkKept
    BY <1>k, <2>2, <2>3, ChallengesStay DEF Claimed, KnownThen
  <2> QED
    BY <1>1, <1>t, <1>f, <2>4 DEF MfaSms!SendSms, MfaSms!histories, SmsTypes
<1>2. ASSUME MfaSms!DeliveryWindowEnds PROVE Goal
  <2>1. WorkKept
    BY <1>2, <1>k, <1>u DEF MfaSms!DeliveryWindowEnds
  <2>2. deliveries' \in 0 .. SmsSendMaxAttempts
    BY <1>2, AccountsAssumption, SmsAssumption DEF MfaSms!DeliveryWindowEnds
  <2> QED
    BY <1>2, <1>t, <1>f, <2>1, <2>2 DEF MfaSms!DeliveryWindowEnds, MfaSms!histories, SmsTypes
<1>3. ASSUME NEW r \in Request, MfaSms!ClaimSms(r) PROVE Goal
  <2>1. CASE MfaSms!Ends(r) /\ UNCHANGED <<sms, nextChallenge>>
    <3>1. WorkKept
      BY <1>e, <1>k, <2>1
    <3> QED
      BY <1>3, <1>t, <1>f, <2>1, <3>1 DEF MfaSms!ClaimSms, MfaSms!histories, SmsTypes
  <2>2. CASE /\ sms' = [id |-> nextChallenge, ready |-> FALSE, failed |-> 0, cooled |-> FALSE]
             /\ nextChallenge' = nextChallenge + 1
             /\ msWork' = [msWork EXCEPT ![r].challenge = nextChallenge,
                             ![r].pc = IF sender = "provider" THEN "start" ELSE "finalize"]
    <3>1. nextChallenge \in MfaSms!Challenge /\ msWork[r] # None
      BY <1>3 DEF MfaSms!ClaimSms, MfaSms!At
    <3>2. msWork[r] \in MfaSms!Work /\ KnowsChallenge(msWork[r])
      BY <3>1, SmsWork
    <3>3. PICK pc \in {"start", "finalize"} :
              msWork' = [msWork EXCEPT ![r].challenge = nextChallenge, ![r].pc = pc]
      BY <2>2
    <3>4. PICK w : w = [msWork[r] EXCEPT !.challenge = nextChallenge, !.pc = pc]
      OBVIOUS
    <3>5. Turns(r, w)
      BY <1>t, <3>3, <3>4 DEF Turns
    <3>6. /\ w \in MfaSms!Work /\ w.challenge = nextChallenge /\ w.previous = msWork[r].previous
      BY <3>1, <3>2, <3>4 DEF MfaSms!Work
    <3>7. w.previous # None => KnownThen(w.previous.id)
      <4>1. w.previous # None => w.previous.id \in Nat \cup {None}
        BY <1>n, <3>6 DEF MfaSms!Work, MfaSms!Sms
      <4> QED
        BY <1>n, <2>2, <3>2, <3>6, <4>1 DEF KnowsChallenge, Claimed, KnownThen
    <3>8. nextChallenge < nextChallenge' /\ sms'.id < nextChallenge'
      BY <1>n, <2>2
    <3>9. WorkKept
      BY <2>2, <3>1, <3>5, <3>6, <3>7, <3>8, ChallengesStay DEF KnownThen
    <3>10. sms' \in MfaSms!Sms
      BY <2>2, <3>1, AccountsAssumption, SmsAssumption DEF MfaSms!Sms
    <3>11. nextChallenge' \in 1 .. MaxChallenge + 1
      BY <2>2, <3>1, AccountsAssumption, SmsAssumption DEF MfaSms!Challenge
    <3>12. UNCHANGED <<sender, place, enrolled, msParked, deliveries, delivered, guesses, restored, completed>>
      BY <1>3 DEF MfaSms!ClaimSms, MfaSms!histories
    <3>13. Fresh'
      BY <1>n, <2>2, <3>12 DEF Fresh, MfaSms!Challenge
    <3> QED
      BY <1>t, <3>9, <3>10, <3>11, <3>12, <3>13 DEF SmsTypes
  <2> QED
    BY <1>3, <2>1, <2>2 DEF MfaSms!ClaimSms
<1>4. ASSUME NEW r \in Request, MfaSms!StartProvider(r) \/ MfaSms!Deliver(r) PROVE Goal
  <2>1. msWork[r] # None /\ msWork[r].pc \in {"start", "deliver"}
    BY <1>4 DEF MfaSms!StartProvider, MfaSms!Deliver, MfaSms!At
  <2>2. /\ MfaSms!On(r, "finalize") \/ MfaSms!On(r, "rollback") \/ MfaSms!Ends(r)
        /\ delivered' \in {delivered, delivered \cup {msWork[r].challenge}}
        /\ UNCHANGED <<sender, place, enrolled, msParked, sms, nextChallenge, deliveries, guesses, restored,
                       completed>>
    BY <1>4 DEF MfaSms!StartProvider, MfaSms!Deliver
  <2>3. msWork[r].challenge \in MfaSms!Challenge
    BY <2>1, SmsWork DEF KnowsChallenge
  <2>4. WorkKept
    BY <1>e, <1>k, <1>o, <2>1, <2>2
  <2> QED
    BY <1>t, <1>f, <2>2, <2>3, <2>4 DEF SmsTypes
<1>5. ASSUME NEW r \in Request, MfaSms!Finalize(r) PROVE Goal
  <2>1. msWork[r] # None /\ msWork[r].pc = "finalize"
    BY <1>5 DEF MfaSms!Finalize, MfaSms!At
  <2>2. /\ MfaSms!On(r, "deliver") \/ MfaSms!Ends(r)
        /\ UNCHANGED sms \/ (sms # None /\ sms' = [sms EXCEPT !.ready = TRUE])
        /\ UNCHANGED <<sender, place, enrolled, msParked, nextChallenge, deliveries, delivered, guesses, restored,
                       completed>>
    BY <1>5 DEF MfaSms!Finalize, MfaSms!Current, MfaSms!histories
  <2>3. sms' \in MfaSms!Sms \cup {None} /\ (sms' # None => Claimed(sms'.id))
    BY <1>t, <1>k, <2>2 DEF MfaSms!Sms
  <2>4. WorkKept
    BY <1>e, <1>o, <2>1, <2>2, <2>3
  <2> QED
    BY <1>t, <1>f, <2>2, <2>3, <2>4 DEF SmsTypes
<1>6. ASSUME NEW r \in Request, MfaSms!Rollback(r) PROVE Goal
  <2>1. msWork[r] # None /\ MfaSms!Ends(r)
    BY <1>6 DEF MfaSms!Rollback, MfaSms!At
  <2>2. PICK previous : previous = msWork[r].previous
    OBVIOUS
  <2>3. previous \in MfaSms!Sms \cup {None} /\ (previous # None => Claimed(previous.id))
    BY <2>1, <2>2, SmsWork DEF MfaSms!Work, KnowsChallenge
  <2>4. /\ sms' \in {sms, previous}
        /\ \/ UNCHANGED restored
           \/ /\ previous # None /\ previous.id # None
              /\ restored' = [restored EXCEPT ![previous.id] = @ + 1]
        /\ UNCHANGED <<sender, place, enrolled, msParked, nextChallenge, deliveries, delivered, guesses, completed>>
    BY <1>6, <2>2 DEF MfaSms!Rollback, MfaSms!Restored
  <2>5. sms' \in MfaSms!Sms \cup {None} /\ (sms' # None => Claimed(sms'.id))
    BY <1>t, <1>k, <2>3, <2>4
  <2>6. WorkKept
    BY <1>e, <2>1, <2>4, <2>5
  <2>7. restored' \in [MfaSms!Challenge -> Nat]
    <3>1. CASE UNCHANGED restored
      BY <1>t, <3>1
    <3>2. CASE /\ previous # None /\ previous.id # None
               /\ restored' = [restored EXCEPT ![previous.id] = @ + 1]
      <4>1. PICK c \in MfaSms!Challenge : c = previous.id
        BY <2>3, <3>2 DEF MfaSms!Sms
      <4> QED
        BY <1>t, <3>2, <4>1
    <3> QED
      BY <2>4, <3>1, <3>2
  <2> QED
    BY <1>t, <1>f, <2>4, <2>5, <2>6, <2>7 DEF SmsTypes
<1>7. ASSUME MfaSms!CooldownEnds \/ MfaSms!CodeExpires PROVE Goal
  <2>1. /\ sms \in MfaSms!Sms
        /\ sms' = [sms EXCEPT !.cooled = TRUE] \/ sms' = [sms EXCEPT !.ready = FALSE]
        /\ UNCHANGED <<sender, place, enrolled, msParked, nextChallenge, deliveries, msWork, delivered, guesses,
                       restored, completed>>
    BY <1>7, <1>t DEF MfaSms!CooldownEnds, MfaSms!CodeExpires, MfaSms!histories
  <2>2. sms' \in MfaSms!Sms /\ sms'.id = sms.id
    BY <2>1 DEF MfaSms!Sms
  <2>3. WorkKept
    BY <1>7, <1>k, <1>u, <2>1, <2>2 DEF MfaSms!CooldownEnds, MfaSms!CodeExpires
  <2> QED
    BY <1>t, <1>f, <2>1, <2>2, <2>3 DEF SmsTypes
<1>8. ASSUME NEW r \in Request, MfaSms!VerifySms(r) PROVE Goal
  <2>1. PICK w : w = [pc |-> "check", challenge |-> sms.id, previous |-> None]
    OBVIOUS
  <2>2. Turns(r, w) /\ UNCHANGED <<nextChallenge, sms>> /\ sms # None /\ sms.id # None
    BY <1>8, <2>1 DEF MfaSms!VerifySms, MfaSms!Begins, Turns
  <2>3. w \in MfaSms!Work /\ w.previous = None /\ w.challenge = sms.id /\ sms.id \in MfaSms!Challenge
    BY <1>t, <2>1, <2>2 DEF MfaSms!Work, MfaSms!Sms
  <2>4. WorkKept
    BY <1>k, <2>2, <2>3, ChallengesStay DEF Claimed, KnownThen
  <2> QED
    BY <1>8, <1>t, <1>f, <2>4 DEF MfaSms!VerifySms, MfaSms!histories, SmsTypes
<1>9. ASSUME NEW r \in Request, MfaSms!CheckSms(r) PROVE Goal
  <2>1. msWork[r] # None /\ msWork[r].pc = "check"
    BY <1>9 DEF MfaSms!CheckSms, MfaSms!At
  <2>2. PICK c \in MfaSms!Challenge : c = msWork[r].challenge /\ c < nextChallenge
    BY <2>1, SmsWork DEF KnowsChallenge
  <2>3. /\ MfaSms!On(r, "record") \/ MfaSms!On(r, "complete") \/ MfaSms!Ends(r)
        /\ UNCHANGED guesses \/ guesses' = [guesses EXCEPT ![c] = @ + 1]
        /\ UNCHANGED <<sender, place, enrolled, msParked, sms, nextChallenge, deliveries, delivered, restored,
                       completed>>
    BY <1>9, <2>2 DEF MfaSms!CheckSms
  <2>4. WorkKept
    BY <1>e, <1>k, <1>o, <2>1, <2>3
  <2>5. guesses' \in [MfaSms!Challenge -> Nat]
    BY <1>t, <2>3
  <2>6. \A d \in MfaSms!Challenge : d >= nextChallenge => guesses'[d] = guesses[d]
    BY <1>n, <1>t, <2>2, <2>3
  <2>7. Fresh'
    BY <2>3, <2>6 DEF Fresh, MfaSms!Challenge
  <2> QED
    BY <1>t, <2>3, <2>4, <2>5, <2>7 DEF SmsTypes
<1>10. ASSUME NEW r \in Request, MfaSms!RecordFailure(r) PROVE Goal
  <2>1. /\ \/ UNCHANGED sms
           \/ /\ sms # None /\ sms.failed < SmsMaxAttempts
              /\ sms' = [sms EXCEPT !.failed = @ + 1]
        /\ UNCHANGED <<sender, place, enrolled, msParked, nextChallenge, deliveries, delivered, guesses, restored,
                       completed>>
        /\ MfaSms!Ends(r)
    BY <1>10 DEF MfaSms!RecordFailure, MfaSms!Failed, MfaSms!Current, MfaSms!histories
  <2>2. sms' \in MfaSms!Sms \cup {None} /\ (sms' # None => Claimed(sms'.id))
    <3>1. CASE UNCHANGED sms
      BY <1>t, <1>k, <3>1
    <3>2. CASE /\ sms # None /\ sms.failed < SmsMaxAttempts
               /\ sms' = [sms EXCEPT !.failed = @ + 1]
      <4>1. sms \in MfaSms!Sms /\ sms.failed + 1 \in 0 .. SmsMaxAttempts
        BY <1>t, <3>2, AccountsAssumption, SmsAssumption DEF MfaSms!Sms
      <4>2. sms' \in MfaSms!Sms /\ sms'.id = sms.id
        BY <3>2, <4>1 DEF MfaSms!Sms
      <4> QED
        BY <1>k, <3>2, <4>2
    <3> QED
      BY <2>1, <3>1, <3>2
  <2>3. WorkKept
    BY <1>e, <2>1, <2>2
  <2> QED
    BY <1>t, <1>f, <2>1, <2>2, <2>3 DEF SmsTypes
<1>11. ASSUME NEW r \in Request, MfaSms!CompleteSms(r) PROVE Goal
  <2>0. msWork[r] # None /\ msWork[r].pc = "complete"
    BY <1>11 DEF MfaSms!CompleteSms, MfaSms!At
  <2>1. PICK c \in MfaSms!Challenge : c = msWork[r].challenge /\ c < nextChallenge
    BY <2>0, SmsWork DEF KnowsChallenge
  <2>2. /\ \/ UNCHANGED <<sms, completed>>
           \/ /\ sms # None /\ sms' = [sms EXCEPT !.id = None, !.ready = FALSE, !.failed = 0]
              /\ completed' = [completed EXCEPT ![c] = @ + 1]
        /\ UNCHANGED <<sender, place, enrolled, msParked, nextChallenge, deliveries, delivered,
                       guesses, restored>>
        /\ MfaSms!Ends(r) \/ MfaSms!On(r, "enrolled")
    BY <1>11, <2>1 DEF MfaSms!CompleteSms, MfaSms!Cleared, MfaSms!Current
  <2>3. sms' \in MfaSms!Sms \cup {None} /\ (sms' # None => Claimed(sms'.id))
    <3>0. 0 \in 0 .. SmsMaxAttempts
      BY AccountsAssumption, SmsAssumption
    <3>1. CASE UNCHANGED sms
      BY <1>t, <1>k, <3>1
    <3>2. CASE sms # None /\ sms' = [sms EXCEPT !.id = None, !.ready = FALSE, !.failed = 0]
      <4>1. sms \in MfaSms!Sms
        BY <1>t, <3>2
      <4>2. sms' \in MfaSms!Sms /\ sms'.id = None
        BY <3>0, <3>2, <4>1 DEF MfaSms!Sms
      <4> QED
        BY <4>2 DEF Claimed
    <3> QED
      BY <2>2, <3>1, <3>2
  <2>4. WorkKept
    BY <1>e, <1>o, <2>0, <2>2, <2>3
  <2>5. completed' \in [MfaSms!Challenge -> Nat]
    BY <1>t, <2>2
  <2>6. \A d \in MfaSms!Challenge : d >= nextChallenge => completed'[d] = completed[d]
    BY <1>n, <1>t, <2>1, <2>2
  <2>7. Fresh'
    BY <2>2, <2>6 DEF Fresh, MfaSms!Challenge
  <2> QED
    BY <1>t, <2>2, <2>3, <2>4, <2>5, <2>7 DEF SmsTypes
<1>13. ASSUME NEW r \in Request, MfaSms!CountDelivery(r) PROVE Goal
  <2>1. /\ msWork[r] # None /\ (MfaSms!Ends(r) \/ MfaSms!On(r, "claim"))
        /\ UNCHANGED <<sender, place, enrolled, msParked, sms, nextChallenge, delivered, guesses,
                       restored, completed>>
    BY <1>13 DEF MfaSms!CountDelivery, MfaSms!At, MfaSms!histories
  <2>2. ASSUME MfaSms!On(r, "claim") PROVE WorkKept
    <3>1. PICK w \in MfaSms!Work : Turns(r, w) /\ KnowsChallenge(w) /\ w.pc = "claim"
      BY <2>1, <2>2, GoesToClaim
    <3> QED
      BY <1>k, <2>1, <3>1, ChallengesStay DEF KnowsChallenge, Claimed, KnownThen
  <2>3. WorkKept
    BY <1>e, <1>k, <2>1, <2>2
  <2>4. deliveries' \in 0 .. SmsSendMaxAttempts
    BY <1>13, <1>t, AccountsAssumption, SmsAssumption DEF MfaSms!CountDelivery
  <2> QED
    BY <1>t, <1>f, <2>1, <2>3, <2>4 DEF SmsTypes
<1>14. ASSUME NEW r \in Request, MfaSms!StillEnrolled(r) \/ MfaSms!PromoteSms(r) PROVE Goal
  <2>1. /\ msWork[r] # None /\ msWork[r].pc \notin {"budget", "claim"}
        /\ (MfaSms!Ends(r) \/ MfaSms!On(r, "promote"))
        /\ msParked' \in {msParked, FALSE}
        /\ UNCHANGED <<sender, place, enrolled, sms, nextChallenge, deliveries, delivered, guesses,
                       restored, completed>>
    BY <1>14 DEF MfaSms!StillEnrolled, MfaSms!PromoteSms, MfaSms!At, MfaSms!histories
  <2>2. WorkKept
    BY <1>e, <1>k, <1>o, <2>1
  <2> QED
    BY <1>t, <1>f, <2>1, <2>2 DEF SmsTypes
<1>15. ASSUME MfaSms!RemoveEnrollment PROVE Goal
  <2>1. WorkKept
    BY <1>15, <1>u DEF MfaSms!RemoveEnrollment
  <2>2. deliveries' \in 0 .. SmsSendMaxAttempts
    BY <1>15, AccountsAssumption, SmsAssumption DEF MfaSms!RemoveEnrollment
  <2> QED
    BY <1>15, <1>t, <1>f, <2>1, <2>2 DEF MfaSms!RemoveEnrollment, MfaSms!histories, SmsTypes
<1>12. ASSUME UNCHANGED msVars PROVE Goal
  <2>1. WorkKept
    BY <1>12, <1>k, <1>u DEF msVars
  <2> QED
    BY <1>12, <1>t, <1>f, <2>1 DEF msVars, SmsTypes
<1> QED
  BY <1>1, <1>2, <1>3, <1>4, <1>5, <1>6, <1>7, <1>8, <1>9, <1>10, <1>11, <1>12, <1>13, <1>14,
     <1>15 DEF MfaSms!Next

\* The requests in flight are counted one by one.
One(b) == IF b THEN 1 ELSE 0

\* What is counted are numbers.
LEMMA Counts ==
    ASSUME SmsTypes, NEW c \in MfaSms!Challenge
    PROVE  /\ Cardinality(Flying(c)) \in Nat /\ Cardinality(Checking(c)) \in Nat
           /\ IsFiniteSet(Flying(c)) /\ IsFiniteSet(Checking(c))
           /\ guesses[c] \in Nat /\ restored[c] \in Nat /\ completed[c] \in Nat
           /\ Budget(restored[c]) \in Nat /\ Budget(restored[c] + 1) \in Nat
           /\ Budget(restored[c] + 1) = Budget(restored[c]) + SmsMaxAttempts + Cardinality(Request) - 1
           /\ SmsMaxAttempts \in Nat /\ Cardinality(Request) \in Nat
<1>1. /\ IsFiniteSet(Flying(c)) /\ IsFiniteSet(Checking(c))
      /\ Cardinality(Flying(c)) \in Nat /\ Cardinality(Checking(c)) \in Nat
  BY AccountsAssumption, SmsAssumption, FS_Subset, FS_CardinalityType DEF Flying, Checking
<1>2. guesses[c] \in Nat /\ restored[c] \in Nat /\ completed[c] \in Nat
  BY DEF SmsTypes
<1>3. restored[c] + 1 \in Nat
  BY <1>2
<1> QED
  BY <1>1, <1>2, <1>3, BudgetGrows, Requests, AccountsAssumption, SmsAssumption

\* The count of a set after one request has turned.
LEMMA OneTurns ==
    ASSUME NEW S, IsFiniteSet(S), NEW T, NEW r, NEW before, NEW after,
           before \in BOOLEAN, after \in BOOLEAN, r \in S <=> before,
           T = IF after THEN S \cup {r} ELSE S \ {r}
    PROVE  Cardinality(T) = Cardinality(S) + One(after) - One(before)
<1>1. Cardinality(S) \in Nat
  BY FS_CardinalityType
<1>2. CASE after
  <2>1. Cardinality(S \cup {r}) = IF r \in S THEN Cardinality(S) ELSE Cardinality(S) + 1
    BY FS_AddElement
  <2> QED
    BY <1>1, <1>2, <2>1 DEF One
<1>3. CASE ~after
  <2>1. Cardinality(S \ {r}) = IF r \in S THEN Cardinality(S) - 1 ELSE Cardinality(S)
    BY FS_RemoveElement
  <2> QED
    BY <1>1, <1>3, <2>1 DEF One
<1> QED
  BY <1>2, <1>3

\* The codes in flight after a request has turned.
LEMMA FlyingTurn ==
    ASSUME SmsTypes, NEW r \in Request, NEW w, Turns(r, w), NEW c \in MfaSms!Challenge
    PROVE  /\ Cardinality(Flying(c)')
                = Cardinality(Flying(c)) + One(Flies(w, c)) - One(Flies(msWork[r], c))
           /\ Cardinality(Checking(c)')
                = Cardinality(Checking(c)) + One(Checks(w, c)) - One(Checks(msWork[r], c))
<1>1. msWork'[r] = w /\ \A q \in Request \ {r} : msWork'[q] = msWork[q]
  BY TurnedTo
<1>2. /\ Flying(c)' = IF Flies(w, c) THEN Flying(c) \cup {r} ELSE Flying(c) \ {r}
      /\ Checking(c)' = IF Checks(w, c) THEN Checking(c) \cup {r} ELSE Checking(c) \ {r}
  BY <1>1 DEF Flying, Checking, Flies, Checks
<1>3. PICK S, T : S = Flying(c)' /\ T = Checking(c)'
  OBVIOUS
<1>4. (r \in Flying(c) <=> Flies(msWork[r], c)) /\ (r \in Checking(c) <=> Checks(msWork[r], c))
  BY DEF Flying, Checking
<1>5. /\ Flies(w, c) \in BOOLEAN /\ Flies(msWork[r], c) \in BOOLEAN
      /\ Checks(w, c) \in BOOLEAN /\ Checks(msWork[r], c) \in BOOLEAN
  BY DEF Flies, Checks
<1>6. IsFiniteSet(Flying(c)) /\ IsFiniteSet(Checking(c))
  BY Counts
<1>7. Cardinality(S) = Cardinality(Flying(c)) + One(Flies(w, c)) - One(Flies(msWork[r], c))
  BY <1>2, <1>3, <1>4, <1>5, <1>6, OneTurns
<1>8. Cardinality(T) = Cardinality(Checking(c)) + One(Checks(w, c)) - One(Checks(msWork[r], c))
  BY <1>2, <1>3, <1>4, <1>5, <1>6, OneTurns
<1> QED
  BY <1>3, <1>7, <1>8

\* A request ends: no code is in flight with it any more.
LEMMA FlyingEnds ==
    ASSUME SmsTypes, NEW r \in Request, Turns(r, None), NEW c \in MfaSms!Challenge
    PROVE  /\ Cardinality(Flying(c)') = Cardinality(Flying(c)) - One(Flies(msWork[r], c))
           /\ Cardinality(Checking(c)') = Cardinality(Checking(c)) - One(Checks(msWork[r], c))
<1>1. PICK w : w = None
  OBVIOUS
<1>2. One(Flies(w, c)) = 0 /\ One(Checks(w, c)) = 0
  BY <1>1 DEF One, Flies, Checks
<1>3. One(Flies(msWork[r], c)) \in Nat /\ One(Checks(msWork[r], c)) \in Nat
  BY DEF One
<1>4. Turns(r, w)
  BY <1>1
<1> QED
  BY <1>2, <1>3, <1>4, FlyingTurn, Counts

\* What GuessesCounted says of one challenge.
Counted(c) ==
    /\ guesses[c] + Cardinality(Checking(c)) <= Budget(restored[c] + 1)
    /\ sms # None /\ sms.id = c /\ sms.failed < SmsMaxAttempts =>
           guesses[c] + Cardinality(Checking(c))
              <= Budget(restored[c]) + sms.failed + Cardinality(Flying(c))

\* No more codes are in flight than there are requests.
LEMMA AllCounted ==
    ASSUME \A c \in MfaSms!Challenge : Counted(c)' PROVE GuessesCounted'
BY DEF Counted, GuessesCounted, MfaSms!Challenge

\* The record keeps its challenge and its failures, or has no challenge left.
SameLife ==
    \/ sms' = None \/ sms'.id = None
    \/ sms # None /\ sms'.id = sms.id /\ sms'.failed = sms.failed

\* A step that neither tries a code nor begins a life.
LEMMA QuietGuesses ==
    ASSUME SmsTypes, GuessesCounted, SameLife, UNCHANGED <<guesses, restored>>,
           \/ UNCHANGED msWork
           \/ \E r \in Request : \E w :
                /\ Turns(r, w)
                /\ w = None \/ w.pc \notin {"check", "record", "complete"}
                /\ \/ msWork[r] = None
                   \/ msWork[r].pc \notin {"check", "record", "complete"}
    PROVE  GuessesCounted'
<1>1. ASSUME NEW c \in MfaSms!Challenge PROVE Counted(c)'
  <2>1. /\ Cardinality(Flying(c)') = Cardinality(Flying(c))
        /\ Cardinality(Checking(c)') = Cardinality(Checking(c))
    <3>1. CASE UNCHANGED msWork
      BY <3>1 DEF Flying, Checking, Flies, Checks
    <3>2. CASE \E r \in Request : \E w :
                /\ Turns(r, w)
                /\ w = None \/ w.pc \notin {"check", "record", "complete"}
                /\ \/ msWork[r] = None
                   \/ msWork[r].pc \notin {"check", "record", "complete"}
      <4>0. PICK r \in Request : \E w :
                /\ Turns(r, w)
                /\ w = None \/ w.pc \notin {"check", "record", "complete"}
                /\ \/ msWork[r] = None
                   \/ msWork[r].pc \notin {"check", "record", "complete"}
        BY <3>2
      <4>1. PICK w :
                /\ Turns(r, w)
                /\ w = None \/ w.pc \notin {"check", "record", "complete"}
                /\ \/ msWork[r] = None
                   \/ msWork[r].pc \notin {"check", "record", "complete"}
        BY <4>0
      <4>2. /\ One(Flies(w, c)) = 0 /\ One(Flies(msWork[r], c)) = 0
            /\ One(Checks(w, c)) = 0 /\ One(Checks(msWork[r], c)) = 0
        BY <4>1 DEF One, Flies, Checks
      <4> QED
        BY <4>1, <4>2, FlyingTurn, Counts
    <3> QED
      BY <3>1, <3>2
  <2>2. guesses'[c] + Cardinality(Checking(c)') <= Budget(restored'[c] + 1)
    BY <2>1 DEF GuessesCounted
  <2>3. ASSUME sms' # None, sms'.id = c, sms'.failed < SmsMaxAttempts
        PROVE  guesses'[c] + Cardinality(Checking(c)')
                  <= Budget(restored'[c]) + sms'.failed + Cardinality(Flying(c)')
    <3>1. c # None
      BY AccountsAssumption, SmsAssumption DEF MfaSms!Challenge
    <3>2. sms # None /\ sms.id = c /\ sms'.failed = sms.failed
      BY <2>3, <3>1 DEF SameLife
    <3> QED
      BY <2>1, <2>3, <3>2 DEF GuessesCounted
  <2> QED
    BY <2>2, <2>3 DEF Counted
<1> QED
  BY <1>1, AllCounted

\* Every step keeps the count of the guesses.
LEMMA GuessesNext ==
    ASSUME SmsTypes, ChallengesKnown, Fresh, GuessesCounted, [MfaSms!Next]_msVars
    PROVE  GuessesCounted'
<1>e. ASSUME NEW r \in Request, msWork[r] # None, MfaSms!Ends(r),
             msWork[r].pc \notin {"check", "record", "complete"},
             SameLife, UNCHANGED <<guesses, restored>>
      PROVE  GuessesCounted'
  BY <1>e, QuietGuesses DEF MfaSms!Ends, Turns
<1>o. ASSUME NEW r \in Request, msWork[r] # None,
             msWork[r].pc \notin {"check", "record", "complete", "budget", "claim"},
             NEW pc \in {"start", "finalize", "deliver", "rollback", "promote"}, MfaSms!On(r, pc),
             SameLife, UNCHANGED <<guesses, restored>>
      PROVE  GuessesCounted'
  <2>1. PICK w \in MfaSms!Work : Turns(r, w) /\ w.pc = pc
    BY <1>o, TurnsOn
  <2> QED
    BY <1>o, <2>1, QuietGuesses
<1>s. sms # None => sms \in MfaSms!Sms
  BY DEF SmsTypes
<1>1. ASSUME NEW r \in Request, MfaSms!SendSms(r) PROVE GuessesCounted'
  <2>0. PICK pc \in {"budget", "claim"} : MfaSms!Begins(r, pc, None, sms)
    BY <1>1 DEF MfaSms!SendSms
  <2>1. PICK w : w = [pc |-> pc, challenge |-> None, previous |-> sms]
    OBVIOUS
  <2>2. msWork[r] = None /\ Turns(r, w) /\ UNCHANGED <<sms, guesses, restored>>
    BY <1>1, <2>0, <2>1 DEF MfaSms!SendSms, MfaSms!Begins, Turns, MfaSms!histories
  <2> QED
    BY <2>1, <2>2, QuietGuesses DEF SameLife
<1>2. ASSUME MfaSms!DeliveryWindowEnds \/ UNCHANGED msVars PROVE GuessesCounted'
  BY <1>2, QuietGuesses DEF MfaSms!DeliveryWindowEnds, MfaSms!histories, msVars, SameLife
<1>3. ASSUME NEW r \in Request, MfaSms!ClaimSms(r) PROVE GuessesCounted'
  <2>0. msWork[r] # None /\ msWork[r].pc = "claim" /\ UNCHANGED <<guesses, restored>>
    BY <1>3 DEF MfaSms!ClaimSms, MfaSms!At, MfaSms!histories
  <2>1. CASE MfaSms!Ends(r) /\ UNCHANGED sms
    BY <1>e, <2>0, <2>1 DEF SameLife
  <2>2. CASE /\ sms' = [id |-> nextChallenge, ready |-> FALSE, failed |-> 0, cooled |-> FALSE]
             /\ msWork' = [msWork EXCEPT ![r].challenge = nextChallenge,
                             ![r].pc = IF sender = "provider" THEN "start" ELSE "finalize"]
    <3>1. PICK pc \in {"start", "finalize"} :
              msWork' = [msWork EXCEPT ![r].challenge = nextChallenge, ![r].pc = pc]
      BY <2>2
    <3>2. PICK w : w = [msWork[r] EXCEPT !.challenge = nextChallenge, !.pc = pc]
      OBVIOUS
    <3>3. Turns(r, w)
      BY <3>1, <3>2 DEF Turns, SmsTypes
    <3>4. w.pc = pc
      BY <2>0, <3>2, SmsWork DEF MfaSms!Work
    <3>5. ASSUME NEW c \in MfaSms!Challenge PROVE Counted(c)'
      <4>1. /\ One(Flies(w, c)) = 0 /\ One(Flies(msWork[r], c)) = 0
            /\ One(Checks(w, c)) = 0 /\ One(Checks(msWork[r], c)) = 0
        BY <2>0, <3>4 DEF One, Flies, Checks
      <4>2. /\ Cardinality(Flying(c)') = Cardinality(Flying(c))
            /\ Cardinality(Checking(c)') = Cardinality(Checking(c))
        BY <3>3, <4>1, FlyingTurn, Counts
      <4>3. ASSUME c = nextChallenge PROVE guesses[c] = 0 /\ Cardinality(Checking(c)) = 0
        <5>1. c \in Nat
          BY AccountsAssumption, SmsAssumption DEF MfaSms!Challenge
        <5>2. guesses[c] = 0
          BY <4>3, <5>1 DEF Fresh
        <5>3. Checking(c) = {}
          BY <4>3, <5>1 DEF Checking, Checks, ChallengesKnown, KnowsChallenge
        <5> QED
          BY <5>2, <5>3, FS_EmptySet
      <4>4. sms'.id = nextChallenge /\ sms'.failed = 0
        BY <2>2
      <4>5. guesses[c] + Cardinality(Checking(c)) <= Budget(restored[c] + 1)
        BY DEF GuessesCounted
      <4>6. c = nextChallenge => guesses[c] + Cardinality(Checking(c))
                <= Budget(restored[c]) + 0 + Cardinality(Flying(c))
        BY <4>3, Counts
      <4> QED
        BY <2>0, <4>2, <4>4, <4>5, <4>6 DEF Counted
    <3> QED
      BY <3>5, AllCounted
  <2> QED
    BY <1>3, <2>1, <2>2 DEF MfaSms!ClaimSms
<1>4. ASSUME NEW r \in Request, MfaSms!StartProvider(r) \/ MfaSms!Deliver(r) \/ MfaSms!Finalize(r)
      PROVE  GuessesCounted'
  <2>1. /\ msWork[r] # None /\ msWork[r].pc \notin {"check", "record", "complete", "budget", "claim"}
        /\ UNCHANGED <<guesses, restored>>
        /\ \/ MfaSms!Ends(r) \/ MfaSms!On(r, "finalize") \/ MfaSms!On(r, "rollback")
           \/ MfaSms!On(r, "deliver")
    BY <1>4 DEF MfaSms!StartProvider, MfaSms!Deliver, MfaSms!Finalize, MfaSms!At, MfaSms!histories
  <2>2. UNCHANGED sms \/ (sms # None /\ sms' = [sms EXCEPT !.ready = TRUE])
    BY <1>4 DEF MfaSms!StartProvider, MfaSms!Deliver, MfaSms!Finalize, MfaSms!Current
  <2>3. SameLife
    BY <1>s, <2>2 DEF SameLife, MfaSms!Sms
  <2> QED
    BY <1>e, <1>o, <2>1, <2>3
<1>5. ASSUME NEW r \in Request, MfaSms!Rollback(r) PROVE GuessesCounted'
  <2>0. /\ msWork[r] # None /\ msWork[r].pc = "rollback" /\ MfaSms!Ends(r) /\ UNCHANGED guesses
    BY <1>5 DEF MfaSms!Rollback, MfaSms!At
  <2>1. PICK previous : previous = msWork[r].previous
    OBVIOUS
  <2>2. CASE UNCHANGED <<sms, restored>>
    BY <1>e, <2>0, <2>2 DEF SameLife
  <2>3. CASE sms' = previous /\ (previous = None \/ previous.id = None) /\ UNCHANGED restored
    BY <1>e, <2>0, <2>3 DEF SameLife
  <2>4. CASE /\ sms' = previous /\ previous # None /\ previous.id # None
             /\ restored' = [restored EXCEPT ![previous.id] = @ + 1]
    <3>1. previous \in MfaSms!Sms
      BY <2>0, <2>1, <2>4, SmsWork DEF MfaSms!Work
    <3>2. PICK d \in MfaSms!Challenge : d = previous.id
      BY <2>4, <3>1 DEF MfaSms!Sms
    <3>3. /\ restored'[d] = restored[d] + 1
          /\ \A c \in MfaSms!Challenge \ {d} : restored'[c] = restored[c]
      BY <2>4, <3>2 DEF SmsTypes
    <3>4. previous.failed \in Nat
      BY <3>1, AccountsAssumption, SmsAssumption DEF MfaSms!Sms
    <3>5. ASSUME NEW c \in MfaSms!Challenge PROVE Counted(c)'
      <4>1. Turns(r, None)
        BY <2>0 DEF MfaSms!Ends, Turns
      <4>2. One(Flies(msWork[r], c)) = 0 /\ One(Checks(msWork[r], c)) = 0
        BY <2>0 DEF One, Flies, Checks
      <4>3. /\ Cardinality(Flying(c)') = Cardinality(Flying(c))
            /\ Cardinality(Checking(c)') = Cardinality(Checking(c))
        BY <4>1, <4>2, FlyingEnds, Counts
      <4>4. guesses[c] + Cardinality(Checking(c)) <= Budget(restored[c] + 1)
        BY DEF GuessesCounted
      <4>5. CASE c = d
        <5>1. Budget(restored[c] + 1) \in Nat /\ Budget(restored[c] + 1) <= Budget(restored[c] + 2)
          <6>1. restored[c] + 1 \in Nat /\ (restored[c] + 1) + 1 = restored[c] + 2
            BY Counts
          <6> QED
            BY <6>1, BudgetGrows
        <5>2. Budget(restored[c] + 2) \in Nat
          <6>1. restored[c] + 2 \in Nat
            BY Counts
          <6> QED
            BY <6>1, BudgetGrows
        <5>3. restored'[c] = restored[c] + 1 /\ restored'[c] + 1 = restored[c] + 2
          BY <3>3, <4>5, Counts
        <5>4. guesses'[c] + Cardinality(Checking(c)') <= Budget(restored'[c] + 1)
          BY <2>0, <4>3, <4>4, <5>1, <5>2, <5>3, Counts
        <5>5. guesses'[c] + Cardinality(Checking(c)')
                  <= Budget(restored'[c]) + previous.failed + Cardinality(Flying(c)')
          BY <2>0, <3>4, <4>3, <4>4, <5>1, <5>3, Counts
        <5> QED
          BY <2>4, <5>4, <5>5 DEF Counted
      <4>6. CASE c # d
        BY <2>0, <2>4, <3>2, <3>3, <4>3, <4>4, <4>6 DEF Counted
      <4> QED
        BY <4>5, <4>6
    <3> QED
      BY <3>5, AllCounted
  <2> QED
    BY <1>5, <2>1, <2>2, <2>3, <2>4 DEF MfaSms!Rollback, MfaSms!Restored
<1>6. ASSUME MfaSms!CooldownEnds \/ MfaSms!CodeExpires PROVE GuessesCounted'
  <2>1. /\ sms # None /\ UNCHANGED <<msWork, guesses, restored>>
        /\ sms' = [sms EXCEPT !.cooled = TRUE] \/ sms' = [sms EXCEPT !.ready = FALSE]
    BY <1>6 DEF MfaSms!CooldownEnds, MfaSms!CodeExpires, MfaSms!histories
  <2>2. SameLife
    BY <1>s, <2>1 DEF SameLife, MfaSms!Sms
  <2> QED
    BY <2>1, <2>2, QuietGuesses
\* A code is about to be tried: there are failures left, and this request was free.
<1>7. ASSUME NEW r \in Request, MfaSms!VerifySms(r) PROVE GuessesCounted'
  <2>1. PICK w : w = [pc |-> "check", challenge |-> sms.id, previous |-> None]
    OBVIOUS
  <2>2. /\ msWork[r] = None /\ Turns(r, w) /\ UNCHANGED <<sms, guesses, restored>>
        /\ sms # None /\ sms.failed < SmsMaxAttempts
    BY <1>7, <2>1 DEF MfaSms!VerifySms, MfaSms!Begins, Turns, MfaSms!histories
  <2>3. sms.failed \in Nat
    BY <1>s, <2>2, AccountsAssumption, SmsAssumption DEF MfaSms!Sms
  <2>n. w # None => w.pc = "check" /\ w.challenge = sms.id
    BY <2>1
  <2>4. ASSUME NEW c \in MfaSms!Challenge PROVE Counted(c)'
    <3>1. /\ One(Flies(msWork[r], c)) = 0 /\ One(Checks(msWork[r], c)) = 0
          /\ One(Flies(w, c)) = One(Checks(w, c)) /\ One(Flies(w, c)) \in {0, 1}
          /\ c # sms.id => One(Flies(w, c)) = 0
      BY <2>2, <2>n DEF One, Flies, Checks
    <3>2. /\ Cardinality(Flying(c)') = Cardinality(Flying(c)) + One(Flies(w, c))
          /\ Cardinality(Checking(c)') = Cardinality(Checking(c)) + One(Flies(w, c))
      BY <2>2, <3>1, FlyingTurn, Counts
    <3>3. CASE c # sms.id
      <4>1. /\ Cardinality(Flying(c)') = Cardinality(Flying(c))
            /\ Cardinality(Checking(c)') = Cardinality(Checking(c))
        BY <3>1, <3>2, <3>3, Counts
      <4> QED
        BY <2>2, <3>3, <4>1 DEF GuessesCounted, Counted
    <3>4. CASE c = sms.id
      <4>1. Cardinality(Flying(c)) <= Cardinality(Request) - 1
        <5>1. Flying(c) \subseteq Request \ {r}
          BY <2>2 DEF Flying, Flies
        <5>2. /\ IsFiniteSet(Request \ {r})
              /\ Cardinality(Request \ {r}) = Cardinality(Request) - 1
          BY AccountsAssumption, SmsAssumption, FS_RemoveElement
        <5> QED
          BY <5>1, <5>2, FS_Subset
      <4>2. guesses[c] + Cardinality(Checking(c))
                <= Budget(restored[c]) + sms.failed + Cardinality(Flying(c))
        BY <2>2, <3>4 DEF GuessesCounted
      <4>3. guesses'[c] + Cardinality(Checking(c)') <= Budget(restored'[c] + 1)
        BY <2>2, <2>3, <3>1, <3>2, <4>1, <4>2, Counts
      <4>4. guesses'[c] + Cardinality(Checking(c)')
                <= Budget(restored'[c]) + sms'.failed + Cardinality(Flying(c)')
        BY <2>2, <2>3, <3>1, <3>2, <4>2, Counts
      <4> QED
        BY <4>3, <4>4 DEF Counted
    <3> QED
      BY <3>3, <3>4
  <2> QED
    BY <2>4, AllCounted
\* It is tried: one that was checking has guessed.
<1>8. ASSUME NEW r \in Request, MfaSms!CheckSms(r) PROVE GuessesCounted'
  <2>1. /\ msWork[r] # None /\ msWork[r].pc = "check" /\ UNCHANGED <<sms, restored>>
    BY <1>8 DEF MfaSms!CheckSms, MfaSms!At
  <2>2. PICK d \in MfaSms!Challenge : d = msWork[r].challenge
    BY <2>1, SmsWork DEF KnowsChallenge
  <2>3. \/ /\ MfaSms!On(r, "record") \/ MfaSms!On(r, "complete")
           /\ guesses' = [guesses EXCEPT ![d] = @ + 1]
        \/ MfaSms!Ends(r) /\ UNCHANGED guesses
    BY <1>8, <2>2 DEF MfaSms!CheckSms
  <2>4. CASE /\ MfaSms!On(r, "record") \/ MfaSms!On(r, "complete")
             /\ guesses' = [guesses EXCEPT ![d] = @ + 1]
    <3>1. PICK w \in MfaSms!Work :
              Turns(r, w) /\ w.pc \in {"record", "complete"} /\ w.challenge = d
      BY <2>1, <2>2, <2>4, TurnsOn
    <3>2. w # None \/ w = None
      OBVIOUS
    <3>3. ASSUME NEW c \in MfaSms!Challenge PROVE Counted(c)'
      <4>1. /\ One(Checks(w, c)) = 0 /\ One(Checks(msWork[r], c)) = One(c = d)
            /\ One(Flies(msWork[r], c)) = One(c = d) /\ One(Flies(w, c)) = One(c = d)
        BY <2>1, <2>2, <3>1, AccountsAssumption, SmsAssumption DEF One, Flies, Checks
      <4>2. /\ Cardinality(Flying(c)') = Cardinality(Flying(c))
            /\ Cardinality(Checking(c)') = Cardinality(Checking(c)) - One(c = d)
        BY <3>1, <4>1, FlyingTurn, Counts DEF One
      <4>3. guesses'[c] = guesses[c] + One(c = d)
        BY <2>4 DEF SmsTypes, One
      <4>4. guesses'[c] + Cardinality(Checking(c)') = guesses[c] + Cardinality(Checking(c))
        BY <4>2, <4>3, Counts DEF One
      <4> QED
        BY <2>1, <4>2, <4>4 DEF GuessesCounted, Counted
    <3> QED
      BY <3>3, AllCounted
  <2>5. CASE MfaSms!Ends(r) /\ UNCHANGED guesses
    <3>1. Turns(r, None)
      BY <2>5 DEF MfaSms!Ends, Turns
    <3>3. ASSUME NEW c \in MfaSms!Challenge PROVE Counted(c)'
      <4>1. /\ One(Checks(msWork[r], c)) = One(c = d)
            /\ One(Flies(msWork[r], c)) = One(c = d)
        BY <2>1, <2>2 DEF One, Flies, Checks
      <4>2. /\ Cardinality(Flying(c)') = Cardinality(Flying(c)) - One(c = d)
            /\ Cardinality(Checking(c)') = Cardinality(Checking(c)) - One(c = d)
        BY <3>1, <4>1, FlyingEnds
      <4>3. One(c = d) \in {0, 1}
        BY DEF One
      <4>4. guesses'[c] + Cardinality(Checking(c)') <= Budget(restored'[c] + 1)
        BY <2>1, <2>5, <4>2, <4>3, Counts DEF GuessesCounted
      <4>5. ASSUME sms' # None, sms'.id = c, sms'.failed < SmsMaxAttempts
            PROVE  guesses'[c] + Cardinality(Checking(c)')
                      <= Budget(restored'[c]) + sms'.failed + Cardinality(Flying(c)')
        <5>1. sms.failed \in Nat
          BY <1>s, <2>1, <4>5, AccountsAssumption, SmsAssumption DEF MfaSms!Sms
        <5>2. guesses[c] + Cardinality(Checking(c))
                  <= Budget(restored[c]) + sms.failed + Cardinality(Flying(c))
          BY <2>1, <4>5 DEF GuessesCounted
        <5> QED
          BY <2>1, <2>5, <4>2, <4>3, <5>1, <5>2, Counts
      <4> QED
        BY <4>4, <4>5 DEF Counted
    <3> QED
      BY <3>3, AllCounted
  <2> QED
    BY <2>3, <2>4, <2>5
\* The failure is counted, or the record has none left or another challenge.
<1>9. ASSUME NEW r \in Request, MfaSms!RecordFailure(r) PROVE GuessesCounted'
  <2>1. /\ msWork[r] # None /\ msWork[r].pc = "record" /\ UNCHANGED <<guesses, restored>>
        /\ Turns(r, None)
    BY <1>9 DEF MfaSms!RecordFailure, MfaSms!At, MfaSms!histories, MfaSms!Ends, Turns
  <2>2. PICK d : d = msWork[r].challenge
    OBVIOUS
  <2>3. IF sms # None /\ sms.id = d /\ sms.failed < SmsMaxAttempts
        THEN sms' = [sms EXCEPT !.failed = @ + 1] ELSE sms' = sms
    BY <1>9, <2>2 DEF MfaSms!RecordFailure, MfaSms!Current, MfaSms!Failed
  <2>4. ASSUME NEW c \in MfaSms!Challenge PROVE Counted(c)'
    <3>1. One(Checks(msWork[r], c)) = 0 /\ One(Flies(msWork[r], c)) = One(c = d)
      BY <2>1, <2>2 DEF One, Flies, Checks
    <3>2. /\ Cardinality(Flying(c)') = Cardinality(Flying(c)) - One(c = d)
          /\ Cardinality(Checking(c)') = Cardinality(Checking(c))
      BY <2>1, <3>1, FlyingEnds, Counts
    <3>3. guesses'[c] + Cardinality(Checking(c)') <= Budget(restored'[c] + 1)
      BY <2>1, <3>2 DEF GuessesCounted
    <3>4. ASSUME sms' # None, sms'.id = c, sms'.failed < SmsMaxAttempts
          PROVE  guesses'[c] + Cardinality(Checking(c)')
                    <= Budget(restored'[c]) + sms'.failed + Cardinality(Flying(c)')
      <4>1. CASE sms # None /\ sms.id = d /\ sms.failed < SmsMaxAttempts
        <5>1. sms \in MfaSms!Sms /\ sms' = [sms EXCEPT !.failed = @ + 1]
          BY <1>s, <2>3, <4>1
        <5>2. sms.failed \in Nat /\ sms'.failed = sms.failed + 1 /\ sms'.id = sms.id
          BY <5>1, AccountsAssumption, SmsAssumption DEF MfaSms!Sms
        <5>3. guesses[c] + Cardinality(Checking(c))
                  <= Budget(restored[c]) + sms.failed + Cardinality(Flying(c))
          BY <3>4, <4>1, <5>2 DEF GuessesCounted
        <5>4. Cardinality(Flying(c)') = Cardinality(Flying(c)) - 1
          BY <3>2, <3>4, <4>1, <5>2 DEF One
        <5> QED
          BY <2>1, <3>2, <5>2, <5>3, <5>4, Counts
      <4>2. CASE ~(sms # None /\ sms.id = d /\ sms.failed < SmsMaxAttempts)
        <5>1. sms' = sms /\ c # d
          BY <2>3, <3>4, <4>2
        <5>2. Cardinality(Flying(c)') = Cardinality(Flying(c))
          BY <3>2, <5>1, Counts DEF One
        <5> QED
          BY <2>1, <3>2, <3>4, <5>1, <5>2 DEF GuessesCounted
      <4> QED
        BY <4>1, <4>2
    <3> QED
      BY <3>3, <3>4 DEF Counted
  <2> QED
    BY <2>4, AllCounted
<1>10. ASSUME NEW r \in Request, MfaSms!CompleteSms(r) PROVE GuessesCounted'
  <2>0. /\ msWork[r] # None /\ msWork[r].pc = "complete" /\ UNCHANGED <<guesses, restored>>
        /\ MfaSms!Ends(r) \/ MfaSms!On(r, "enrolled")
    BY <1>10 DEF MfaSms!CompleteSms, MfaSms!At
  <2>1. PICK w : Turns(r, w) /\ (w = None \/ w.pc = "enrolled")
    <3>1. CASE MfaSms!Ends(r)
      BY <3>1 DEF MfaSms!Ends, Turns
    <3>2. CASE MfaSms!On(r, "enrolled")
      BY <2>0, <3>2, TurnsOn
    <3> QED
      BY <2>0, <3>1, <3>2
  <2>2. PICK d : d = msWork[r].challenge
    OBVIOUS
  <2>3. IF sms # None /\ sms.id = d
        THEN sms' = [sms EXCEPT !.id = None, !.ready = FALSE, !.failed = 0] ELSE sms' = sms
    BY <1>10, <2>2 DEF MfaSms!CompleteSms, MfaSms!Current, MfaSms!Cleared
  <2>4. ASSUME NEW c \in MfaSms!Challenge PROVE Counted(c)'
    <3>1. /\ One(Checks(msWork[r], c)) = 0 /\ One(Flies(msWork[r], c)) = One(c = d)
          /\ One(Checks(w, c)) = 0 /\ One(Flies(w, c)) = 0
      BY <2>0, <2>1, <2>2 DEF One, Flies, Checks
    <3>2. /\ Cardinality(Flying(c)') = Cardinality(Flying(c)) - One(c = d)
          /\ Cardinality(Checking(c)') = Cardinality(Checking(c))
      BY <2>1, <3>1, FlyingTurn, Counts DEF One
    <3>3. guesses'[c] + Cardinality(Checking(c)') <= Budget(restored'[c] + 1)
      BY <2>0, <3>2 DEF GuessesCounted
    <3>4. ASSUME sms' # None, sms'.id = c, sms'.failed < SmsMaxAttempts
          PROVE  guesses'[c] + Cardinality(Checking(c)')
                    <= Budget(restored'[c]) + sms'.failed + Cardinality(Flying(c)')
      <4>0. c # None
        BY AccountsAssumption, SmsAssumption DEF MfaSms!Challenge
      <4>1. ~(sms # None /\ sms.id = d)
        BY <1>s, <2>3, <3>4, <4>0 DEF MfaSms!Sms
      <4>2. sms' = sms /\ c # d
        BY <2>3, <3>4, <4>1
      <4>3. Cardinality(Flying(c)') = Cardinality(Flying(c))
        BY <3>2, <4>2, Counts DEF One
      <4> QED
        BY <2>0, <3>2, <3>4, <4>2, <4>3 DEF GuessesCounted
    <3> QED
      BY <3>3, <3>4 DEF Counted
  <2> QED
    BY <2>4, AllCounted
<1>11. ASSUME NEW r \in Request, MfaSms!CountDelivery(r) PROVE GuessesCounted'
  <2>1. /\ msWork[r] # None /\ msWork[r].pc = "budget" /\ UNCHANGED <<sms, guesses, restored>>
        /\ MfaSms!Ends(r) \/ MfaSms!On(r, "claim")
    BY <1>11 DEF MfaSms!CountDelivery, MfaSms!At, MfaSms!histories
  <2>2. SameLife
    BY <2>1 DEF SameLife
  <2>3. CASE MfaSms!Ends(r)
    BY <1>e, <2>1, <2>2, <2>3
  <2>4. CASE MfaSms!On(r, "claim")
    <3>1. PICK w \in MfaSms!Work : Turns(r, w) /\ w.pc = "claim"
      BY <2>1, <2>4, GoesToClaim
    <3> QED
      BY <2>1, <2>2, <3>1, QuietGuesses
  <2> QED
    BY <2>1, <2>3, <2>4
<1>12. ASSUME NEW r \in Request, MfaSms!StillEnrolled(r) \/ MfaSms!PromoteSms(r)
       PROVE  GuessesCounted'
  <2>1. /\ msWork[r] # None /\ msWork[r].pc \in {"enrolled", "promote"}
        /\ UNCHANGED <<sms, guesses, restored>>
        /\ (MfaSms!Ends(r) \/ MfaSms!On(r, "promote"))
    BY <1>12 DEF MfaSms!StillEnrolled, MfaSms!PromoteSms, MfaSms!At, MfaSms!histories
  <2>2. SameLife
    BY <2>1 DEF SameLife
  <2> QED
    BY <1>e, <1>o, <2>1, <2>2
<1>13. ASSUME MfaSms!RemoveEnrollment PROVE GuessesCounted'
  BY <1>13, QuietGuesses DEF MfaSms!RemoveEnrollment, MfaSms!histories, SameLife
<1> QED
  BY <1>1, <1>2, <1>3, <1>4, <1>5, <1>6, <1>7, <1>8, <1>9, <1>10, <1>11, <1>12, <1>13
     DEF MfaSms!Next

\* A challenge is completed only while it is current, and brought back with a life more.
LEMMA CompletedNext ==
    ASSUME SmsTypes, ChallengesKnown, Fresh, CompletedBefore, [MfaSms!Next]_msVars
    PROVE  CompletedBefore'
<1> DEFINE Goal == CompletedBefore'
<1>t. /\ restored \in [MfaSms!Challenge -> Nat] /\ completed \in [MfaSms!Challenge -> Nat]
      /\ sms # None => sms \in MfaSms!Sms
  BY DEF SmsTypes
<1>n. None \notin MfaSms!Challenge
  BY AccountsAssumption, SmsAssumption DEF MfaSms!Challenge
<1>q. ASSUME UNCHANGED <<restored, completed>>,
             \/ sms' = None \/ sms'.id = None
             \/ sms # None /\ sms'.id = sms.id
      PROVE  Goal
  BY <1>q, <1>n DEF CompletedBefore, MfaSms!Challenge
<1>1. ASSUME NEW r \in Request, MfaSms!ClaimSms(r) PROVE Goal
  <2>1. CASE UNCHANGED sms
    BY <1>1, <1>q, <2>1 DEF MfaSms!ClaimSms, MfaSms!histories
  <2>2. CASE sms' = [id |-> nextChallenge, ready |-> FALSE, failed |-> 0, cooled |-> FALSE]
    <3>1. UNCHANGED <<restored, completed>>
      BY <1>1 DEF MfaSms!ClaimSms, MfaSms!histories
    <3>2. ASSUME NEW c \in MfaSms!Challenge, c = nextChallenge PROVE completed[c] = 0
      BY <3>2 DEF Fresh, MfaSms!Challenge
    <3>3. \A c \in MfaSms!Challenge : restored[c] \in Nat
      BY <1>t
    <3> QED
      BY <2>2, <3>1, <3>2, <3>3 DEF CompletedBefore, MfaSms!Challenge
  <2> QED
    BY <1>1, <2>1, <2>2 DEF MfaSms!ClaimSms
<1>2. ASSUME NEW r \in Request, MfaSms!Rollback(r) PROVE Goal
  <2>1. PICK previous : previous = msWork[r].previous
    OBVIOUS
  <2>2. UNCHANGED completed
    BY <1>2 DEF MfaSms!Rollback
  <2>3. CASE UNCHANGED <<sms, restored>>
    BY <1>q, <2>2, <2>3
  <2>4. CASE sms' = previous /\ (previous = None \/ previous.id = None) /\ UNCHANGED restored
    BY <1>q, <2>2, <2>4
  <2>5. CASE /\ sms' = previous /\ previous # None /\ previous.id # None
             /\ restored' = [restored EXCEPT ![previous.id] = @ + 1]
    <3>1. previous \in MfaSms!Sms
      BY <1>2, <2>1, <2>5, SmsWork DEF MfaSms!Rollback, MfaSms!At, MfaSms!Work
    <3>2. PICK d \in MfaSms!Challenge : d = previous.id
      BY <2>5, <3>1 DEF MfaSms!Sms
    <3>3. ASSUME NEW c \in MfaSms!Challenge
          PROVE  /\ completed'[c] <= restored'[c] + 1
                 /\ c = d => completed'[c] <= restored'[c]
      <4>1. completed[c] \in Nat /\ restored[c] \in Nat /\ completed[c] <= restored[c] + 1
        BY <1>t DEF CompletedBefore
      <4>2. restored'[c] = IF c = d THEN restored[c] + 1 ELSE restored[c]
        BY <1>t, <2>5, <3>2
      <4> QED
        BY <2>2, <4>1, <4>2
    <3> QED
      BY <2>5, <3>2, <3>3 DEF CompletedBefore, MfaSms!Challenge
  <2> QED
    BY <1>2, <2>1, <2>3, <2>4, <2>5 DEF MfaSms!Rollback, MfaSms!Restored
<1>3. ASSUME NEW r \in Request, MfaSms!CompleteSms(r) PROVE Goal
  <2>1. UNCHANGED restored
    BY <1>3 DEF MfaSms!CompleteSms
  <2>2. PICK d : d = msWork[r].challenge
    OBVIOUS
  <2>3. CASE UNCHANGED <<sms, completed>>
    BY <1>q, <2>1, <2>3
  <2>4. CASE /\ sms # None /\ sms.id = d
             /\ sms' = [sms EXCEPT !.id = None, !.ready = FALSE, !.failed = 0]
             /\ completed' = [completed EXCEPT ![d] = @ + 1]
    <3>1. sms'.id = None
      BY <1>t, <2>4 DEF MfaSms!Sms
    <3>2. ASSUME NEW c \in MfaSms!Challenge PROVE completed'[c] <= restored'[c] + 1
      <4>1. completed[c] \in Nat /\ restored[c] \in Nat /\ completed[c] <= restored[c] + 1
        BY <1>t DEF CompletedBefore
      <4>2. c = d => completed[c] <= restored[c]
        BY <2>4 DEF CompletedBefore
      <4>3. completed'[c] = IF c = d THEN completed[c] + 1 ELSE completed[c]
        BY <1>t, <2>4
      <4> QED
        BY <2>1, <4>1, <4>2, <4>3
    <3> QED
      BY <1>n, <3>1, <3>2 DEF CompletedBefore, MfaSms!Challenge
  <2> QED
    BY <1>3, <2>2, <2>3, <2>4 DEF MfaSms!CompleteSms, MfaSms!Current, MfaSms!Cleared
<1>4. ASSUME NEW r \in Request, MfaSms!RecordFailure(r) PROVE Goal
  <2>1. UNCHANGED sms \/ (sms # None /\ sms' = [sms EXCEPT !.failed = @ + 1])
    BY <1>4 DEF MfaSms!RecordFailure, MfaSms!Current, MfaSms!Failed
  <2>2. sms' # None => (sms # None /\ sms'.id = sms.id) \/ UNCHANGED sms
    BY <1>t, <2>1 DEF MfaSms!Sms
  <2> QED
    BY <1>4, <1>q, <2>2 DEF MfaSms!RecordFailure, MfaSms!histories
<1>5. ASSUME \/ MfaSms!CooldownEnds \/ MfaSms!CodeExpires
             \/ \E r \in Request : MfaSms!Finalize(r)
      PROVE  Goal
  <2>1. /\ UNCHANGED <<restored, completed>>
        /\ \/ UNCHANGED sms
           \/ /\ sms # None
              /\ sms' = [sms EXCEPT !.cooled = TRUE] \/ sms' = [sms EXCEPT !.ready = TRUE]
                    \/ sms' = [sms EXCEPT !.ready = FALSE]
    BY <1>5 DEF MfaSms!CooldownEnds, MfaSms!CodeExpires, MfaSms!Finalize, MfaSms!Current,
                MfaSms!histories
  <2>2. UNCHANGED sms \/ (sms # None /\ sms'.id = sms.id)
    BY <1>t, <2>1 DEF MfaSms!Sms
  <2> QED
    BY <1>q, <2>1, <2>2
<1>6. ASSUME \/ MfaSms!DeliveryWindowEnds \/ UNCHANGED msVars
             \/ \E r \in Request : \/ MfaSms!SendSms(r) \/ MfaSms!StartProvider(r)
                                    \/ MfaSms!Deliver(r) \/ MfaSms!VerifySms(r)
                                    \/ MfaSms!CheckSms(r) \/ MfaSms!CountDelivery(r)
                                    \/ MfaSms!StillEnrolled(r) \/ MfaSms!PromoteSms(r)
      PROVE  Goal
  <2>1. UNCHANGED <<sms, restored, completed>>
    BY <1>6 DEF MfaSms!DeliveryWindowEnds, MfaSms!SendSms, MfaSms!StartProvider, MfaSms!Deliver,
                MfaSms!VerifySms, MfaSms!CheckSms, MfaSms!CountDelivery, MfaSms!StillEnrolled,
                MfaSms!PromoteSms, MfaSms!histories, msVars
  <2> QED
    BY <1>q, <2>1
<1>7. ASSUME MfaSms!RemoveEnrollment PROVE Goal
  BY <1>7, <1>q DEF MfaSms!RemoveEnrollment, MfaSms!histories
<1> QED
  BY <1>1, <1>2, <1>3, <1>4, <1>5, <1>6, <1>7 DEF MfaSms!Next

\* A claim begins a sending, a rollback ends one, and nothing else restores a challenge.
LEMMA RestoresNext ==
    ASSUME SmsTypes, ChallengesKnown, RestoresCounted, [MfaSms!Next]_msVars
    PROVE  RestoresCounted'
<1> DEFINE Goal == RestoresCounted'
<1>t. /\ nextChallenge \in Nat /\ nextChallenge' - 1 = nextChallenge' - 1
      /\ restored \in [MfaSms!Challenge -> Nat] /\ MfaSms!Challenge' = MfaSms!Challenge
  BY AccountsAssumption, SmsAssumption DEF SmsTypes, MfaSms!Challenge
<1>s. IsFiniteSet(Sending) /\ Cardinality(Sending) \in Nat
  BY AccountsAssumption, SmsAssumption, FS_Subset, FS_CardinalityType DEF Sending
<1>c. \A c \in MfaSms!Challenge : restored[c] + Cardinality(Sending) <= nextChallenge - 1
  BY DEF RestoresCounted
<1>q. ASSUME UNCHANGED <<restored, nextChallenge>>, Sending' \subseteq Sending PROVE Goal
  <2>1. PICK then \in SUBSET Sending : then = Sending'
    BY <1>q
  <2>2. Cardinality(then) \in Nat /\ Cardinality(then) <= Cardinality(Sending)
    BY <1>s, FS_Subset, FS_CardinalityType
  <2> QED
    BY <1>q, <1>c, <1>s, <1>t, <2>1, <2>2 DEF RestoresCounted
<1>w. ASSUME NEW r \in Request, NEW w, Turns(r, w)
      PROVE  Sending' = (Sending \ {r}) \cup (IF Sends(w) THEN {r} ELSE {})
  <2>1. msWork'[r] = w /\ \A q \in Request \ {r} : msWork'[q] = msWork[q]
    BY <1>w, TurnedTo
  <2> QED
    BY <2>1 DEF Sending, Sends
<1>e. ASSUME NEW r \in Request, MfaSms!Ends(r) PROVE Sending' = Sending \ {r}
  <2>1. PICK w : Turns(r, w) /\ w = None
    BY <1>e DEF MfaSms!Ends, Turns
  <2> QED
    BY <1>w, <2>1 DEF Sends
<1>o. ASSUME NEW r \in Request, msWork[r] # None, msWork[r].pc \notin {"budget", "claim"},
             NEW pc \in {"start", "finalize", "deliver", "rollback", "check", "record", "complete",
                        "enrolled", "promote"},
             MfaSms!On(r, pc),
             \/ msWork[r].pc \in {"start", "finalize", "deliver"}
             \/ pc \in {"record", "complete", "enrolled", "promote"}
      PROVE  Sending' \subseteq Sending
  <2>1. PICK w \in MfaSms!Work : Turns(r, w) /\ w.pc = pc
    BY <1>o, TurnsOn
  <2>2. Sends(w) => r \in Sending
    BY <1>o, <2>1 DEF Sends, Sending
  <2> QED
    BY <1>w, <2>1, <2>2
<1>1. ASSUME NEW r \in Request, MfaSms!SendSms(r) \/ MfaSms!VerifySms(r) PROVE Goal
  <2>1. PICK pc \in {"budget", "claim", "check"} : \E challenge, previous :
            MfaSms!Begins(r, pc, challenge, previous)
    BY <1>1 DEF MfaSms!SendSms, MfaSms!VerifySms
  <2>5. PICK challenge, previous : MfaSms!Begins(r, pc, challenge, previous)
    BY <2>1
  <2>2. PICK w : w = [pc |-> pc, challenge |-> challenge, previous |-> previous]
    OBVIOUS
  <2>3. Turns(r, w)
    BY <2>2, <2>5 DEF MfaSms!Begins, Turns
  <2>4. Sending' \subseteq Sending
    BY <1>w, <2>2, <2>3 DEF Sends
  <2> QED
    BY <1>1, <1>q, <2>4 DEF MfaSms!SendSms, MfaSms!VerifySms, MfaSms!histories
<1>2. ASSUME \/ MfaSms!DeliveryWindowEnds \/ MfaSms!CooldownEnds \/ MfaSms!CodeExpires
             \/ MfaSms!RemoveEnrollment \/ UNCHANGED msVars
      PROVE  Goal
  <2>1. UNCHANGED <<restored, nextChallenge, msWork>>
    BY <1>2 DEF MfaSms!DeliveryWindowEnds, MfaSms!CooldownEnds, MfaSms!CodeExpires,
       MfaSms!RemoveEnrollment, MfaSms!histories, msVars
  <2>2. Sending' \subseteq Sending
    BY <2>1 DEF Sending
  <2> QED
    BY <1>q, <2>1, <2>2
<1>3. ASSUME NEW r \in Request, MfaSms!ClaimSms(r) PROVE Goal
  <2>1. CASE MfaSms!Ends(r) /\ UNCHANGED <<sms, nextChallenge>>
    BY <1>3, <1>e, <1>q, <2>1 DEF MfaSms!ClaimSms, MfaSms!histories
  <2>2. CASE /\ nextChallenge' = nextChallenge + 1
             /\ msWork' = [msWork EXCEPT ![r].challenge = nextChallenge,
                             ![r].pc = IF sender = "provider" THEN "start" ELSE "finalize"]
    <3>1. UNCHANGED restored
      BY <1>3 DEF MfaSms!ClaimSms, MfaSms!histories
    <3>2. PICK then : then = Sending'
      OBVIOUS
    <3>3. then \subseteq Sending \cup {r}
      BY <2>2, <3>2 DEF SmsTypes, Sending, Sends
    <3>4. /\ IsFiniteSet(Sending \cup {r})
          /\ Cardinality(Sending \cup {r}) <= Cardinality(Sending) + 1
      <4>1. CASE r \in Sending
        <5>1. Sending \cup {r} = Sending
          BY <4>1
        <5> QED
          BY <1>s, <5>1
      <4>2. CASE r \notin Sending
        <5>1. /\ IsFiniteSet(Sending \cup {r})
              /\ Cardinality(Sending \cup {r}) = Cardinality(Sending) + 1
          BY <1>s, <4>2, FS_AddElement, Zenon
        <5> QED
          BY <1>s, <5>1
      <4> QED
        BY <4>1, <4>2
    <3>5. Cardinality(then) \in Nat /\ Cardinality(then) <= Cardinality(Sending \cup {r})
      BY <3>3, <3>4, FS_Subset, FS_CardinalityType
    <3>6. Cardinality(Sending \cup {r}) \in Nat
      BY <3>4, FS_CardinalityType
    <3> QED
      BY <1>c, <1>s, <1>t, <2>2, <3>1, <3>2, <3>4, <3>5, <3>6 DEF RestoresCounted
  <2> QED
    BY <1>3, <2>1, <2>2 DEF MfaSms!ClaimSms
<1>4. ASSUME NEW r \in Request,
             MfaSms!StartProvider(r) \/ MfaSms!Finalize(r) \/ MfaSms!Deliver(r)
      PROVE  Goal
  <2>1. msWork[r] # None /\ msWork[r].pc \in {"start", "finalize", "deliver"}
    BY <1>4 DEF MfaSms!StartProvider, MfaSms!Finalize, MfaSms!Deliver, MfaSms!At
  <2>2. \/ MfaSms!Ends(r)
        \/ \E pc \in {"finalize", "rollback", "deliver"} : MfaSms!On(r, pc)
    BY <1>4 DEF MfaSms!StartProvider, MfaSms!Finalize, MfaSms!Deliver
  <2>3. Sending' \subseteq Sending
    <3>1. CASE MfaSms!Ends(r)
      BY <1>e, <3>1
    <3>2. CASE \E pc \in {"finalize", "rollback", "deliver"} : MfaSms!On(r, pc)
      BY <1>o, <2>1, <3>2
    <3> QED
      BY <2>2, <3>1, <3>2
  <2> QED
    BY <1>4, <1>q, <2>3 DEF MfaSms!StartProvider, MfaSms!Finalize, MfaSms!Deliver,
       MfaSms!histories
<1>5. ASSUME NEW r \in Request,
             \/ MfaSms!CheckSms(r) \/ MfaSms!RecordFailure(r) \/ MfaSms!CompleteSms(r)
             \/ MfaSms!StillEnrolled(r) \/ MfaSms!PromoteSms(r)
      PROVE  Goal
  <2>1. msWork[r] # None
        /\ msWork[r].pc \in {"check", "record", "complete", "enrolled", "promote"}
    BY <1>5 DEF MfaSms!CheckSms, MfaSms!RecordFailure, MfaSms!CompleteSms,
       MfaSms!StillEnrolled, MfaSms!PromoteSms, MfaSms!At
  <2>2. \/ MfaSms!Ends(r) \/ MfaSms!On(r, "record") \/ MfaSms!On(r, "complete")
        \/ MfaSms!On(r, "enrolled") \/ MfaSms!On(r, "promote")
    BY <1>5 DEF MfaSms!CheckSms, MfaSms!RecordFailure, MfaSms!CompleteSms,
       MfaSms!StillEnrolled, MfaSms!PromoteSms
  <2>3. Sending' \subseteq Sending
    BY <1>e, <1>o, <2>1, <2>2
  <2> QED
    BY <1>5, <1>q, <2>3 DEF MfaSms!CheckSms, MfaSms!RecordFailure, MfaSms!CompleteSms,
       MfaSms!StillEnrolled, MfaSms!PromoteSms, MfaSms!histories
<1>7. ASSUME NEW r \in Request, MfaSms!CountDelivery(r) PROVE Goal
  <2>1. msWork[r] # None /\ (MfaSms!Ends(r) \/ MfaSms!On(r, "claim"))
    BY <1>7 DEF MfaSms!CountDelivery, MfaSms!At
  <2>2. Sending' \subseteq Sending
    <3>1. CASE MfaSms!Ends(r)
      BY <1>e, <3>1
    <3>2. CASE MfaSms!On(r, "claim")
      <4>1. PICK w \in MfaSms!Work : Turns(r, w) /\ w.pc = "claim"
        BY <2>1, <3>2, GoesToClaim
      <4> QED
        BY <1>w, <4>1 DEF Sends
    <3> QED
      BY <2>1, <3>1, <3>2
  <2> QED
    BY <1>7, <1>q, <2>2 DEF MfaSms!CountDelivery, MfaSms!histories
<1>6. ASSUME NEW r \in Request, MfaSms!Rollback(r) PROVE Goal
  <2>1. /\ msWork[r] # None /\ msWork[r].pc = "rollback" /\ MfaSms!Ends(r)
        /\ UNCHANGED nextChallenge
    BY <1>6 DEF MfaSms!Rollback, MfaSms!At
  <2>2. PICK then : then = Sending'
    OBVIOUS
  <2>3. r \in Sending /\ then = Sending \ {r}
    BY <1>e, <2>1, <2>2 DEF Sending, Sends
  <2>4. Cardinality(then) = Cardinality(Sending) - 1
    BY <1>s, <2>3, FS_RemoveElement
  <2>5. PICK id : id = msWork[r].previous.id
    OBVIOUS
  <2>6. UNCHANGED restored \/ restored' = [restored EXCEPT ![id] = @ + 1]
    BY <1>6, <2>5 DEF MfaSms!Rollback
  <2>7. \A c \in MfaSms!Challenge : restored'[c] \in {restored[c], restored[c] + 1}
    BY <1>t, <2>6
  <2> QED
    BY <1>c, <1>s, <1>t, <2>1, <2>2, <2>4, <2>7 DEF RestoresCounted
<1> QED
  BY <1>1, <1>2, <1>3, <1>4, <1>5, <1>6, <1>7 DEF MfaSms!Next

\* Every step of the text messages keeps the invariant.
LEMMA SmsNext == SmsInv /\ [MfaSms!Next]_msVars => SmsInv'
BY SmsTypesNext, RestoresNext, GuessesNext, CompletedNext DEF SmsInv

\* The histories stay within their bound.
LEMMA SmsTypeOK == SmsInv => MfaSms!TypeOK
<1> SUFFICES ASSUME SmsInv PROVE MfaSms!TypeOK
  OBVIOUS
<1>n. PICK most \in Nat, size \in Nat, max \in Nat :
          /\ most = SmsMaxAttempts /\ size = Cardinality(Request) - 1 /\ max = MaxChallenge
  BY AccountsAssumption, SmsAssumption, Requests
<1>t. /\ nextChallenge \in 1 .. max + 1
      /\ guesses \in [MfaSms!Challenge -> Nat] /\ restored \in [MfaSms!Challenge -> Nat]
      /\ completed \in [MfaSms!Challenge -> Nat]
  BY <1>n DEF SmsInv, SmsTypes
<1>1. MfaSms!Tries = 0 .. (most + size + 1) * (max + 1)
  BY <1>n, Requests, SameSmsCardinality DEF MfaSms!Tries
<1>2. (most + size + 1) * (max + 1) = (most + size) * (max + 1) + (max + 1)
  BY <1>n
<1>3. \A n \in 0 .. max : (most + size) * (n + 1) <= (most + size) * (max + 1)
  <2>1. ASSUME NEW n \in 0 .. max PROVE (most + size) * (n + 1) <= (most + size) * (max + 1)
    <3>1. PICK a \in Nat, d \in Nat : a = most + size /\ d = max - n
      BY <1>n
    <3>2. a * d \in Nat /\ a * (n + 1 + d) = a * (n + 1) + a * d
      BY <3>1
    <3>3. n + 1 + d = max + 1
      BY <1>n, <3>1
    <3> QED
      BY <1>n, <3>1, <3>2, <3>3
  <2> QED
    BY <2>1
<1>4. (most + size) * (max + 1) \in Nat
  BY <1>n
<1>5. ASSUME NEW c \in MfaSms!Challenge
      PROVE  /\ guesses[c] \in MfaSms!Tries /\ restored[c] \in MfaSms!Tries
             /\ completed[c] \in MfaSms!Tries
  <2>1. restored[c] \in 0 .. max
    <3>1. Cardinality(Sending) \in Nat
      BY AccountsAssumption, SmsAssumption, FS_Subset, FS_CardinalityType DEF Sending
    <3>2. restored[c] + Cardinality(Sending) <= nextChallenge - 1
      BY DEF SmsInv, RestoresCounted
    <3> QED
      BY <1>n, <1>t, <3>1, <3>2
  <2>2. /\ guesses[c] \in Nat /\ guesses[c] <= (most + size) * (restored[c] + 1)
        /\ completed[c] \in Nat /\ completed[c] <= 1 + restored[c]
    <3>1. /\ guesses[c] <= Budget(restored[c] + 1)
          /\ completed[c] <= 1 + restored[c]
      <4>1. guesses[c] + Cardinality(Checking(c)) <= Budget(restored[c] + 1)
        BY DEF SmsInv, GuessesCounted
      <4>2. completed[c] <= restored[c] + 1
        BY DEF SmsInv, CompletedBefore
      <4> QED
        BY <4>1, <4>2, Counts DEF SmsInv
    <3>2. SmsMaxAttempts + Cardinality(Request) - 1 = most + size
      BY <1>n, Requests
    <3> QED
      BY <1>t, <3>1, <3>2 DEF Budget
  <2>3. guesses[c] <= (most + size) * (max + 1)
    BY <1>3, <1>4, <2>1, <2>2
  <2>4. PICK wide \in Nat : wide = (most + size) * (max + 1)
    BY <1>4
  <2>5. MfaSms!Tries = 0 .. wide + (max + 1)
    BY <1>1, <1>2, <2>4
  <2>6. /\ guesses[c] \in Nat /\ guesses[c] <= wide
        /\ completed[c] \in Nat /\ completed[c] <= 1 + restored[c]
    BY <2>2, <2>3, <2>4
  <2>7. PICK a \in Nat, b \in Nat : a = guesses[c] /\ b = completed[c]
    BY <2>6
  <2>8. a <= wide + (max + 1) /\ b <= wide + (max + 1) /\ restored[c] <= wide + (max + 1)
    BY <1>n, <2>1, <2>4, <2>6, <2>7
  <2> QED
    BY <1>n, <2>1, <2>5, <2>7, <2>8
<1>6. /\ guesses \in [MfaSms!Challenge -> MfaSms!Tries]
      /\ restored \in [MfaSms!Challenge -> MfaSms!Tries]
      /\ completed \in [MfaSms!Challenge -> MfaSms!Tries]
  BY <1>t, <1>5
<1> QED
  BY <1>6 DEF SmsInv, SmsTypes, MfaSms!TypeOK

\* The invariant bounds the guesses and the completions.
LEMMA SmsSafe == SmsInv => MfaSms!SmsGuessesBounded /\ MfaSms!SmsCompletesOnce
<1> SUFFICES ASSUME SmsInv PROVE MfaSms!SmsGuessesBounded /\ MfaSms!SmsCompletesOnce
  OBVIOUS
<1>1. ASSUME NEW c \in MfaSms!Challenge
      PROVE  /\ guesses[c] <= Budget(restored[c] + 1)
             /\ completed[c] <= 1 + restored[c]
  <2>1. guesses[c] + Cardinality(Checking(c)) <= Budget(restored[c] + 1)
    BY DEF SmsInv, GuessesCounted
  <2>2. completed[c] <= restored[c] + 1
    BY DEF SmsInv, CompletedBefore
  <2> QED
    BY <2>1, <2>2, Counts DEF SmsInv
<1> QED
  BY <1>1, SameSmsCardinality DEF MfaSms!SmsGuessesBounded, MfaSms!SmsCompletesOnce, Budget

===============================================================================

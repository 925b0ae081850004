----------------------------- MODULE SignInMethods -----------------------------
(***************************************************************************)
(* The ways users sign in without a password: provider accounts linked     *)
(* through the OAuth redirect, and passkeys.  One browser with its         *)
(* cookies; several of its requests may be in flight.                      *)
(*                                                                         *)
(* Both stores write a row under its own condition, so a store call is one *)
(* step; a request that reads and then writes holds what it read.  The     *)
(* linking flow is bound to its session (bindLinkingToSession), and        *)
(* hasOtherSignInMethod of each part asks the store of the other.          *)
(***************************************************************************)
EXTENDS Naturals

CONSTANTS
    Request,            \* slots for requests in flight together
    User, Passkey, Account,
    None,
    MaxSession, MaxCounter  \* bounds on sign-ins and signatures of an authenticator

VARIABLES
    passkeys,       \* credential rows: owner and signature counter, None when absent
    signed,         \* signature counter of each authenticator
    ceremony,       \* the challenge the browser's cookie names, None without one
    identities,     \* owner of each provider account, None while not linked
    sessions,       \* user of each session, None when it ended or before it starts
    nextSession,    \* session ids are never given out twice
    cookie,         \* session id in the browser
    jar,            \* cookies of the redirect in progress, None without one
    work,           \* requests between two steps
    linkedBy,       \* history: who started the linking of an account
    had,            \* history: users who could sign in
    overlapped      \* history: users whose method was being removed by two requests, or
                    \* was theirs only since the removal was decided

vars == <<passkeys, signed, ceremony, identities, sessions, nextSession, cookie, jar, work,
          linkedBy, had, overlapped>>
keys == <<passkeys, signed, ceremony>>
browser == <<sessions, nextSession, cookie>>
links == <<identities, linkedBy>>

Session == 1 .. MaxSession
Row == [owner : User, counter : 0 .. MaxCounter]
Ceremony == [purpose : {"registration", "authentication"}, session : Session \cup {None}]
Jar == [intent : {"login", "link_identity"}, session : Session \cup {None},
        starter : User \cup {None}]
Work == [pc : {"register", "authenticate", "link", "login", "remove", "unlink"},
         user : User \cup {None}, starter : User \cup {None},
         of : Passkey \cup Account, counter : 0 .. MaxCounter]

TypeOK ==
    /\ passkeys \in [Passkey -> Row \cup {None}] /\ signed \in [Passkey -> 0 .. MaxCounter]
    /\ ceremony \in Ceremony \cup {None}
    /\ identities \in [Account -> User \cup {None}] /\ linkedBy \in [Account -> User \cup {None}]
    /\ nextSession \in 1 .. MaxSession + 1
    /\ sessions \in [Session -> User \cup {None}] /\ cookie \in Session \cup {None}
    /\ jar \in Jar \cup {None} /\ work \in [Request -> Work \cup {None}]
    /\ had \subseteq User /\ overlapped \subseteq User

Init ==
    /\ passkeys = [p \in Passkey |-> None] /\ signed = [p \in Passkey |-> 0] /\ ceremony = None
    /\ identities = [a \in Account |-> None] /\ linkedBy = [a \in Account |-> None]
    /\ sessions = [s \in Session |-> None] /\ nextSession = 1 /\ cookie = None /\ jar = None
    /\ work = [r \in Request |-> None] /\ had = {} /\ overlapped = {}

Current == IF cookie = None THEN None ELSE sessions[cookie]
MethodsOf(u) == {p \in Passkey : passkeys[p] # None /\ passkeys[p].owner = u}
                    \cup {a \in Account : identities[a] = u}

At(r, pc) == work[r] # None /\ work[r].pc = pc
Ends(r) == work' = [work EXCEPT ![r] = None]
Removing(q) == work[q] # None /\ work[q].pc \in {"remove", "unlink"}
\* u gets the method x, which a request is about to remove.
Exposed(u, x) ==
    overlapped' = IF \E q \in Request : Removing(q) /\ work[q].of = x THEN overlapped \cup {u}
                  ELSE overlapped
Idle == [pc |-> "link", user |-> None, starter |-> None, of |-> CHOOSE a \in Account : TRUE,
         counter |-> 0]
Begins(r, w) == work[r] = None /\ work' = [work EXCEPT ![r] = w]

\* promoteToSession and getUserSessionId: a new id for the user, the one before is given up.
SignedIn(u) ==
    /\ nextSession \in Session /\ nextSession' = nextSession + 1 /\ cookie' = nextSession
    /\ sessions' = [s \in Session |-> IF s = nextSession THEN u ELSE IF s = cookie THEN None
                                      ELSE sessions[s]]

SignOut ==
    /\ Current # None /\ cookie' = None /\ sessions' = [sessions EXCEPT ![cookie] = None]
    /\ UNCHANGED <<nextSession, keys, links, jar, work, had, overlapped>>

------------------------------------------------------------------------------
(* Provider accounts *)

\* The authorization route sets the cookies of the redirect; linking needs a session cookie
\* and remembers it.
Authorize(intent) ==
    /\ (intent = "link_identity" => cookie # None)
    /\ jar' = [intent |-> intent, starter |-> Current,
               session |-> IF intent = "link_identity" THEN cookie ELSE None]
    /\ UNCHANGED <<keys, links, browser, work, had, overlapped>>

\* The callback with the state of the redirect: a linking flow must end in the session that
\* started it.
BoundNever == TRUE                                        \* defect: any session will do
Bound == jar.session = cookie
Callback(r, a) ==
    /\ jar # None /\ jar' = None
    /\ IF jar.intent = "login" THEN Begins(r, [Idle EXCEPT !.pc = "login", !.of = a])
       ELSE IF Current # None /\ Bound
       THEN Begins(r, [Idle EXCEPT !.user = Current, !.starter = jar.starter, !.of = a])
       ELSE UNCHANGED work
    /\ UNCHANGED <<keys, links, browser, had, overlapped>>

\* linkIdentity of the store: an account has one owner, that of another user is a conflict.
Linked(a, user, starter) ==
    IF identities[a] = None
    THEN /\ identities' = [identities EXCEPT ![a] = user]
         /\ linkedBy' = [linkedBy EXCEPT ![a] = starter]
         /\ Exposed(user, a)
    ELSE UNCHANGED <<links, overlapped>>

\* linkCallbackIdentity, for the user of the session that the callback read.
LinkIdentity(r) ==
    /\ At(r, "link") /\ Ends(r) /\ Linked(work[r].of, work[r].user, work[r].starter)
    /\ UNCHANGED <<keys, browser, jar, had>>

\* onCallbackSuccess of the application: the account signs its owner in, or a new user.
LoginByAccount(r) ==
    LET a == work[r].of IN
    /\ At(r, "login") /\ Ends(r)
    /\ \E u \in IF identities[a] # None THEN {identities[a]} ELSE User \ had :
        SignedIn(u) /\ had' = had \cup {u} /\ Linked(a, u, u)
    /\ UNCHANGED <<keys, jar>>

------------------------------------------------------------------------------
(* Removal, for both kinds *)

OthersAll(u, x) == MethodsOf(u)                           \* defect: counts the one removed
Others(u, x) == MethodsOf(u) \ {x}
Removes(r, pc, x) ==
    /\ Current # None /\ x \in MethodsOf(Current) /\ Others(Current, x) # {}
    /\ Begins(r, [Idle EXCEPT !.pc = pc, !.user = Current, !.of = x])
    /\ overlapped' = IF \E q \in Request : Removing(q) /\ work[q].user = Current
                     THEN overlapped \cup {Current} ELSE overlapped
    /\ UNCHANGED <<keys, links, browser, jar, had>>

UnlinkIdentity(r, a) == Removes(r, "unlink", a)
RemovePasskey(r, p) == Removes(r, "remove", p)

RemoveIdentity(r) ==
    /\ At(r, "unlink") /\ Ends(r)
    /\ identities' = [identities EXCEPT ![work[r].of] = None]
    /\ linkedBy' = [linkedBy EXCEPT ![work[r].of] = None]
    /\ UNCHANGED <<keys, browser, jar, had, overlapped>>
RemoveCredential(r) ==
    /\ At(r, "remove") /\ Ends(r)
    /\ passkeys' = [passkeys EXCEPT ![work[r].of] = None]
    /\ UNCHANGED <<signed, ceremony, links, browser, jar, had, overlapped>>

------------------------------------------------------------------------------
(* Passkeys *)

\* The options of either ceremony: a challenge for the browser's session.
Options(purpose) ==
    /\ (purpose = "registration" => Current # None)
    /\ ceremony' = [purpose |-> purpose, session |-> cookie]
    /\ UNCHANGED <<passkeys, signed, links, browser, jar, work, had, overlapped>>
ChallengeExpires ==
    /\ ceremony # None /\ ceremony' = None
    /\ UNCHANGED <<passkeys, signed, links, browser, jar, work, had, overlapped>>

\* consume deletes the challenge of this purpose and session before anything is verified.
Consumed(purpose) ==
    /\ ceremony = [purpose |-> purpose, session |-> cookie] /\ ceremony' = None

RegisterVerify(r, p) ==
    /\ Current # None /\ Consumed("registration")
    /\ Begins(r, [Idle EXCEPT !.pc = "register", !.user = Current, !.of = p, !.counter = signed[p]])
    /\ UNCHANGED <<passkeys, signed, links, browser, jar, had, overlapped>>

\* The row is read and the signature verified: its counter must exceed the one that was read.
AuthenticateVerify(r, p) ==
    /\ Consumed("authentication") /\ passkeys[p] # None /\ signed[p] < MaxCounter
    /\ signed' = [signed EXCEPT ![p] = @ + 1] /\ signed'[p] > passkeys[p].counter
    /\ Begins(r, [Idle EXCEPT !.pc = "authenticate", !.user = passkeys[p].owner, !.of = p,
                              !.counter = signed'[p]])
    /\ UNCHANGED <<passkeys, links, browser, jar, had, overlapped>>

\* saveCredential writes the whole row, except over one of another user or a later counter.
AcceptsAny(p, row) == TRUE                                \* defect: the counter is not compared
Accepts(p, row) ==
    passkeys[p] # None => passkeys[p].owner = row.owner /\ row.counter >= passkeys[p].counter
SaveCredential(r) ==
    LET w == work[r]
        row == [owner |-> w.user, counter |-> w.counter]
    IN
    /\ \/ At(r, "register") \/ At(r, "authenticate")
    /\ Ends(r)
    /\ IF Accepts(w.of, row)
       THEN /\ passkeys' = [passkeys EXCEPT ![w.of] = row] /\ had' = had \cup {w.user}
            /\ Exposed(w.user, w.of)
            /\ IF w.pc = "authenticate" THEN SignedIn(w.user) ELSE UNCHANGED browser
       ELSE UNCHANGED <<passkeys, browser, had, overlapped>>
    /\ UNCHANGED <<signed, ceremony, links, jar>>

Next ==
    \/ SignOut \/ ChallengeExpires
    \/ \E intent \in {"login", "link_identity"} : Authorize(intent)
    \/ \E purpose \in {"registration", "authentication"} : Options(purpose)
    \/ \E r \in Request :
        \/ LinkIdentity(r) \/ LoginByAccount(r) \/ RemoveIdentity(r) \/ RemoveCredential(r)
        \/ SaveCredential(r)
        \/ \E a \in Account : Callback(r, a) \/ UnlinkIdentity(r, a)
        \/ \E p \in Passkey : RemovePasskey(r, p) \/ RegisterVerify(r, p) \/ AuthenticateVerify(r, p)

Spec == Init /\ [][Next]_vars

------------------------------------------------------------------------------
\* An account is linked to the user who set out to link it, whoever uses the browser when
\* the provider redirects back.
LinksItsStarter == \A a \in Account : identities[a] # None => identities[a] = linkedBy[a]

\* A user who could sign in still can, unless two removals were under way together or a
\* method became theirs while its removal was.
KeepsOneWayIn == \A u \in had \ overlapped : MethodsOf(u) # {}

\* The signature counter of a stored passkey never goes back, in whatever order the
\* authentications in flight are saved.
CounterNeverGoesBack ==
    [][\A p \in Passkey : passkeys[p] # None /\ passkeys'[p] # None
            => passkeys'[p].counter >= passkeys[p].counter]_vars
===============================================================================

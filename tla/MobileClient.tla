------------------------------ MODULE MobileClient ------------------------------
(***************************************************************************)
(* The native client of the OIDC provider (client/mobile.ts): sign-in      *)
(* through the system browser, the rotation of the refresh token kept in   *)
(* secure storage, the requests made with it, and sign-out.                *)
(*                                                                         *)
(* "app" and "worker" are two processes that share the secure storage: the *)
(* application, and the native background worker for which the storage     *)
(* offers withLock.  Every call of the storage, of the browser and of the  *)
(* server is awaited; the operating system may end either process at any   *)
(* of those points.  A token is <<family, generation>>: the server accepts *)
(* the latest generation of a family and ends the family when it is shown  *)
(* an earlier one.                                                         *)
(***************************************************************************)
EXTENDS Naturals, FiniteSets

CONSTANTS
    None,
    Arrival,        \* slots for callbacks in flight together
    MaxSignIn,      \* bound on the sign-ins begun
    MaxGeneration,  \* bound on the rotations of one family
    MaxLoss         \* bound on the failures of processes, storage and network

VARIABLES
    store,          \* the refresh token in secure storage
    pending,        \* the authorization in secure storage: its number, or None
    lock,           \* the process holding withLock(REFRESH_KEY)
    access,         \* the application's access token: its family, or None
    principal,      \* what was last published: "unknown", "user" or "nobody"
    nextSignIn,
    refreshing,     \* process -> the rotation between two steps
    callbacks,      \* arrival -> the callback between two steps
    leaving,        \* the sign-out between two steps
    requesting,     \* a status request is between two steps
    server,         \* family -> its latest generation, 0 before it is minted
    ended,          \* families the server has ended
    losses,         \* failures so far
    broken,         \* history: families whose latest token never reached the storage
    reused,         \* history: families ended because an earlier token was shown
    signedOut       \* history: signed out with nothing in flight, and no sign-in since

stored == <<store, pending, lock>>
memory == <<access, principal>>
calls == <<refreshing, callbacks, leaving, requesting>>
remote == <<server, ended>>
histories == <<broken, reused, signedOut>>
vars == <<stored, memory, nextSignIn, calls, remote, losses, histories>>

Process == {"app", "worker"}
SignIn == 1 .. MaxSignIn
Token == SignIn \X (1 .. MaxGeneration)
Latest(f) == <<f, server[f]>>
Live(token) == token = Latest(token[1]) /\ token[1] \notin ended

\* A callback works for the authorization it read, and one that is rejected for none.
Callback == [pc : {"error", "remove", "exchange", "save", "reject"}, of : SignIn \cup {None}]
Rejecting == [pc |-> "reject", of |-> None]

\* A sign-out clears what is left in the storage; history: whether it does so alone.
Leaving == [pc : {"revoke", "clear"}, token : Token \cup {None},
            left : SUBSET {"authorization", "token"}, failed : BOOLEAN, alone : BOOLEAN]

TypeOK ==
    /\ store \in Token \cup {None} /\ pending \in SignIn \cup {None}
    /\ lock \in Process \cup {None}
    /\ access \in SignIn \cup {None} /\ principal \in {"unknown", "user", "nobody"}
    /\ nextSignIn \in 1 .. MaxSignIn + 1
    /\ refreshing \in [Process ->
           [pc : {"read", "exchange", "save"}, token : Token \cup {None}] \cup {None}]
    /\ callbacks \in [Arrival -> Callback \cup {None}]
    /\ leaving \in Leaving \cup {None}
    /\ requesting \in BOOLEAN
    /\ server \in [SignIn -> 0 .. MaxGeneration] /\ ended \subseteq SignIn
    /\ losses \in 0 .. MaxLoss /\ broken \subseteq SignIn /\ reused \subseteq SignIn
    /\ signedOut \in BOOLEAN

Init ==
    /\ store = None /\ pending = None /\ lock = None
    /\ access = None /\ principal = "unknown" /\ nextSignIn = 1
    /\ refreshing = [p \in Process |-> None]
    /\ callbacks = [c \in Arrival |-> None] /\ leaving = None /\ requesting = FALSE
    /\ server = [f \in SignIn |-> 0] /\ ended = {}
    /\ losses = 0 /\ broken = {} /\ reused = {} /\ signedOut = FALSE

Fails == losses < MaxLoss /\ losses' = losses + 1
Rotating(p, pc) == refreshing[p] # None /\ refreshing[p].pc = pc
Publishes(who) == principal' = who
Returns(p) == refreshing' = [refreshing EXCEPT ![p] = None]
Crosses == leaving' = IF leaving = None THEN None ELSE [leaving EXCEPT !.alone = FALSE]

-----------------------------------------------------------------------------
(* Sign-in.                                                                *)

\* signIn stores the authorization and opens the browser.
StartSignIn ==
    /\ nextSignIn \in SignIn
    /\ pending' = nextSignIn /\ nextSignIn' = nextSignIn + 1 /\ signedOut' = FALSE /\ Crosses
    /\ UNCHANGED <<store, lock, access, principal, refreshing, callbacks, requesting, remote,
                   losses, broken, reused>>

\* The caller aborts or the browser cannot be opened, which removes whichever authorization
\* is stored; or the stored one is too old for a callback.
AbortSignIn ==
    /\ pending # None /\ pending' = None
    /\ UNCHANGED <<store, lock, memory, nextSignIn, calls, remote, losses, histories>>

At(c, pc) == callbacks[c] # None /\ callbacks[c].pc = pc
Goes(c, pc) == callbacks' = [callbacks EXCEPT ![c].pc = pc]
Rejects(c) == callbacks' = [callbacks EXCEPT ![c] = Rejecting]

\* A callback of any sign-in begun, or a second delivery of one, reads the stored
\* authorization; one whose state is not the stored one ends the authorization that is
\* stored, and so does, after an await, one that carries an error.
ReceiveCallback(c) ==
    /\ callbacks[c] = None /\ Crosses
    /\ \/ /\ pending # None
          /\ \E pc \in {"error", "remove"} :
                callbacks' = [callbacks EXCEPT ![c] = [pc |-> pc, of |-> pending]]
       \/ nextSignIn > 1 /\ Rejects(c)
    /\ UNCHANGED <<stored, memory, nextSignIn, refreshing, requesting, remote, losses,
                   histories>>

\* The authorization is removed; a storage that fails ends the callback.
RemovePending(c) ==
    /\ At(c, "remove") \/ At(c, "error")
    /\ \/ /\ pending' = None /\ UNCHANGED losses
          /\ IF At(c, "error") THEN Rejects(c) ELSE Goes(c, "exchange")
       \/ Fails /\ callbacks' = [callbacks EXCEPT ![c] = None] /\ UNCHANGED pending
    /\ UNCHANGED <<store, lock, memory, nextSignIn, refreshing, leaving, requesting,
                   remote, histories>>

\* reject removes whatever authorization is stored by now, and waits for nothing.
EndRejected(c) ==
    /\ At(c, "reject") /\ callbacks' = [callbacks EXCEPT ![c] = None]
    /\ (pending' = None /\ UNCHANGED losses) \/ (Fails /\ UNCHANGED pending)
    /\ UNCHANGED <<store, lock, memory, nextSignIn, refreshing, leaving, requesting, remote,
                   histories>>

\* tokenRequest with the code: the server consumes a code once, and may refuse it; the reply
\* may be lost, and the tokens' identity token may fail verifyIdToken.
ExchangeCode(c) ==
    LET f == callbacks[c].of IN
    /\ At(c, "exchange")
    /\ \/ Rejects(c) /\ UNCHANGED <<server, losses>>
       \/ /\ server[f] = 0 /\ server' = [server EXCEPT ![f] = 1]
          /\ \/ Goes(c, "save") /\ UNCHANGED losses
             \/ Fails /\ Rejects(c)
    /\ UNCHANGED <<stored, memory, nextSignIn, refreshing, leaving, requesting,
                   ended, histories>>

-----------------------------------------------------------------------------
(* acceptTokens.                                                           *)

\* The new token replaces the stored one; a storage that refuses it is asked to forget the
\* old one, and that may fail too.
Accepted(token) == store' = token /\ UNCHANGED <<losses, broken>>
Refused(token) ==
    /\ Fails
    /\ \/ store' = None /\ UNCHANGED broken
       \/ UNCHANGED store /\ broken' = broken \cup {token[1]}

SaveCallback(c) ==
    LET token == <<callbacks[c].of, 1>> IN
    /\ At(c, "save")
    /\ \/ /\ Accepted(token) /\ access' = token[1]
          /\ callbacks' = [callbacks EXCEPT ![c] = None]
       \/ Refused(token) /\ access' = None /\ Rejects(c)
    /\ UNCHANGED <<pending, lock, principal, nextSignIn, refreshing, leaving, requesting, remote,
                   reused, signedOut>>

-----------------------------------------------------------------------------
(* rotateAccessToken.                                                      *)

\* refreshAccessToken begins a rotation unless the access token is fresh or one is in flight;
\* withLock admits one process at a time.
LockedAlone(p) == UNCHANGED lock                     \* defect: the rotation is not serialized
Locked(p) == lock = None /\ lock' = p
BeginRotation(p) ==
    /\ refreshing[p] = None /\ (p = "app" => access = None)
    /\ Locked(p) /\ refreshing' = [refreshing EXCEPT ![p] = [pc |-> "read", token |-> None]]
    /\ Crosses
    /\ UNCHANGED <<store, pending, memory, nextSignIn, callbacks, requesting, remote, losses,
                   histories>>

Unlocks(p) == lock' = IF lock = p THEN None ELSE lock

ReadToken(p) ==
    /\ Rotating(p, "read")
    /\ IF store = None THEN Returns(p) /\ Unlocks(p)
       ELSE /\ refreshing' = [refreshing EXCEPT ![p] = [pc |-> "exchange", token |-> store]]
            /\ UNCHANGED lock
    /\ UNCHANGED <<store, pending, memory, nextSignIn, callbacks, leaving, requesting, remote,
                   losses, histories>>

\* The server rotates its latest token and ends the family it is shown an earlier token of;
\* a refused client keeps what it has stored.
ExchangeToken(p) ==
    LET token == refreshing[p].token
        f == token[1] IN
    /\ Rotating(p, "exchange")
    /\ IF Live(token)
       THEN /\ token[2] < MaxGeneration
            /\ server' = [server EXCEPT ![f] = @ + 1]
            /\ \/ /\ refreshing' = [refreshing EXCEPT ![p].pc = "save",
                                              ![p].token = <<f, token[2] + 1>>]
                  /\ UNCHANGED <<lock, losses, broken>>
               \/ Fails /\ Returns(p) /\ Unlocks(p) /\ broken' = broken \cup {f}
            /\ UNCHANGED <<ended, reused>>
       ELSE /\ Returns(p) /\ Unlocks(p)
            /\ IF f \in ended THEN UNCHANGED <<ended, reused>>
               ELSE ended' = ended \cup {f} /\ reused' = reused \cup {f}
            /\ UNCHANGED <<server, losses, broken>>
    /\ UNCHANGED <<store, pending, memory, nextSignIn, callbacks, leaving, requesting, signedOut>>

SaveToken(p) ==
    LET token == refreshing[p].token IN
    /\ Rotating(p, "save") /\ Returns(p) /\ Unlocks(p)
    /\ \/ Accepted(token) /\ access' = IF p = "app" THEN token[1] ELSE access
       \/ Refused(token) /\ access' = IF p = "app" THEN None ELSE access
    /\ UNCHANGED <<pending, principal, nextSignIn, callbacks, leaving, requesting,
                   remote, reused, signedOut>>

AccessExpires ==
    /\ access # None /\ access' = None
    /\ UNCHANGED <<stored, principal, nextSignIn, calls, remote, losses, histories>>

-----------------------------------------------------------------------------
(* Requests, sign-out and the end of a process.                            *)

\* authenticatedFetch of the user-info endpoint, for status and principal.
RequestStatus ==
    /\ ~requesting /\ access # None /\ requesting' = TRUE
    /\ UNCHANGED <<stored, memory, nextSignIn, refreshing, callbacks, leaving, remote, losses,
                   histories>>

\* The user is published; a 401 drops the access token, and the retry needs a new one.
AnswerStatus ==
    /\ requesting /\ requesting' = FALSE
    /\ \/ Publishes("user") /\ UNCHANGED access
       \/ access' = None /\ UNCHANGED principal
    /\ UNCHANGED <<stored, nextSignIn, refreshing, callbacks, leaving, remote, losses,
                   histories>>

\* Without a renewable session the status is signed out.
PublishNobody ==
    /\ access = None /\ store = None /\ refreshing["app"] = None
    /\ principal # "nobody" /\ Publishes("nobody")
    /\ UNCHANGED <<stored, access, nextSignIn, calls, remote, losses, histories>>

\* signOut reads the token that it is to revoke.
SignOut ==
    /\ leaving = None
    /\ leaving' = [pc |-> "revoke", token |-> store, left |-> {"authorization", "token"},
                   failed |-> FALSE, alone |-> FALSE]
    /\ UNCHANGED <<stored, memory, nextSignIn, refreshing, callbacks, requesting, remote, losses,
                   histories>>

\* The revocation ends the family of any token of it, or the request fails; the client
\* forgets its access token either way, and clears the storage.
Quiet == callbacks = [c \in Arrival |-> None] /\ refreshing = [p \in Process |-> None]
RevokeRefreshToken ==
    /\ leaving # None /\ leaving.pc = "revoke" /\ access' = None
    /\ leaving' = [leaving EXCEPT !.pc = "clear", !.token = None, !.alone = Quiet]
    /\ \/ /\ ended' = ended \cup {f \in SignIn : leaving.token # None /\ leaving.token[1] = f}
          /\ UNCHANGED losses
       \/ leaving.token # None /\ Fails /\ UNCHANGED ended
    /\ UNCHANGED <<stored, principal, nextSignIn, refreshing, callbacks, requesting,
                   server, histories>>

\* The two keys are removed side by side, each of which may fail; only when both are gone is
\* the sign-out published.
ForgottenKept(n) == n                                \* defect: the authorization stays
Forgotten(n) == None
Cleared(key) ==
    /\ store' = IF key = "token" THEN None ELSE store
    /\ pending' = IF key = "authorization" THEN Forgotten(pending) ELSE pending
ClearSession(key) ==
    /\ leaving # None /\ leaving.pc = "clear" /\ key \in leaving.left
    /\ \E fails \in BOOLEAN :
          LET next == [leaving EXCEPT !.left = @ \ {key}, !.failed = @ \/ fails,
                               !.alone = @ /\ ~fails] IN
          /\ IF fails THEN Fails /\ UNCHANGED <<store, pending>>
             ELSE Cleared(key) /\ UNCHANGED losses
          /\ IF next.left # {} THEN leaving' = next /\ UNCHANGED <<principal, signedOut>>
             ELSE /\ leaving' = None /\ Publishes(IF next.failed THEN principal ELSE "nobody")
                  /\ signedOut' = next.alone
    /\ UNCHANGED <<lock, access, nextSignIn, refreshing, callbacks, requesting, remote,
                   broken, reused>>

\* The operating system ends a process, and with it what it held of the lock.
Dies(p) ==
    /\ Fails /\ Returns(p) /\ Unlocks(p)
    /\ broken' = broken \cup {f \in SignIn : Rotating(p, "save") /\ refreshing[p].token[1] = f}
    /\ IF p = "worker" THEN UNCHANGED <<memory, callbacks, leaving, requesting>>
       ELSE /\ access' = None /\ principal' = "unknown"
            /\ callbacks' = [c \in Arrival |-> None] /\ leaving' = None /\ requesting' = FALSE
    /\ UNCHANGED <<store, pending, nextSignIn, remote, reused, signedOut>>

Next ==
    \/ StartSignIn \/ AbortSignIn
    \/ \E c \in Arrival :
         \/ ReceiveCallback(c) \/ RemovePending(c) \/ EndRejected(c) \/ ExchangeCode(c)
         \/ SaveCallback(c)
    \/ AccessExpires \/ RequestStatus \/ AnswerStatus \/ PublishNobody
    \/ SignOut \/ RevokeRefreshToken
    \/ \E key \in {"authorization", "token"} : ClearSession(key)
    \/ \E p \in Process :
         BeginRotation(p) \/ ReadToken(p) \/ ExchangeToken(p) \/ SaveToken(p) \/ Dies(p)

Spec == Init /\ [][Next]_vars

-----------------------------------------------------------------------------
(* Properties.                                                             *)

\* The client never makes the server end its session for replaying a refresh token, unless a
\* rotated token was lost on its way to the storage: the application, the worker, a callback
\* and a sign-out that cross never show an earlier token (rotateAccessToken under withLock).
NoSelfInflictedReuse == reused \subseteq broken

\* After a sign-out that removed both keys, with no rotation, no callback and no new sign-in
\* while it did, the storage holds no refresh token until a new sign-in is begun: neither a
\* late callback of the browser nor the worker brings the session back (signOut).
SignedOutStaysOut == signedOut => store = None

=============================================================================

---------------------------- MODULE AccountsProofs ----------------------------
(***************************************************************************)
(* Proofs about what keeps a person's account, continued from              *)
(* AccountSecretsProofs: methods of signing in, the mobile client, the     *)
(* audit chain, provider credentials, and the sum of all.                  *)
(***************************************************************************)
EXTENDS AccountSecretsProofs

(* SignInMethods.                                                             *)

\* Whom each request is for, and what it is about.
Concerns(j) ==
    /\ j.pc \in {"register", "authenticate", "remove"} => j.of \in Passkey /\ j.user \in Pair
    /\ j.pc \in {"link", "login", "unlink"} => j.of \in Account
    /\ j.pc \in {"link", "unlink"} => j.user \in Pair
    /\ j.pc = "link" => j.starter = j.user
SignInTypes ==
    /\ SignIn!TypeOK
    /\ \A r \in Request : siWork[r] # None => Concerns(siWork[r])

\* Session ids are not given out twice, so the session that a linking began in is that of its
\* starter for as long as it lasts.
SessionsGivenOnce ==
    /\ cookie # None => cookie < nextSession
    /\ jar # None /\ jar.intent = "link_identity" =>
          /\ jar.session \in SignIn!Session /\ jar.session < nextSession
          /\ sessions[jar.session] \in {jar.starter, None}

\* What a removal takes from another user, that user got while it was under way; and for a user
\* none of whose removals overlapped, the one under way leaves another method.
Takes(r, u) == siWork[r].of \in SignIn!MethodsOf(u)
RemovesOwn ==
    \A r \in Request : SignIn!Removing(r) =>
        \A u \in Pair \ siOverlapped : Takes(r, u) => siWork[r].user = u
RemovesOne ==
    \A u \in Pair \ siOverlapped : \A q, r \in Request :
        SignIn!Removing(q) /\ SignIn!Removing(r) /\ siWork[q].user = u /\ siWork[r].user = u
            => q = r
LeavesOne ==
    \A u \in Pair \ siOverlapped : \A r \in Request :
        SignIn!Removing(r) /\ siWork[r].user = u => SignIn!Others(u, siWork[r].of) # {}
OneWayIn == RemovesOwn /\ RemovesOne /\ LeavesOne /\ SignIn!KeepsOneWayIn

SignInInv ==
    /\ SignInTypes
    /\ SessionsGivenOnce
    /\ SignIn!LinksItsStarter
    /\ OneWayIn

\* At first nobody has a way in and no session is given out.
LEMMA SignInInit == SignIn!Init => SignInInv
BY AccountsAssumption, SignInAssumption DEF SignIn!Init, SignInInv, SignInTypes, SignIn!TypeOK,
   SessionsGivenOnce,
   SignIn!LinksItsStarter, OneWayIn, RemovesOwn, RemovesOne, LeavesOne, SignIn!KeepsOneWayIn,
   SignIn!Removing, SignIn!Session

\* A request that begins or ends keeps the requests typed.
LEMMA SignInWork ==
    ASSUME SignInTypes, NEW r \in Request,
           NEW w, w = None \/ (w \in SignIn!Work /\ Concerns(w)), siWork' = [siWork EXCEPT ![r] = w]
    PROVE  /\ siWork' \in [Request -> SignIn!Work \cup {None}]
           /\ \A q \in Request : siWork'[q] # None => Concerns(siWork'[q])
BY DEF SignInTypes, SignIn!TypeOK

\* What a request is while it works.
LEMMA SignInAt ==
    ASSUME SignInTypes, NEW r \in Request, siWork[r] # None
    PROVE  siWork[r] \in SignIn!Work /\ Concerns(siWork[r])
BY DEF SignInTypes, SignIn!TypeOK

\* A sign-in starts a session with an id not given out before.
LEMMA SignedInTyped ==
    ASSUME SignInTypes, SessionsGivenOnce, NEW u \in Pair, SignIn!SignedIn(u)
    PROVE  /\ nextSession' \in 1 .. MaxSession + 1 /\ cookie' \in SignIn!Session
           /\ sessions' \in [SignIn!Session -> Pair \cup {None}]
           /\ nextSession' = nextSession + 1 /\ cookie' = nextSession
           /\ \A s \in SignIn!Session : s < nextSession => sessions'[s] \in {sessions[s], None}
BY AccountsAssumption, SignInAssumption DEF SignInTypes, SignIn!TypeOK, SessionsGivenOnce,
   SignIn!SignedIn, SignIn!Session

\* The user of the browser's session.
LEMMA CurrentIs ==
    ASSUME SignInTypes, SignIn!Current # None
    PROVE  /\ cookie \in SignIn!Session /\ SignIn!Current = sessions[cookie]
           /\ SignIn!Current \in Pair
BY DEF SignInTypes, SignIn!TypeOK, SignIn!Current

\* An account that is linked has its type, and its user is the one who began.
LEMMA LinkedTyped ==
    ASSUME SignInTypes, SignIn!LinksItsStarter,
           NEW a \in Account, NEW u \in Pair, SignIn!Linked(a, u, u)
    PROVE  /\ identities' \in [Account -> Pair \cup {None}]
           /\ linkedBy' \in [Account -> Pair \cup {None}]
           /\ siOverlapped' \subseteq Pair /\ SignIn!LinksItsStarter'
BY DEF SignInTypes, SignIn!TypeOK, SignIn!Linked, SignIn!links, SignIn!Exposed,
   SignIn!LinksItsStarter

\* Every step keeps the types, whom requests are for, and to whom sessions and accounts belong.
LEMMA SignInTypesNext ==
    ASSUME SignInTypes, SessionsGivenOnce, SignIn!LinksItsStarter, [SignIn!Next]_siVars
    PROVE  SignInTypes' /\ SessionsGivenOnce' /\ SignIn!LinksItsStarter'
<1> DEFINE Goal == SignInTypes' /\ SessionsGivenOnce' /\ SignIn!LinksItsStarter'
<1>t. /\ passkeys \in [Passkey -> SignIn!Row \cup {None}] /\ signed \in [Passkey -> 0 .. MaxCounter]
      /\ ceremony \in SignIn!Ceremony \cup {None}
      /\ identities \in [Account -> Pair \cup {None}] /\ linkedBy \in [Account -> Pair \cup {None}]
      /\ nextSession \in 1 .. MaxSession + 1
      /\ sessions \in [SignIn!Session -> Pair \cup {None}] /\ cookie \in SignIn!Session \cup {None}
      /\ jar \in SignIn!Jar \cup {None} /\ siWork \in [Request -> SignIn!Work \cup {None}]
      /\ had \subseteq Pair /\ siOverlapped \subseteq Pair
      /\ \A r \in Request : siWork[r] # None => Concerns(siWork[r])
  BY DEF SignInTypes, SignIn!TypeOK
<1>w. ASSUME NEW r \in Request, NEW w, w = None \/ (w \in SignIn!Work /\ Concerns(w)),
             siWork' = [siWork EXCEPT ![r] = w]
      PROVE  /\ siWork' \in [Request -> SignIn!Work \cup {None}]
             /\ \A q \in Request : siWork'[q] # None => Concerns(siWork'[q])
  BY <1>w, SignInWork
<1>0. 0 \in 0 .. MaxCounter
  BY AccountsAssumption, SignInAssumption
<1>c. ASSUME UNCHANGED SignIn!vars PROVE Goal
  BY <1>c, <1>t DEF SignIn!vars, SignIn!keys, SignIn!browser, SignIn!links, SignInTypes,
     SignIn!TypeOK,
     SessionsGivenOnce, SignIn!LinksItsStarter
<1>1. ASSUME SignIn!SignOut PROVE Goal
  <2>1. cookie \in SignIn!Session
    BY <1>1, CurrentIs DEF SignIn!SignOut
  <2> QED
    BY <1>1, <1>t, <2>1 DEF SignIn!SignOut, SignIn!keys, SignIn!browser, SignIn!links, SignInTypes,
       SignIn!TypeOK, SessionsGivenOnce, SignIn!LinksItsStarter
<1>2. ASSUME SignIn!ChallengeExpires PROVE Goal
  BY <1>2, <1>t DEF SignIn!ChallengeExpires, SignIn!keys, SignIn!browser, SignIn!links, SignInTypes,
     SignIn!TypeOK, SessionsGivenOnce, SignIn!LinksItsStarter
<1>3. ASSUME NEW intent \in {"login", "link_identity"}, SignIn!Authorize(intent) PROVE Goal
  <2>1. SignIn!Current \in Pair \cup {None}
    BY CurrentIs
  <2>2. jar' \in SignIn!Jar /\ jar'.intent = intent /\ jar'.starter = SignIn!Current
        /\ (intent = "link_identity" => cookie # None /\ jar'.session = cookie)
    BY <1>3, <1>t, <2>1 DEF SignIn!Authorize, SignIn!Jar
  <2>3. intent = "link_identity" => SignIn!Current = sessions[cookie]
    BY <2>2 DEF SignIn!Current
  <2> QED
    BY <1>3, <1>t, <2>2, <2>3 DEF SignIn!Authorize, SignIn!keys, SignIn!browser, SignIn!links,
       SignInTypes, SignIn!TypeOK, SessionsGivenOnce, SignIn!LinksItsStarter
<1>4. ASSUME NEW purpose \in {"registration", "authentication"}, SignIn!Options(purpose)
      PROVE  Goal
  BY <1>4, <1>t DEF SignIn!Options, SignIn!Ceremony, SignIn!browser, SignIn!links, SignInTypes,
     SignIn!TypeOK, SessionsGivenOnce, SignIn!LinksItsStarter
<1>5. ASSUME NEW r \in Request, SignIn!LinkIdentity(r) PROVE Goal
  <2>1. siWork[r] \in SignIn!Work /\ Concerns(siWork[r]) /\ siWork[r].pc = "link"
    BY <1>5, SignInAt DEF SignIn!LinkIdentity, SignIn!At
  <2>2. siWork[r].of \in Account /\ siWork[r].user \in Pair /\ siWork[r].starter = siWork[r].user
    BY <2>1 DEF Concerns
  <2>3. SignIn!Linked(siWork[r].of, siWork[r].user, siWork[r].user)
    BY <1>5, <2>2 DEF SignIn!LinkIdentity
  <2>4. /\ identities' \in [Account -> Pair \cup {None}] /\ linkedBy' \in [Account -> Pair \cup {None}]
        /\ siOverlapped' \subseteq Pair /\ SignIn!LinksItsStarter'
    BY <2>2, <2>3, LinkedTyped
  <2> QED
    BY <1>5, <1>t, <1>w, <2>4 DEF SignIn!LinkIdentity, SignIn!Ends, SignIn!keys, SignIn!browser,
       SignInTypes, SignIn!TypeOK, SessionsGivenOnce
<1>6. ASSUME NEW r \in Request, SignIn!LoginByAccount(r) PROVE Goal
  <2>1. siWork[r] \in SignIn!Work /\ Concerns(siWork[r]) /\ siWork[r].pc = "login"
    BY <1>6, SignInAt DEF SignIn!LoginByAccount, SignIn!At
  <2>2. siWork[r].of \in Account
    BY <2>1 DEF Concerns
  <2>3. PICK u \in Pair : SignIn!SignedIn(u) /\ had' = had \cup {u} /\ SignIn!Linked(siWork[r].of, u, u)
    BY <1>6, <1>t, <2>2 DEF SignIn!LoginByAccount
  <2>4. /\ identities' \in [Account -> Pair \cup {None}] /\ linkedBy' \in [Account -> Pair \cup {None}]
        /\ siOverlapped' \subseteq Pair /\ SignIn!LinksItsStarter'
    BY <2>2, <2>3, LinkedTyped
  <2>5. /\ nextSession' \in 1 .. MaxSession + 1 /\ cookie' \in SignIn!Session
        /\ sessions' \in [SignIn!Session -> Pair \cup {None}]
        /\ nextSession' = nextSession + 1 /\ cookie' = nextSession
        /\ \A s \in SignIn!Session : s < nextSession => sessions'[s] \in {sessions[s], None}
    BY <2>3, SignedInTyped
  <2>6. SessionsGivenOnce'
    BY <1>6, <1>t, <2>5 DEF SignIn!LoginByAccount, SessionsGivenOnce, SignIn!Session
  <2> QED
    BY <1>6, <1>t, <1>w, <2>3, <2>4, <2>5, <2>6 DEF SignIn!LoginByAccount, SignIn!Ends, SignIn!keys,
       SignInTypes, SignIn!TypeOK
<1>7. ASSUME NEW r \in Request, SignIn!RemoveIdentity(r) PROVE Goal
  <2>1. siWork[r] \in SignIn!Work /\ Concerns(siWork[r]) /\ siWork[r].pc = "unlink"
    BY <1>7, SignInAt DEF SignIn!RemoveIdentity, SignIn!At
  <2>2. siWork[r].of \in Account
    BY <2>1 DEF Concerns
  <2> QED
    BY <1>7, <1>t, <1>w, <2>2 DEF SignIn!RemoveIdentity, SignIn!Ends, SignIn!keys, SignIn!browser,
       SignInTypes, SignIn!TypeOK, SessionsGivenOnce, SignIn!LinksItsStarter
<1>8. ASSUME NEW r \in Request, SignIn!RemoveCredential(r) PROVE Goal
  BY <1>8, <1>t, <1>w DEF SignIn!RemoveCredential, SignIn!Ends, SignIn!browser, SignIn!links,
     SignInTypes, SignIn!TypeOK, SessionsGivenOnce, SignIn!LinksItsStarter
<1>9. ASSUME NEW r \in Request, SignIn!SaveCredential(r) PROVE Goal
  <2>1. siWork[r] \in SignIn!Work /\ Concerns(siWork[r])
        /\ siWork[r].pc \in {"register", "authenticate"}
    BY <1>9, SignInAt DEF SignIn!SaveCredential, SignIn!At
  <2>2. siWork[r].of \in Passkey /\ siWork[r].user \in Pair /\ siWork[r].counter \in 0 .. MaxCounter
    BY <2>1 DEF Concerns, SignIn!Work
  <2>3. [owner |-> siWork[r].user, counter |-> siWork[r].counter] \in SignIn!Row
    BY <2>2 DEF SignIn!Row
  <2>4. /\ passkeys' \in [Passkey -> SignIn!Row \cup {None}] /\ had' \subseteq Pair
        /\ siOverlapped' \subseteq Pair
    BY <1>9, <1>t, <2>2, <2>3 DEF SignIn!SaveCredential, SignIn!Exposed
  <2>5. SignIn!SignedIn(siWork[r].user) \/ UNCHANGED SignIn!browser
    BY <1>9 DEF SignIn!SaveCredential, SignIn!browser
  <2>6. /\ nextSession' \in 1 .. MaxSession + 1 /\ cookie' \in SignIn!Session \cup {None}
        /\ sessions' \in [SignIn!Session -> Pair \cup {None}] /\ nextSession <= nextSession'
        /\ cookie' # None => cookie' < nextSession'
        /\ \A s \in SignIn!Session : s < nextSession => sessions'[s] \in {sessions[s], None}
    <3>1. CASE SignIn!SignedIn(siWork[r].user)
      BY <2>2, <3>1, <1>t, SignedInTyped DEF SignIn!Session
    <3>2. CASE UNCHANGED SignIn!browser
      BY <1>t, <3>2 DEF SignIn!browser, SessionsGivenOnce
    <3> QED
      BY <2>5, <3>1, <3>2
  <2>7. SessionsGivenOnce'
    BY <1>9, <1>t, <2>6 DEF SignIn!SaveCredential, SessionsGivenOnce, SignIn!Session
  <2> QED
    BY <1>9, <1>t, <1>w, <2>4, <2>6, <2>7 DEF SignIn!SaveCredential, SignIn!Ends, SignIn!links,
       SignInTypes, SignIn!TypeOK, SignIn!LinksItsStarter
<1>10. ASSUME NEW r \in Request, NEW a \in Account, SignIn!Callback(r, a) PROVE Goal
  <2>1. PICK w : /\ w = None \/ (w \in SignIn!Work /\ Concerns(w))
                 /\ siWork' = [siWork EXCEPT ![r] = w] \/ siWork' = siWork
    <3>1. CASE jar.intent = "login"
      <4>1. PICK w : w = [SignIn!Idle EXCEPT !.pc = "login", !.of = a]
        OBVIOUS
      <4>2. w \in SignIn!Work /\ Concerns(w)
        BY <1>0, <4>1 DEF SignIn!Idle, SignIn!Work, Concerns
      <4> QED
        BY <1>10, <3>1, <4>1, <4>2 DEF SignIn!Callback, SignIn!Begins
    <3>2. CASE jar.intent # "login" /\ SignIn!Current # None /\ SignIn!Bound
      <4>1. PICK w : w = [SignIn!Idle EXCEPT !.user = SignIn!Current, !.starter = jar.starter, !.of = a]
        OBVIOUS
      <4>2. jar # None /\ jar \in SignIn!Jar /\ jar.session = cookie
        BY <1>10, <1>t, <3>2 DEF SignIn!Callback, SignIn!Bound
      <4>3. jar.intent = "link_identity"
        BY <3>2, <4>2 DEF SignIn!Jar
      <4>4. SignIn!Current \in Pair /\ SignIn!Current = jar.starter
        BY <3>2, <4>2, <4>3, CurrentIs DEF SessionsGivenOnce
      <4>5. w \in SignIn!Work /\ Concerns(w)
        BY <1>0, <4>1, <4>4 DEF SignIn!Idle, SignIn!Work, Concerns
      <4> QED
        BY <1>10, <3>2, <4>1, <4>5 DEF SignIn!Callback, SignIn!Begins
    <3>3. CASE jar.intent # "login" /\ ~(SignIn!Current # None /\ SignIn!Bound)
      <4>1. siWork' = siWork
        BY <1>10, <3>3 DEF SignIn!Callback
      <4>2. PICK w : w = None
        OBVIOUS
      <4> QED
        BY <4>1, <4>2
    <3> QED
      BY <3>1, <3>2, <3>3
  <2>2. /\ siWork' \in [Request -> SignIn!Work \cup {None}]
        /\ \A q \in Request : siWork'[q] # None => Concerns(siWork'[q])
    BY <1>t, <1>w, <2>1
  <2> QED
    BY <1>10, <1>t, <2>2 DEF SignIn!Callback, SignIn!keys, SignIn!browser, SignIn!links,
       SignInTypes,
       SignIn!TypeOK, SessionsGivenOnce, SignIn!LinksItsStarter
<1>11. ASSUME NEW r \in Request, NEW pc \in {"remove", "unlink"}, NEW x \in Passkey \cup Account,
              (pc = "remove" => x \in Passkey), (pc = "unlink" => x \in Account),
              SignIn!Removes(r, pc, x)
       PROVE  Goal
  <2>1. SignIn!Current \in Pair
    BY <1>11, CurrentIs DEF SignIn!Removes
  <2>2. PICK w : w = [SignIn!Idle EXCEPT !.pc = pc, !.user = SignIn!Current, !.of = x]
    OBVIOUS
  <2>3. w \in SignIn!Work /\ Concerns(w)
    BY <1>0, <1>11, <2>1, <2>2 DEF SignIn!Idle, SignIn!Work, Concerns
  <2>4. siWork' = [siWork EXCEPT ![r] = w]
    BY <1>11, <2>2 DEF SignIn!Removes, SignIn!Begins
  <2> QED
    BY <1>11, <1>t, <1>w, <2>1, <2>3, <2>4 DEF SignIn!Removes, SignIn!keys, SignIn!browser,
       SignIn!links, SignInTypes, SignIn!TypeOK, SessionsGivenOnce, SignIn!LinksItsStarter
<1>12. ASSUME NEW r \in Request, NEW p \in Passkey, SignIn!RegisterVerify(r, p) PROVE Goal
  <2>1. SignIn!Current \in Pair
    BY <1>12, CurrentIs DEF SignIn!RegisterVerify
  <2>2. PICK w : w = [SignIn!Idle EXCEPT !.pc = "register", !.user = SignIn!Current, !.of = p,
                                         !.counter = signed[p]]
    OBVIOUS
  <2>3. w \in SignIn!Work /\ Concerns(w)
    BY <1>t, <2>1, <2>2, AccountsAssumption, SignInAssumption DEF SignIn!Idle, SignIn!Work, Concerns
  <2>4. siWork' = [siWork EXCEPT ![r] = w]
    BY <1>12, <2>2 DEF SignIn!RegisterVerify, SignIn!Begins
  <2> QED
    BY <1>12, <1>t, <1>w, <2>3, <2>4 DEF SignIn!RegisterVerify, SignIn!Consumed, SignIn!browser,
       SignIn!links, SignInTypes, SignIn!TypeOK, SessionsGivenOnce, SignIn!LinksItsStarter
<1>13. ASSUME NEW r \in Request, NEW p \in Passkey, SignIn!AuthenticateVerify(r, p) PROVE Goal
  <2>1. passkeys[p] \in SignIn!Row /\ signed[p] \in 0 .. MaxCounter /\ signed[p] < MaxCounter
    BY <1>13, <1>t DEF SignIn!AuthenticateVerify
  <2>2. passkeys[p].owner \in Pair
    BY <2>1 DEF SignIn!Row
  <2>3. signed[p] + 1 \in 0 .. MaxCounter
    BY <2>1, AccountsAssumption, SignInAssumption
  <2>4. signed' \in [Passkey -> 0 .. MaxCounter]
    BY <1>13, <1>t, <2>3 DEF SignIn!AuthenticateVerify
  <2>5. PICK w : w = [SignIn!Idle EXCEPT !.pc = "authenticate", !.user = passkeys[p].owner, !.of = p,
                                         !.counter = signed'[p]]
    OBVIOUS
  <2>6. w \in SignIn!Work /\ Concerns(w)
    BY <2>2, <2>4, <2>5, AccountsAssumption, SignInAssumption DEF SignIn!Idle, SignIn!Work, Concerns
  <2>7. siWork' = [siWork EXCEPT ![r] = w]
    BY <1>13, <2>5 DEF SignIn!AuthenticateVerify, SignIn!Begins
  <2> QED
    BY <1>13, <1>t, <1>w, <2>4, <2>6, <2>7 DEF SignIn!AuthenticateVerify, SignIn!Consumed,
       SignIn!browser, SignIn!links, SignInTypes, SignIn!TypeOK, SessionsGivenOnce,
       SignIn!LinksItsStarter
<1> QED
  BY <1>c, <1>1, <1>2, <1>3, <1>4, <1>5, <1>6, <1>7, <1>8, <1>9, <1>10, <1>11, <1>12, <1>13
  DEF SignIn!Next, SignIn!vars, SignIn!keys, SignIn!browser, SignIn!links, siVars,
      SignIn!UnlinkIdentity, SignIn!RemovePasskey

\* What the removals under way are, when none begins.
NoneBegins == \A q \in Request : SignIn!Removing(q)' => SignIn!Removing(q) /\ siWork'[q] = siWork[q]

\* A method is of one kind and of one user.
LEMMA MethodsApart ==
    ASSUME SignInTypes
    PROVE  /\ \A u \in Pair, p \in Passkey :
                  p \in SignIn!MethodsOf(u) <=> passkeys[p] # None /\ passkeys[p].owner = u
           /\ \A u \in Pair, a \in Account : a \in SignIn!MethodsOf(u) <=> identities[a] = u
           /\ \A u \in Pair : SignIn!MethodsOf(u) \subseteq Passkey \cup Account
           /\ \A u, v \in Pair : \A x \in SignIn!MethodsOf(u) : x \in SignIn!MethodsOf(v) => u = v
BY AccountsAssumption, SignInAssumption DEF SignIn!MethodsOf

\* A step that begins no removal and moves at most one method, to a user from whom no request is
\* removing it.
LEMMA OneWayKept ==
    ASSUME SignInTypes, OneWayIn, NoneBegins, NEW u \in Pair, NEW x,
           siOverlapped \subseteq siOverlapped',
           had' = had \/ (had' = had \cup {u} /\ x \in SignIn!MethodsOf(u)'),
           \/ \A v \in Pair : SignIn!MethodsOf(v)' = SignIn!MethodsOf(v)
           \/ /\ \A v \in Pair : SignIn!MethodsOf(v)' =
                     IF v = u THEN SignIn!MethodsOf(v) \cup {x} ELSE SignIn!MethodsOf(v)
              /\ (\E q \in Request : SignIn!Removing(q) /\ siWork[q].of = x) => u \in siOverlapped'
    PROVE  OneWayIn'
<1>0. /\ \A q \in Request : SignIn!Removing(q)' => SignIn!Removing(q) /\ siWork'[q] = siWork[q]
      /\ \A v \in Pair : SignIn!MethodsOf(v) \subseteq SignIn!MethodsOf(v)'
      /\ \A v \in Pair : v \notin siOverlapped' => v \notin siOverlapped
  BY DEF NoneBegins
<1>1. RemovesOne'
  BY <1>0 DEF OneWayIn, RemovesOne
<1>2. LeavesOne'
  <2> SUFFICES ASSUME NEW v \in Pair, v \notin siOverlapped', NEW r \in Request, SignIn!Removing(r)',
                      siWork'[r].user = v
               PROVE  SignIn!MethodsOf(v)' \ {siWork'[r].of} # {}
    BY DEF LeavesOne, SignIn!Others
  <2>1. SignIn!MethodsOf(v) \ {siWork[r].of} # {}
    BY <1>0 DEF OneWayIn, LeavesOne, SignIn!Others
  <2>2. siWork'[r] = siWork[r] /\ SignIn!MethodsOf(v) \subseteq SignIn!MethodsOf(v)'
    BY <1>0
  <2> QED
    BY <2>1, <2>2
<1>3. RemovesOwn'
  <2> SUFFICES ASSUME NEW r \in Request, SignIn!Removing(r)', NEW v \in Pair, v \notin siOverlapped',
                      Takes(r, v)'
               PROVE  siWork'[r].user = v
    BY DEF RemovesOwn
  <2>1. SignIn!Removing(r) /\ siWork'[r] = siWork[r] /\ v \notin siOverlapped
    BY <1>0
  <2>2. siWork[r].of \in SignIn!MethodsOf(v)'
    BY <2>1 DEF Takes
  <2>3. siWork[r].of \in SignIn!MethodsOf(v)
    BY <2>1, <2>2
  <2> QED
    BY <2>1, <2>3 DEF OneWayIn, RemovesOwn, Takes
<1>4. SignIn!KeepsOneWayIn'
  <2> SUFFICES ASSUME NEW v \in had' \ siOverlapped' PROVE SignIn!MethodsOf(v)' # {}
    BY DEF SignIn!KeepsOneWayIn
  <2>1. v \in Pair
    BY DEF SignInTypes, SignIn!TypeOK
  <2>2. CASE v \in had
    BY <1>0, <2>1, <2>2 DEF OneWayIn, SignIn!KeepsOneWayIn
  <2>3. CASE v \notin had
    BY <2>3
  <2> QED
    BY <2>2, <2>3
<1> QED
  BY <1>1, <1>2, <1>3, <1>4 DEF OneWayIn

\* A removal begins for a user to whom another method is left.
LEMMA RemovalBegins ==
    ASSUME SignInTypes, OneWayIn, NEW r \in Request, NEW pc \in {"remove", "unlink"}, NEW x,
           SignIn!Removes(r, pc, x)
    PROVE  OneWayIn'
<1>1. PICK u \in Pair : u = SignIn!Current
  BY CurrentIs DEF SignIn!Removes
<1>2. PICK w : w = [SignIn!Idle EXCEPT !.pc = pc, !.user = u, !.of = x]
  OBVIOUS
<1>3. w.pc = pc /\ w.user = u /\ w.of = x
  BY <1>2 DEF SignIn!Idle
<1>4. siWork[r] = None /\ siWork' = [siWork EXCEPT ![r] = w]
  BY <1>1, <1>2 DEF SignIn!Removes, SignIn!Begins
<1>5. /\ siOverlapped \subseteq siOverlapped'
      /\ (\E q \in Request : SignIn!Removing(q) /\ siWork[q].user = u) => u \in siOverlapped'
  BY <1>1 DEF SignIn!Removes
<1>6. /\ had' = had /\ x \in SignIn!MethodsOf(u) /\ SignIn!Others(u, x) # {}
      /\ passkeys' = passkeys /\ identities' = identities
  BY <1>1 DEF SignIn!Removes, SignIn!keys, SignIn!links
<1>7. siWork'[r] = w /\ \A q \in Request : q # r => siWork'[q] = siWork[q]
  BY <1>4 DEF SignInTypes, SignIn!TypeOK
<1>8. \A v : SignIn!MethodsOf(v)' = SignIn!MethodsOf(v)
  BY <1>6 DEF SignIn!MethodsOf
<1>9. \A q \in Request : SignIn!Removing(q)' /\ q # r => SignIn!Removing(q) /\ siWork'[q] = siWork[q]
  BY <1>7 DEF SignIn!Removing
<1>10. RemovesOwn'
  <2> SUFFICES ASSUME NEW q \in Request, SignIn!Removing(q)', NEW v \in Pair, v \notin siOverlapped',
                      siWork'[q].of \in SignIn!MethodsOf(v)
               PROVE  siWork'[q].user = v
    BY <1>8 DEF RemovesOwn, Takes
  <2>1. CASE q = r
    BY <1>3, <1>6, <1>7, <2>1, MethodsApart
  <2>2. CASE q # r
    BY <1>5, <1>9, <2>2 DEF OneWayIn, RemovesOwn, Takes
  <2> QED
    BY <2>1, <2>2
<1>11. RemovesOne'
  BY <1>3, <1>5, <1>7, <1>9 DEF OneWayIn, RemovesOne
<1>12. LeavesOne'
  <2> SUFFICES ASSUME NEW v \in Pair, v \notin siOverlapped', NEW q \in Request, SignIn!Removing(q)',
                      siWork'[q].user = v
               PROVE  SignIn!MethodsOf(v) \ {siWork'[q].of} # {}
    BY <1>8 DEF LeavesOne, SignIn!Others
  <2>1. CASE q = r
    BY <1>3, <1>6, <1>7, <2>1 DEF SignIn!Others
  <2>2. CASE q # r
    BY <1>5, <1>9, <2>2 DEF OneWayIn, LeavesOne, SignIn!Others
  <2> QED
    BY <2>1, <2>2
<1>13. SignIn!KeepsOneWayIn'
  BY <1>5, <1>6, <1>8 DEF OneWayIn, SignIn!KeepsOneWayIn
<1> QED
  BY <1>10, <1>11, <1>12, <1>13 DEF OneWayIn

\* A removal ends: its user has the method that was left, and another whose method it took had got
\* that method since.
LEMMA RemovalEnds ==
    ASSUME SignInTypes, OneWayIn, NEW r \in Request, SignIn!Removing(r), SignIn!Ends(r),
           had' = had, siOverlapped' = siOverlapped,
           \A v \in Pair : SignIn!MethodsOf(v)' = SignIn!MethodsOf(v) \ {siWork[r].of}
    PROVE  OneWayIn'
<1>1. siWork'[r] = None /\ \A q \in Request : q # r => siWork'[q] = siWork[q]
  BY DEF SignInTypes, SignIn!TypeOK, SignIn!Ends
<1>2. \A q \in Request : SignIn!Removing(q)' =>
          SignIn!Removing(q) /\ q # r /\ siWork'[q] = siWork[q]
  BY <1>1 DEF SignIn!Removing
<1>3. RemovesOne'
  BY <1>2 DEF OneWayIn, RemovesOne
<1>4. RemovesOwn'
  BY <1>2 DEF OneWayIn, RemovesOwn, Takes
<1>5. LeavesOne'
  <2> SUFFICES ASSUME NEW v \in Pair, v \notin siOverlapped, NEW q \in Request, SignIn!Removing(q)',
                      siWork'[q].user = v
               PROVE  SignIn!MethodsOf(v)' \ {siWork'[q].of} # {}
    BY DEF LeavesOne, SignIn!Others
  <2>1. SignIn!Removing(q) /\ q # r /\ siWork'[q] = siWork[q]
    BY <1>2
  <2>2. siWork[r].user # v
    BY <2>1 DEF OneWayIn, RemovesOne
  <2>3. siWork[r].of \notin SignIn!MethodsOf(v)
    BY <2>2 DEF OneWayIn, RemovesOwn, Takes
  <2>4. SignIn!MethodsOf(v)' = SignIn!MethodsOf(v) \ {siWork[r].of}
    OBVIOUS
  <2> QED
    BY <2>1, <2>3, <2>4 DEF OneWayIn, LeavesOne, SignIn!Others
<1>6. SignIn!KeepsOneWayIn'
  <2> SUFFICES ASSUME NEW v \in had \ siOverlapped PROVE SignIn!MethodsOf(v)' # {}
    BY DEF SignIn!KeepsOneWayIn
  <2>1. v \in Pair /\ SignIn!MethodsOf(v)' = SignIn!MethodsOf(v) \ {siWork[r].of}
    BY DEF SignInTypes, SignIn!TypeOK
  <2>2. CASE siWork[r].of \in SignIn!MethodsOf(v)
    BY <2>1, <2>2 DEF OneWayIn, RemovesOwn, LeavesOne, Takes, SignIn!Others
  <2>3. CASE siWork[r].of \notin SignIn!MethodsOf(v)
    BY <2>1, <2>3 DEF OneWayIn, SignIn!KeepsOneWayIn
  <2> QED
    BY <2>2, <2>3
<1> QED
  BY <1>3, <1>4, <1>5, <1>6 DEF OneWayIn

\* A request that begins or ends and is no removal begins none.
LEMMA NoRemoval ==
    ASSUME SignInTypes, NEW r \in Request, NEW w, siWork' = [siWork EXCEPT ![r] = w],
           w # None => w.pc \notin {"remove", "unlink"}
    PROVE  NoneBegins
BY DEF NoneBegins, SignIn!Removing, SignInTypes, SignIn!TypeOK

\* An account that is linked where nobody had it is one method more for its user.
LEMMA LinkedGains ==
    ASSUME SignInTypes, OneWayIn, NoneBegins, NEW a \in Account, NEW u \in Pair, NEW s,
           SignIn!Linked(a, u, s), passkeys' = passkeys,
           had' = had \/ (had' = had \cup {u} /\ identities[a] \in {u, None})
    PROVE  OneWayIn'
<1>1. CASE identities[a] = None
  <2>1. /\ identities' = [identities EXCEPT ![a] = u] /\ siOverlapped \subseteq siOverlapped'
        /\ (\E q \in Request : SignIn!Removing(q) /\ siWork[q].of = a) => u \in siOverlapped'
    BY <1>1 DEF SignIn!Linked, SignIn!Exposed
  <2>2. \A v \in Pair : SignIn!MethodsOf(v)' =
            IF v = u THEN SignIn!MethodsOf(v) \cup {a} ELSE SignIn!MethodsOf(v)
    BY <1>1, <2>1, AccountsAssumption, SignInAssumption DEF SignIn!MethodsOf, SignInTypes,
       SignIn!TypeOK
  <2> QED
    BY <2>1, <2>2, OneWayKept
<1>2. CASE identities[a] # None
  <2>1. UNCHANGED <<identities, siOverlapped>>
    BY <1>2 DEF SignIn!Linked, SignIn!links
  <2>2. \A v \in Pair : SignIn!MethodsOf(v)' = SignIn!MethodsOf(v)
    BY <2>1 DEF SignIn!MethodsOf
  <2>3. had' = had \cup {u} /\ identities[a] \in {u, None} => a \in SignIn!MethodsOf(u)'
    BY <1>2, <2>1 DEF SignIn!MethodsOf
  <2> QED
    BY <2>1, <2>2, <2>3, OneWayKept
<1> QED
  BY <1>1, <1>2

\* Every step leaves users a way in.
LEMMA OneWayNext ==
    ASSUME SignInTypes, OneWayIn, [SignIn!Next]_siVars
    PROVE  OneWayIn'
<1>k. ASSUME NoneBegins, UNCHANGED <<passkeys, identities, had, siOverlapped>> PROVE OneWayIn'
  <2>1. \A v : SignIn!MethodsOf(v)' = SignIn!MethodsOf(v)
    BY <1>k DEF SignIn!MethodsOf
  <2>2. CASE Pair # {}
    <3>1. PICK u \in Pair : TRUE
      BY <2>2
    <3> QED
      BY <1>k, <2>1, <3>1, OneWayKept
  <2>3. CASE Pair = {}
    BY <1>k, <2>3 DEF OneWayIn, RemovesOwn, RemovesOne, LeavesOne, SignIn!KeepsOneWayIn,
       SignInTypes,
       SignIn!TypeOK
  <2> QED
    BY <2>2, <2>3
<1>b. ASSUME NEW r \in Request, NEW w, SignIn!Begins(r, w), w.pc \notin {"remove", "unlink"}
      PROVE  NoneBegins
  BY <1>b, NoRemoval DEF SignIn!Begins
<1>e. ASSUME NEW r \in Request, SignIn!Ends(r) PROVE NoneBegins
  BY <1>e, NoRemoval DEF SignIn!Ends
<1>s. ASSUME siWork' = siWork PROVE NoneBegins
  BY <1>s DEF NoneBegins, SignIn!Removing
<1>1. ASSUME \/ SignIn!SignOut \/ SignIn!ChallengeExpires \/ UNCHANGED siVars
             \/ \E intent \in {"login", "link_identity"} : SignIn!Authorize(intent)
             \/ \E purpose \in {"registration", "authentication"} : SignIn!Options(purpose)
      PROVE  OneWayIn'
  BY <1>1, <1>k, <1>s DEF SignIn!SignOut, SignIn!ChallengeExpires, SignIn!Authorize, SignIn!Options,
     SignIn!keys, SignIn!links, siVars
<1>2. ASSUME NEW r \in Request, SignIn!LinkIdentity(r) PROVE OneWayIn'
  <2>1. siWork[r].pc = "link" /\ siWork[r].of \in Account /\ siWork[r].user \in Pair
    BY <1>2, SignInAt DEF SignIn!LinkIdentity, SignIn!At, Concerns
  <2> QED
    BY <1>2, <1>e, <2>1, LinkedGains DEF SignIn!LinkIdentity, SignIn!keys
<1>3. ASSUME NEW r \in Request, SignIn!LoginByAccount(r) PROVE OneWayIn'
  <2>1. siWork[r].pc = "login" /\ siWork[r].of \in Account
    BY <1>3, SignInAt DEF SignIn!LoginByAccount, SignIn!At, Concerns
  <2>2. PICK u \in Pair : /\ had' = had \cup {u} /\ SignIn!Linked(siWork[r].of, u, u)
                          /\ identities[siWork[r].of] \in {u, None}
    BY <1>3, <2>1 DEF SignIn!LoginByAccount, SignInTypes, SignIn!TypeOK
  <2> QED
    BY <1>3, <1>e, <2>1, <2>2, LinkedGains DEF SignIn!LoginByAccount, SignIn!keys
<1>4. ASSUME NEW r \in Request, SignIn!RemoveIdentity(r) PROVE OneWayIn'
  <2>1. siWork[r].pc = "unlink" /\ siWork[r].of \in Account /\ SignIn!Removing(r)
    BY <1>4, SignInAt DEF SignIn!RemoveIdentity, SignIn!At, Concerns, SignIn!Removing
  <2>2. \A v \in Pair : SignIn!MethodsOf(v)' = SignIn!MethodsOf(v) \ {siWork[r].of}
    BY <1>4, <2>1, AccountsAssumption, SignInAssumption DEF SignIn!RemoveIdentity, SignIn!keys,
       SignIn!MethodsOf,
       SignInTypes, SignIn!TypeOK
  <2> QED
    BY <1>4, <2>1, <2>2, RemovalEnds DEF SignIn!RemoveIdentity
<1>5. ASSUME NEW r \in Request, SignIn!RemoveCredential(r) PROVE OneWayIn'
  <2>1. siWork[r].pc = "remove" /\ siWork[r].of \in Passkey /\ SignIn!Removing(r)
    BY <1>5, SignInAt DEF SignIn!RemoveCredential, SignIn!At, Concerns, SignIn!Removing
  <2>2. \A v \in Pair : SignIn!MethodsOf(v)' = SignIn!MethodsOf(v) \ {siWork[r].of}
    BY <1>5, <2>1, AccountsAssumption, SignInAssumption DEF SignIn!RemoveCredential,
       SignIn!links, SignIn!MethodsOf,
       SignInTypes, SignIn!TypeOK
  <2> QED
    BY <1>5, <2>1, <2>2, RemovalEnds DEF SignIn!RemoveCredential
<1>6. ASSUME NEW r \in Request, SignIn!SaveCredential(r) PROVE OneWayIn'
  <2>1. PICK w : w = siWork[r]
    OBVIOUS
  <2>2. w.of \in Passkey /\ w.user \in Pair
    BY <1>6, <2>1, SignInAt DEF SignIn!SaveCredential, SignIn!At, Concerns
  <2>3. PICK row : row = [owner |-> w.user, counter |-> w.counter]
    OBVIOUS
  <2>4. NoneBegins /\ identities' = identities
    BY <1>6, <1>e DEF SignIn!SaveCredential, SignIn!links
  <2>5. CASE SignIn!Accepts(w.of, row)
    <3>1. /\ passkeys' = [passkeys EXCEPT ![w.of] = row] /\ had' = had \cup {w.user}
          /\ SignIn!Exposed(w.user, w.of)
      BY <1>6, <2>1, <2>3, <2>5 DEF SignIn!SaveCredential
    <3>2. row # None /\ row.owner = w.user /\ (passkeys[w.of] # None => passkeys[w.of].owner = w.user)
      <4>1. w.counter \in 0 .. MaxCounter
        BY <1>6, <2>1, SignInAt DEF SignIn!SaveCredential, SignIn!At, SignIn!Work
      <4>2. row \in SignIn!Row
        BY <2>2, <2>3, <4>1 DEF SignIn!Row
      <4> QED
        BY <2>3, <2>5, <4>2, AccountsAssumption, SignInAssumption DEF SignIn!Accepts
    <3>3. \A v \in Pair : SignIn!MethodsOf(v)' =
              IF v = w.user THEN SignIn!MethodsOf(v) \cup {w.of} ELSE SignIn!MethodsOf(v)
      BY <2>2, <2>4, <3>1, <3>2, AccountsAssumption, SignInAssumption DEF SignIn!MethodsOf,
         SignInTypes, SignIn!TypeOK
    <3>4. /\ siOverlapped \subseteq siOverlapped'
          /\ (\E q \in Request : SignIn!Removing(q) /\ siWork[q].of = w.of) => w.user \in siOverlapped'
      BY <3>1 DEF SignIn!Exposed
    <3>5. w.of \in SignIn!MethodsOf(w.user)'
      BY <2>2, <3>3
    <3> QED
      BY <2>2, <2>4, <3>1, <3>3, <3>4, <3>5, OneWayKept
  <2>6. CASE ~SignIn!Accepts(w.of, row)
    BY <1>6, <1>k, <2>1, <2>3, <2>4, <2>6 DEF SignIn!SaveCredential
  <2> QED
    BY <2>5, <2>6
<1>7. ASSUME NEW r \in Request, NEW a \in Account, SignIn!Callback(r, a) PROVE OneWayIn'
  <2>1. CASE siWork' = siWork
    BY <1>7, <1>k, <1>s, <2>1 DEF SignIn!Callback, SignIn!keys, SignIn!links
  <2>2. CASE siWork' # siWork
    <3>1. PICK w : SignIn!Begins(r, w) /\ w.pc \in {"login", "link"}
      <4>1. [SignIn!Idle EXCEPT !.pc = "login", !.of = a].pc = "login"
        BY DEF SignIn!Idle
      <4>2. [SignIn!Idle EXCEPT !.user = SignIn!Current, !.starter = jar.starter, !.of = a].pc = "link"
        BY DEF SignIn!Idle
      <4> QED
        BY <1>7, <2>2, <4>1, <4>2 DEF SignIn!Callback
    <3> QED
      BY <1>7, <1>k, <1>b, <3>1 DEF SignIn!Callback, SignIn!keys, SignIn!links
  <2> QED
    BY <2>1, <2>2
<1>8. ASSUME NEW r \in Request, NEW p \in Passkey, SignIn!RegisterVerify(r, p) PROVE OneWayIn'
  <2>1. PICK w : SignIn!Begins(r, w) /\ w.pc = "register"
    <3>1. [SignIn!Idle EXCEPT !.pc = "register", !.user = SignIn!Current, !.of = p,
                              !.counter = signed[p]].pc = "register"
      BY DEF SignIn!Idle
    <3> QED
      BY <1>8, <3>1 DEF SignIn!RegisterVerify
  <2> QED
    BY <1>8, <1>k, <1>b, <2>1 DEF SignIn!RegisterVerify, SignIn!links
<1>9. ASSUME NEW r \in Request, NEW p \in Passkey, SignIn!AuthenticateVerify(r, p) PROVE OneWayIn'
  <2>1. PICK w : SignIn!Begins(r, w) /\ w.pc = "authenticate"
    <3>1. [SignIn!Idle EXCEPT !.pc = "authenticate", !.user = passkeys[p].owner, !.of = p,
                              !.counter = signed'[p]].pc = "authenticate"
      BY DEF SignIn!Idle
    <3> QED
      BY <1>9, <3>1 DEF SignIn!AuthenticateVerify
  <2> QED
    BY <1>9, <1>k, <1>b, <2>1 DEF SignIn!AuthenticateVerify, SignIn!links
<1> QED
  BY <1>1, <1>2, <1>3, <1>4, <1>5, <1>6, <1>7, <1>8, <1>9, RemovalBegins
  DEF SignIn!Next, SignIn!UnlinkIdentity, SignIn!RemovePasskey

\* Every step of the ways to sign in keeps the invariant.
LEMMA SignInNext == SignInInv /\ [SignIn!Next]_siVars => SignInInv'
BY SignInTypesNext, OneWayNext DEF SignInInv

\* What the store refuses, the counter of a passkey that is there already cannot go back.
LEMMA CounterNext ==
    ASSUME SignInTypes, [SignIn!Next]_siVars, NEW p \in Passkey,
           passkeys[p] # None, passkeys'[p] # None
    PROVE  passkeys'[p].counter >= passkeys[p].counter
<1>1. passkeys[p].counter \in Nat
  BY DEF SignInTypes, SignIn!TypeOK, SignIn!Row
<1>2. CASE passkeys'[p] = passkeys[p]
  BY <1>1, <1>2
<1>3. ASSUME NEW r \in Request, SignIn!SaveCredential(r), passkeys'[p] # passkeys[p]
      PROVE  passkeys'[p].counter >= passkeys[p].counter
  BY <1>3 DEF SignIn!SaveCredential, SignIn!Accepts, SignInTypes, SignIn!TypeOK
<1>4. ASSUME NEW r \in Request, SignIn!RemoveCredential(r), passkeys'[p] # passkeys[p] PROVE FALSE
  BY <1>4 DEF SignIn!RemoveCredential, SignInTypes, SignIn!TypeOK
<1>5. ASSUME passkeys' # passkeys
      PROVE  \E r \in Request : SignIn!SaveCredential(r) \/ SignIn!RemoveCredential(r)
  BY <1>5 DEF SignIn!Next, siVars, SignIn!SignOut, SignIn!ChallengeExpires, SignIn!Authorize,
     SignIn!Options, SignIn!LinkIdentity, SignIn!LoginByAccount, SignIn!RemoveIdentity,
     SignIn!Callback, SignIn!UnlinkIdentity, SignIn!RemovePasskey, SignIn!Removes,
     SignIn!RegisterVerify, SignIn!AuthenticateVerify, SignIn!keys
<1> QED
  BY <1>2, <1>3, <1>4, <1>5

-------------------------------------------------------------------------------

(* MobileClient.                                                              *)

Shows(p) == Mobile!Rotating(p, "exchange") \/ Mobile!Rotating(p, "save")
MobileTypes ==
    /\ Mobile!TypeOK
    /\ \A p \in Mobile!Process : Shows(p) => refreshing[p].token # None
    /\ \A c \in Request : callbacks[c] # None /\ callbacks[c].pc # "reject" =>
                               callbacks[c].of \in Mobile!SignIn

\* withLock: whoever rotates holds the lock.
OneRotates == \A p \in Mobile!Process : refreshing[p] # None => lock = p

\* A token that the client holds was issued, and none is held yet of the family whose first token
\* a callback is about to save; one callback alone saves it.
Saving(f) == \E c \in Request : Mobile!At(c, "save") /\ callbacks[c].of = f
SavesAlone ==
    \A c, d \in Request :
        Mobile!At(c, "save") /\ Mobile!At(d, "save") /\ callbacks[c].of = callbacks[d].of => c = d
Minted(t) == t[2] <= server[t[1]] /\ ~Saving(t[1])
HoldsMinted ==
    /\ store # None => Minted(store)
    /\ \A p \in Mobile!Process : Shows(p) => Minted(refreshing[p].token)
    /\ \A f \in Mobile!SignIn : Saving(f) => server[f] = 1
    /\ SavesAlone

\* The client holds the latest token, but of a family that ended or whose latest token was lost;
\* the stored one is also earlier while its successor is being saved.
Excused(f) == f \in ended \/ f \in broken
HoldsLatest ==
    /\ store # None =>
          \/ store = Mobile!Latest(store[1]) \/ Excused(store[1])
          \/ \E p \in Mobile!Process :
                 Mobile!Rotating(p, "save") /\ refreshing[p].token[1] = store[1]
    /\ \A p \in Mobile!Process : LET t == refreshing[p].token IN
          /\ Mobile!Rotating(p, "exchange") => t = Mobile!Latest(t[1]) \/ Excused(t[1])
          /\ Mobile!Rotating(p, "save") => t = Mobile!Latest(t[1])

\* Signed out, nothing is stored or on its way to the storage; and so it is, key by key, while
\* a sign-out clears the storage alone.
ClearsAlone == leaving # None /\ leaving.pc = "clear" /\ leaving.alone
NothingCleared ==
    leaving # None /\ leaving.pc = "revoke" => leaving.left = {"authorization", "token"}
Out ==
    /\ NothingCleared
    /\ signedOut =>
          /\ store = None /\ moPending = None
          /\ \A c \in Request : callbacks[c] # None => callbacks[c].pc = "reject"
          /\ \A p \in Mobile!Process : ~Shows(p)
    /\ ClearsAlone =>
          /\ Mobile!Quiet
          /\ "token" \notin leaving.left => store = None
          /\ "authorization" \notin leaving.left => moPending = None

MobileInv ==
    /\ MobileTypes
    /\ OneRotates
    /\ HoldsMinted
    /\ HoldsLatest
    /\ Mobile!NoSelfInflictedReuse
    /\ Out

\* At first the client holds nothing.
LEMMA MobileInit == Mobile!Init => MobileInv
<1>0. 1 \in 1 .. MaxSignIn + 1 /\ 0 \in 0 .. MaxGeneration /\ 0 \in 0 .. MaxLoss
  BY AccountsAssumption, MobileAssumption
<1>1. Mobile!Init => MobileTypes
  BY <1>0 DEF Mobile!Init, MobileTypes, Mobile!TypeOK, Shows, Mobile!Rotating
<1>2. Mobile!Init => OneRotates /\ HoldsMinted /\ HoldsLatest /\ Out
  BY DEF Mobile!Init, OneRotates, HoldsMinted, HoldsLatest, Out, Shows, Mobile!Rotating, Saving,
     SavesAlone, Mobile!SignIn, Mobile!At, ClearsAlone, NothingCleared
<1> QED
  BY <1>1, <1>2 DEF MobileInv, Mobile!Init, Mobile!NoSelfInflictedReuse

\* What a rotation is while it is under way.
LEMMA RotationAt ==
    ASSUME MobileTypes, NEW p \in Mobile!Process, Shows(p)
    PROVE  /\ refreshing[p] # None /\ refreshing[p].token \in Mobile!Token
           /\ refreshing[p].token[1] \in Mobile!SignIn
           /\ refreshing[p].token[2] \in 1 .. MaxGeneration
           /\ refreshing[p].token = <<refreshing[p].token[1], refreshing[p].token[2]>>
BY DEF MobileTypes, Mobile!TypeOK, Shows, Mobile!Rotating, Mobile!Token

\* Every step keeps the types.
LEMMA MobileTypesNext ==
    ASSUME MobileTypes, [Mobile!Next]_moVars
    PROVE  MobileTypes'
<1> DEFINE Step == [pc : {"read", "exchange", "save"}, token : Mobile!Token \cup {None}]
<1> DEFINE Known(k) == k = None \/ (k \in Mobile!Callback
                                     /\ (k.pc # "reject" => k.of \in Mobile!SignIn))
<1> DEFINE Leaves == leaving' \in Mobile!Leaving \cup {None}
<1> DEFINE Rotations == /\ refreshing' \in [Mobile!Process -> Step \cup {None}]
                        /\ \A q \in Mobile!Process : Shows(q)' => refreshing'[q].token # None
<1> DEFINE Arrivals == /\ callbacks' \in [Request -> Mobile!Callback \cup {None}]
                       /\ \A c \in Request : callbacks'[c] # None /\ callbacks'[c].pc # "reject" =>
                                                  callbacks'[c].of \in Mobile!SignIn
<1>t. /\ store \in Mobile!Token \cup {None} /\ moPending \in Mobile!SignIn \cup {None}
      /\ lock \in Mobile!Process \cup {None}
      /\ access \in Mobile!SignIn \cup {None} /\ principal \in {"unknown", "user", "nobody"}
      /\ nextSignIn \in 1 .. MaxSignIn + 1
      /\ refreshing \in [Mobile!Process -> Step \cup {None}]
      /\ callbacks \in [Request -> Mobile!Callback \cup {None}]
      /\ leaving \in Mobile!Leaving \cup {None}
      /\ requesting \in BOOLEAN
      /\ server \in [Mobile!SignIn -> 0 .. MaxGeneration] /\ ended \subseteq Mobile!SignIn
      /\ losses \in 0 .. MaxLoss /\ broken \subseteq Mobile!SignIn /\ reused \subseteq Mobile!SignIn
      /\ signedOut \in BOOLEAN
      /\ \A p \in Mobile!Process : Shows(p) => refreshing[p].token # None
      /\ \A c \in Request : Known(callbacks[c])
  BY DEF MobileTypes, Mobile!TypeOK
<1>v. ASSUME /\ store' \in Mobile!Token \cup {None} /\ moPending' \in Mobile!SignIn \cup {None}
             /\ lock' \in Mobile!Process \cup {None}
             /\ access' \in Mobile!SignIn \cup {None} /\ principal' \in {"unknown", "user", "nobody"}
             /\ nextSignIn' \in 1 .. MaxSignIn + 1 /\ requesting' \in BOOLEAN
             /\ server' \in [Mobile!SignIn -> 0 .. MaxGeneration] /\ ended' \subseteq Mobile!SignIn
             /\ losses' \in 0 .. MaxLoss /\ broken' \subseteq Mobile!SignIn
             /\ reused' \subseteq Mobile!SignIn /\ signedOut' \in BOOLEAN,
             Leaves, Rotations, Arrivals
      PROVE  MobileTypes'
  BY <1>v DEF MobileTypes, Mobile!TypeOK
<1> USE DEF Mobile!stored, Mobile!memory, Mobile!calls, Mobile!remote, Mobile!histories,
           Mobile!Publishes
<1>f. Mobile!Fails => losses' \in 0 .. MaxLoss
  BY <1>t, AccountsAssumption, MobileAssumption DEF Mobile!Fails
<1>r. ASSUME NEW p \in Mobile!Process, NEW x, refreshing' = [refreshing EXCEPT ![p] = x],
             x = None \/ (x \in Step /\ (x.pc \in {"exchange", "save"} => x.token # None))
      PROVE  Rotations
  BY <1>r, <1>t DEF Shows, Mobile!Rotating
<1>e. refreshing' = refreshing => Rotations
  BY <1>t DEF Shows, Mobile!Rotating
<1>n. ASSUME NEW p \in Mobile!Process, Mobile!Returns(p) PROVE Rotations
  BY <1>n, <1>r DEF Mobile!Returns
<1>c. ASSUME NEW c \in Request, NEW k, callbacks' = [callbacks EXCEPT ![c] = k], Known(k)
      PROVE  Arrivals
  BY <1>c, <1>t
<1>d. callbacks' = callbacks => Arrivals
  BY <1>t
<1>g. ASSUME NEW c \in Request, callbacks[c] # None, callbacks[c].pc # "reject",
             NEW pc \in {"error", "remove", "exchange", "save"}, Mobile!Goes(c, pc)
      PROVE  Arrivals
  <2>1. PICK k : k = [callbacks[c] EXCEPT !.pc = pc]
    OBVIOUS
  <2>2. Known(k)
    BY <1>g, <1>t, <2>1 DEF Mobile!Callback
  <2> QED
    BY <1>c, <1>g, <2>1, <2>2 DEF Mobile!Goes
<1>j. ASSUME NEW c \in Request, Mobile!Rejects(c) PROVE Arrivals
  <2>1. Known(Mobile!Rejecting)
    BY DEF Mobile!Rejecting, Mobile!Callback
  <2> QED
    BY <1>c, <1>j, <2>1 DEF Mobile!Rejects
<1>o. Mobile!Crosses => Leaves
  BY <1>t DEF Mobile!Crosses, Mobile!Leaving
<1>p. leaving' = leaving => Leaves
  BY <1>t
<1>l. ASSUME NEW p \in Mobile!Process, Mobile!Unlocks(p)
      PROVE  lock' \in Mobile!Process \cup {None}
  BY <1>l, <1>t DEF Mobile!Unlocks
<1>s. ASSUME NEW token \in Mobile!Token, Mobile!Accepted(token) \/ Mobile!Refused(token)
      PROVE  /\ store' \in Mobile!Token \cup {None} /\ losses' \in 0 .. MaxLoss
             /\ broken' \subseteq Mobile!SignIn
  <2>1. token[1] \in Mobile!SignIn
    BY DEF Mobile!Token
  <2> QED
    BY <1>s, <1>t, <1>f, <2>1 DEF Mobile!Accepted, Mobile!Refused
<1> HIDE DEF Step, Known, Leaves, Rotations, Arrivals
<1>1. ASSUME Mobile!StartSignIn PROVE MobileTypes'
  <2>1. nextSignIn + 1 \in 1 .. MaxSignIn + 1
    BY <1>1, AccountsAssumption, MobileAssumption DEF Mobile!StartSignIn, Mobile!SignIn
  <2> QED
    BY <1>1, <1>t, <1>v, <1>d, <1>e, <1>o, <2>1 DEF Mobile!StartSignIn
<1>2. ASSUME Mobile!AbortSignIn PROVE MobileTypes'
  BY <1>2, <1>t, <1>v, <1>d, <1>e, <1>p DEF Mobile!AbortSignIn
<1>3. ASSUME NEW c \in Request, Mobile!EndRejected(c) PROVE MobileTypes'
  <2>1. Arrivals
    <3>1. Known(None)
      BY DEF Known
    <3> QED
      BY <1>3, <1>c, <3>1 DEF Mobile!EndRejected
  <2> QED
    BY <1>3, <1>t, <1>v, <1>f, <1>e, <1>p, <2>1 DEF Mobile!EndRejected
<1>4. ASSUME NEW c \in Request, Mobile!ReceiveCallback(c) PROVE MobileTypes'
  <2>1. Arrivals
    <3>1. CASE Mobile!Rejects(c)
      BY <1>j, <3>1
    <3>2. CASE moPending # None /\ \E pc \in {"error", "remove"} :
                 callbacks' = [callbacks EXCEPT ![c] = [pc |-> pc, of |-> moPending]]
      <4>1. PICK pc \in {"error", "remove"} :
                 callbacks' = [callbacks EXCEPT ![c] = [pc |-> pc, of |-> moPending]]
        BY <3>2
      <4>2. Known([pc |-> pc, of |-> moPending])
        BY <1>t, <3>2 DEF Known, Mobile!Callback
      <4> QED
        BY <1>c, <4>1, <4>2
    <3> QED
      BY <1>4, <3>1, <3>2 DEF Mobile!ReceiveCallback
  <2> QED
    BY <1>4, <1>t, <1>v, <1>e, <1>o, <2>1 DEF Mobile!ReceiveCallback
<1>5. ASSUME NEW c \in Request, Mobile!RemovePending(c) PROVE MobileTypes'
  <2>1. callbacks[c] # None /\ callbacks[c].pc # "reject"
    BY <1>5 DEF Mobile!RemovePending, Mobile!At
  <2>2. \/ Mobile!Rejects(c) \/ Mobile!Goes(c, "exchange")
        \/ callbacks' = [callbacks EXCEPT ![c] = None]
    BY <1>5 DEF Mobile!RemovePending
  <2>3. Known(None)
    BY DEF Known
  <2>4. Arrivals
    BY <1>c, <1>g, <1>j, <2>1, <2>2, <2>3
  <2> QED
    BY <1>5, <1>t, <1>v, <1>f, <1>e, <1>p, <2>4 DEF Mobile!RemovePending
<1>6. ASSUME NEW c \in Request, Mobile!ExchangeCode(c) PROVE MobileTypes'
  <2>1. callbacks[c] # None /\ callbacks[c].pc # "reject"
    BY <1>6 DEF Mobile!ExchangeCode, Mobile!At
  <2>2. Arrivals
    BY <1>6, <1>g, <1>j, <2>1 DEF Mobile!ExchangeCode
  <2>3. 1 \in 0 .. MaxGeneration
    BY AccountsAssumption, MobileAssumption
  <2>4. server' \in [Mobile!SignIn -> 0 .. MaxGeneration]
    BY <1>6, <1>t, <2>3 DEF Mobile!ExchangeCode
  <2> QED
    BY <1>6, <1>t, <1>v, <1>f, <1>e, <1>p, <2>2, <2>4 DEF Mobile!ExchangeCode
<1>7. ASSUME NEW c \in Request, Mobile!SaveCallback(c) PROVE MobileTypes'
  <2>1. callbacks[c].of \in Mobile!SignIn
    BY <1>7, <1>t DEF Mobile!SaveCallback, Mobile!At, Known
  <2>2. <<callbacks[c].of, 1>> \in Mobile!Token
    BY <2>1, AccountsAssumption, MobileAssumption DEF Mobile!Token
  <2>3. /\ store' \in Mobile!Token \cup {None} /\ losses' \in 0 .. MaxLoss
        /\ broken' \subseteq Mobile!SignIn
    BY <1>7, <1>s, <2>2 DEF Mobile!SaveCallback
  <2>4. access' \in Mobile!SignIn \cup {None}
    BY <1>7, <2>1 DEF Mobile!SaveCallback
  <2>5. Known(None)
    BY DEF Known
  <2>6. Arrivals
    BY <1>7, <1>c, <1>j, <2>5 DEF Mobile!SaveCallback
  <2> QED
    BY <1>7, <1>t, <1>v, <1>e, <1>p, <2>3, <2>4, <2>6 DEF Mobile!SaveCallback
<1>8. ASSUME Mobile!AccessExpires PROVE MobileTypes'
  BY <1>8, <1>t, <1>v, <1>d, <1>e, <1>p DEF Mobile!AccessExpires
<1>9. ASSUME Mobile!RequestStatus PROVE MobileTypes'
  BY <1>9, <1>t, <1>v, <1>d, <1>e, <1>p DEF Mobile!RequestStatus
<1>10. ASSUME Mobile!AnswerStatus PROVE MobileTypes'
  BY <1>10, <1>t, <1>v, <1>d, <1>e, <1>p DEF Mobile!AnswerStatus
<1>11. ASSUME Mobile!PublishNobody PROVE MobileTypes'
  BY <1>11, <1>t, <1>v, <1>d, <1>e, <1>p DEF Mobile!PublishNobody
<1>12. ASSUME Mobile!SignOut PROVE MobileTypes'
  <2>1. Leaves
    BY <1>12, <1>t DEF Mobile!SignOut, Mobile!Leaving, Leaves
  <2> QED
    BY <1>12, <1>t, <1>v, <1>d, <1>e, <2>1 DEF Mobile!SignOut
<1>13. ASSUME Mobile!RevokeRefreshToken PROVE MobileTypes'
  <2>1. Mobile!Quiet \in BOOLEAN
    BY DEF Mobile!Quiet
  <2>2. Leaves
    BY <1>13, <1>t, <2>1 DEF Mobile!RevokeRefreshToken, Mobile!Leaving, Leaves
  <2>3. ended' \subseteq Mobile!SignIn /\ losses' \in 0 .. MaxLoss
    BY <1>13, <1>t, <1>f DEF Mobile!RevokeRefreshToken
  <2> QED
    BY <1>13, <1>t, <1>v, <1>d, <1>e, <2>2, <2>3 DEF Mobile!RevokeRefreshToken
<1>14. ASSUME NEW key \in {"authorization", "token"}, Mobile!ClearSession(key) PROVE MobileTypes'
  <2>1. PICK fails \in BOOLEAN :
          LET next == [leaving EXCEPT !.left = @ \ {key}, !.failed = @ \/ fails,
                               !.alone = @ /\ ~fails] IN
          /\ IF fails THEN Mobile!Fails /\ UNCHANGED <<store, moPending>>
             ELSE Mobile!Cleared(key) /\ UNCHANGED losses
          /\ IF next.left # {} THEN leaving' = next /\ UNCHANGED <<principal, signedOut>>
             ELSE /\ leaving' = None
                  /\ principal' = (IF next.failed THEN principal ELSE "nobody")
                  /\ signedOut' = next.alone
    BY <1>14 DEF Mobile!ClearSession
  <2>2. PICK next : next = [leaving EXCEPT !.left = @ \ {key}, !.failed = @ \/ fails,
                                           !.alone = @ /\ ~fails]
    OBVIOUS
  <2>3. leaving \in Mobile!Leaving
    BY <1>14, <1>t DEF Mobile!ClearSession
  <2>4. next \in Mobile!Leaving
    BY <2>2, <2>3 DEF Mobile!Leaving
  <2>5. Leaves /\ signedOut' \in BOOLEAN /\ principal' \in {"unknown", "user", "nobody"}
    BY <1>t, <2>1, <2>2, <2>4 DEF Leaves, Mobile!Leaving
  <2>6. /\ store' \in Mobile!Token \cup {None} /\ moPending' \in Mobile!SignIn \cup {None}
        /\ losses' \in 0 .. MaxLoss
    BY <1>t, <1>f, <2>1 DEF Mobile!Cleared, Mobile!Forgotten
  <2> QED
    BY <1>14, <1>t, <1>v, <1>d, <1>e, <2>5, <2>6 DEF Mobile!ClearSession
<1>15. ASSUME NEW p \in Mobile!Process, Mobile!BeginRotation(p) PROVE MobileTypes'
  <2>1. [pc |-> "read", token |-> None] \in Step
    BY DEF Step
  <2>2. Rotations
    BY <1>15, <1>r, <2>1 DEF Mobile!BeginRotation
  <2>3. lock' \in Mobile!Process \cup {None}
    BY <1>15 DEF Mobile!BeginRotation, Mobile!Locked
  <2> QED
    BY <1>15, <1>t, <1>v, <1>d, <1>o, <2>2, <2>3 DEF Mobile!BeginRotation
<1>16. ASSUME NEW p \in Mobile!Process, Mobile!ReadToken(p) PROVE MobileTypes'
  <2>1. store # None => [pc |-> "exchange", token |-> store] \in Step
    BY <1>t DEF Step
  <2>2. Rotations
    BY <1>16, <1>r, <1>n, <2>1 DEF Mobile!ReadToken
  <2>3. lock' \in Mobile!Process \cup {None}
    BY <1>16, <1>t, <1>l DEF Mobile!ReadToken
  <2> QED
    BY <1>16, <1>t, <1>v, <1>d, <1>p, <2>2, <2>3 DEF Mobile!ReadToken
<1>17. ASSUME NEW p \in Mobile!Process, Mobile!ExchangeToken(p) PROVE MobileTypes'
  <2>1. PICK t : t = refreshing[p].token
    OBVIOUS
  <2>2. t \in Mobile!Token /\ t[1] \in Mobile!SignIn /\ t[2] \in 1 .. MaxGeneration
    BY <1>17, <2>1, RotationAt DEF Mobile!ExchangeToken, Shows
  <2>3. ASSUME Mobile!Live(t) PROVE MobileTypes'
    <3>1. /\ t[2] < MaxGeneration /\ t[2] = server[t[1]]
          /\ server' = [server EXCEPT ![t[1]] = @ + 1] /\ UNCHANGED <<ended, reused>>
      BY <1>17, <2>1, <2>3 DEF Mobile!ExchangeToken, Mobile!Live, Mobile!Latest
    <3>2. t[2] + 1 \in 1 .. MaxGeneration /\ server[t[1]] + 1 \in 0 .. MaxGeneration
      BY <2>2, <3>1, AccountsAssumption, MobileAssumption
    <3>3. server' \in [Mobile!SignIn -> 0 .. MaxGeneration]
      BY <1>t, <2>2, <3>1, <3>2
    <3>4. \/ /\ refreshing' = [refreshing EXCEPT ![p].pc = "save", ![p].token = <<t[1], t[2] + 1>>]
             /\ UNCHANGED <<lock, losses, broken>>
          \/ /\ Mobile!Fails /\ Mobile!Returns(p) /\ Mobile!Unlocks(p) /\ broken' = broken \cup {t[1]}
      BY <1>17, <2>1, <2>3 DEF Mobile!ExchangeToken
    <3>5. lock' \in Mobile!Process \cup {None} /\ losses' \in 0 .. MaxLoss /\ broken' \subseteq Mobile!SignIn
      BY <1>t, <1>f, <1>l, <2>2, <3>4
    <3>6. Rotations
      <4>1. CASE Mobile!Returns(p)
        BY <1>n, <4>1
      <4>2. CASE refreshing' = [refreshing EXCEPT ![p].pc = "save", ![p].token = <<t[1], t[2] + 1>>]
        <5>1. refreshing[p] \in Step /\ <<t[1], t[2] + 1>> \in Mobile!Token
          BY <1>17, <1>t, <2>2, <3>2 DEF Mobile!ExchangeToken, Mobile!Rotating, Mobile!Token
        <5>2. PICK x : x = [refreshing[p] EXCEPT !.pc = "save", !.token = <<t[1], t[2] + 1>>]
          OBVIOUS
        <5>3. x \in Step /\ x.token = <<t[1], t[2] + 1>>
          BY <5>1, <5>2 DEF Step
        <5>4. refreshing' = [refreshing EXCEPT ![p] = x]
          BY <1>t, <4>2, <5>2
        <5> QED
          BY <1>r, <5>1, <5>3, <5>4, AccountsAssumption, MobileAssumption
      <4> QED
        BY <3>4, <4>1, <4>2
    <3> QED
      BY <1>17, <1>t, <1>v, <1>d, <1>p, <3>1, <3>3, <3>5, <3>6 DEF Mobile!ExchangeToken
  <2>4. ASSUME ~Mobile!Live(t) PROVE MobileTypes'
    <3>1. /\ Mobile!Returns(p) /\ Mobile!Unlocks(p) /\ UNCHANGED <<server, losses, broken>>
          /\ ended' \subseteq ended \cup {t[1]} /\ reused' \subseteq reused \cup {t[1]}
      BY <1>17, <2>1, <2>4 DEF Mobile!ExchangeToken
    <3> QED
      BY <1>17, <1>t, <1>v, <1>d, <1>p, <1>n, <1>l, <2>2, <3>1 DEF Mobile!ExchangeToken
  <2> QED
    BY <2>3, <2>4
<1>18. ASSUME NEW p \in Mobile!Process, Mobile!SaveToken(p) PROVE MobileTypes'
  <2>1. refreshing[p].token \in Mobile!Token /\ refreshing[p].token[1] \in Mobile!SignIn
    BY <1>18, RotationAt DEF Mobile!SaveToken, Shows
  <2>2. /\ store' \in Mobile!Token \cup {None} /\ losses' \in 0 .. MaxLoss
        /\ broken' \subseteq Mobile!SignIn
    BY <1>18, <1>s, <2>1 DEF Mobile!SaveToken
  <2>3. access' \in Mobile!SignIn \cup {None}
    BY <1>18, <1>t, <2>1 DEF Mobile!SaveToken
  <2>4. lock' \in Mobile!Process \cup {None}
    BY <1>18, <1>l DEF Mobile!SaveToken
  <2>5. Rotations
    BY <1>18, <1>n DEF Mobile!SaveToken
  <2> QED
    BY <1>18, <1>t, <1>v, <1>d, <1>p, <2>2, <2>3, <2>4, <2>5 DEF Mobile!SaveToken
<1>19. ASSUME NEW p \in Mobile!Process, Mobile!Dies(p) PROVE MobileTypes'
  <2>1. losses' \in 0 .. MaxLoss /\ lock' \in Mobile!Process \cup {None} /\ broken' \subseteq Mobile!SignIn
    BY <1>19, <1>t, <1>f, <1>l DEF Mobile!Dies
  <2>2. Rotations
    BY <1>19, <1>n DEF Mobile!Dies
  <2>3. Arrivals /\ Leaves
    <3>1. callbacks' = [c \in Request |-> None] => Arrivals
      BY DEF Arrivals
    <3>2. leaving' = None => Leaves
      BY DEF Leaves
    <3> QED
      BY <1>19, <1>d, <1>p, <3>1, <3>2 DEF Mobile!Dies
  <2>4. access' \in Mobile!SignIn \cup {None} /\ principal' \in {"unknown", "user", "nobody"}
        /\ requesting' \in BOOLEAN
    BY <1>19, <1>t DEF Mobile!Dies
  <2> QED
    BY <1>19, <1>t, <1>v, <2>1, <2>2, <2>3, <2>4 DEF Mobile!Dies
<1>20. ASSUME UNCHANGED moVars PROVE MobileTypes'
  BY <1>20, <1>t, <1>v, <1>d, <1>e, <1>p DEF moVars
<1> QED
  BY <1>1, <1>2, <1>3, <1>4, <1>5, <1>6, <1>7, <1>8, <1>9, <1>10, <1>11, <1>12, <1>13, <1>14,
     <1>15, <1>16, <1>17, <1>18, <1>19, <1>20 DEF Mobile!Next

MobileSafe == OneRotates /\ HoldsMinted /\ HoldsLatest /\ Mobile!NoSelfInflictedReuse

\* No callback begins to save a token in this step.
SavesStay ==
    \A c \in Request :
        Mobile!At(c, "save")' => Mobile!At(c, "save") /\ callbacks'[c].of = callbacks[c].of

LEMMA SavingStays ==
    ASSUME SavesStay
    PROVE  (\A f : Saving(f)' => Saving(f)) /\ (SavesAlone => SavesAlone')
BY DEF SavesStay, Saving, SavesAlone

\* A step that neither moves a token nor begins a rotation.
LEMMA QuietStep ==
    ASSUME MobileTypes, MobileSafe, UNCHANGED <<store, lock, refreshing, server, broken, reused>>,
           ended \subseteq ended', SavesStay
    PROVE  MobileSafe'
<1>1. \A p : (Shows(p)' <=> Shows(p)) /\ \A pc : (Mobile!Rotating(p, pc)' <=> Mobile!Rotating(p, pc))
  BY DEF Shows, Mobile!Rotating
<1>2. \A x : (Mobile!Latest(x)' = Mobile!Latest(x)) /\ (Excused(x) => Excused(x)')
  BY DEF Mobile!Latest, Excused
<1>3. \A x : Minted(x) => Minted(x)'
  BY SavingStays DEF Minted
<1>4. OneRotates' /\ HoldsMinted'
  BY <1>1, <1>3, SavingStays DEF MobileSafe, OneRotates, HoldsMinted
<1>5. HoldsLatest'
  BY <1>1, <1>2 DEF MobileSafe, HoldsLatest
<1>6. Mobile!NoSelfInflictedReuse'
  BY DEF MobileSafe, Mobile!NoSelfInflictedReuse
<1> QED
  BY <1>4, <1>5, <1>6 DEF MobileSafe

\* While a process rotates, it is the only one, and its lock is freed with the rotation.
LEMMA RotatesAlone ==
    ASSUME MobileTypes, OneRotates, NEW p \in Mobile!Process, refreshing[p] # None
    PROVE  /\ lock = p /\ \A q \in Mobile!Process : q # p => refreshing[q] = None
           /\ Mobile!Returns(p) =>
                  /\ \A q \in Mobile!Process : refreshing'[q] = None
                  /\ \A q \in Mobile!Process : ~Shows(q)' /\ \A pc : ~Mobile!Rotating(q, pc)'
BY DEF MobileTypes, Mobile!TypeOK, OneRotates, Mobile!Returns, Shows, Mobile!Rotating

\* The steps of a rotation keep what is known about tokens.
LEMMA RotationSafe ==
    ASSUME MobileTypes, MobileSafe, NEW p \in Mobile!Process,
           \/ Mobile!BeginRotation(p) \/ Mobile!ReadToken(p) \/ Mobile!ExchangeToken(p)
           \/ Mobile!SaveToken(p) \/ Mobile!Dies(p)
    PROVE  MobileSafe'
<1>t. /\ refreshing \in [Mobile!Process -> [pc : {"read", "exchange", "save"},
                                            token : Mobile!Token \cup {None}] \cup {None}]
      /\ server \in [Mobile!SignIn -> 0 .. MaxGeneration] /\ store \in Mobile!Token \cup {None}
      /\ broken \subseteq Mobile!SignIn
  BY DEF MobileTypes, Mobile!TypeOK
<1>s. OneRotates /\ HoldsMinted /\ HoldsLatest /\ Mobile!NoSelfInflictedReuse
  BY DEF MobileSafe
<1>k. \A t \in Mobile!Token : t[1] \in Mobile!SignIn /\ t[2] \in 1 .. MaxGeneration /\ t = <<t[1], t[2]>>
  BY DEF Mobile!Token
<1>u. callbacks' = callbacks => SavesStay /\ SavesAlone' /\ \A f : Saving(f)' <=> Saving(f)
  BY <1>s DEF SavesStay, SavesAlone, Saving, Mobile!At, HoldsMinted
<1>1. ASSUME Mobile!BeginRotation(p) PROVE MobileSafe'
  <2>1. /\ lock = None /\ lock' = p /\ refreshing[p] = None
        /\ refreshing' = [refreshing EXCEPT ![p] = [pc |-> "read", token |-> None]]
        /\ UNCHANGED <<store, callbacks, server, ended, broken, reused>>
    BY <1>1 DEF Mobile!BeginRotation, Mobile!Locked, Mobile!memory, Mobile!remote, Mobile!histories
  <2>2. \A q \in Mobile!Process : refreshing[q] = None
    BY <1>s, <2>1, AccountsAssumption, MobileAssumption DEF OneRotates
  <2>3. refreshing'[p].pc = "read" /\ \A q \in Mobile!Process : q # p => refreshing'[q] = None
    BY <1>t, <2>1, <2>2
  <2>4. \A q \in Mobile!Process :
           ~Shows(q)' /\ ~Mobile!Rotating(q, "exchange")' /\ ~Mobile!Rotating(q, "save")'
    BY <2>3 DEF Shows, Mobile!Rotating
  <2>5. \A q \in Mobile!Process : ~Mobile!Rotating(q, "save")
    BY <2>2 DEF Mobile!Rotating
  <2>6. OneRotates'
    BY <2>1, <2>3 DEF OneRotates
  <2>7. HoldsMinted'
    BY <1>s, <2>1, <2>4 DEF HoldsMinted, Minted, Saving, SavesAlone, Mobile!At
  <2>8. HoldsLatest'
    BY <1>s, <2>1, <2>4, <2>5 DEF HoldsLatest, Mobile!Latest, Excused
  <2> QED
    BY <1>s, <2>1, <2>4, <2>6, <2>7, <2>8 DEF MobileSafe, Mobile!NoSelfInflictedReuse
<1>2. ASSUME refreshing[p] # None, Mobile!Returns(p), Mobile!Unlocks(p), UNCHANGED server,
             SavesStay, reused' \subseteq broken',
             ended \subseteq ended', broken \subseteq broken',
             store' # None => \/ /\ store' = store
                                 /\ Mobile!Rotating(p, "save") /\ refreshing[p].token[1] = store[1] =>
                                        store[1] \in broken'
                              \/ /\ Shows(p) /\ store' = refreshing[p].token
                                 /\ store' = Mobile!Latest(store'[1])
      PROVE  MobileSafe'
  <2>1. /\ \A q \in Mobile!Process : refreshing'[q] = None
        /\ \A q \in Mobile!Process : ~Shows(q)' /\ \A pc : ~Mobile!Rotating(q, pc)'
        /\ \A q \in Mobile!Process : Mobile!Rotating(q, "save") => q = p
    BY <1>2, <1>s, RotatesAlone DEF Mobile!Rotating
  <2>2. (\A f : Saving(f)' => Saving(f)) /\ SavesAlone'
    BY <1>2, <1>s, SavingStays DEF HoldsMinted
  <2>3. HoldsMinted'
    BY <1>2, <1>s, <2>1, <2>2 DEF HoldsMinted, Minted
  <2>4. HoldsLatest'
    <3> SUFFICES ASSUME NEW s, s = store', s # None
                 PROVE  s = Mobile!Latest(s[1])' \/ Excused(s[1])'
      BY <2>1 DEF HoldsLatest
    <3>1. CASE s = Mobile!Latest(s[1])
      BY <1>2, <3>1 DEF Mobile!Latest
    <3>2. CASE s = store /\ (Mobile!Rotating(p, "save") /\ refreshing[p].token[1] = store[1] =>
                                      store[1] \in broken')
      <4>1. \/ store = Mobile!Latest(store[1]) \/ Excused(store[1])
            \/ Mobile!Rotating(p, "save") /\ refreshing[p].token[1] = store[1]
        BY <1>s, <2>1, <3>2 DEF HoldsLatest
      <4> QED
        BY <1>2, <3>2, <4>1 DEF Mobile!Latest, Excused
    <3> QED
      BY <1>2, <3>1, <3>2
  <2> QED
    BY <1>2, <1>s, <2>1, <2>3, <2>4 DEF MobileSafe, OneRotates, Mobile!NoSelfInflictedReuse
<1>3. ASSUME Mobile!ReadToken(p) PROVE MobileSafe'
  <2>1. /\ refreshing[p] # None /\ refreshing[p].pc = "read"
        /\ UNCHANGED <<store, callbacks, server, ended, broken, reused>>
    BY <1>3 DEF Mobile!ReadToken, Mobile!Rotating, Mobile!memory, Mobile!remote, Mobile!histories
  <2>2. CASE store = None
    BY <1>3, <1>2, <1>s, <1>u, <2>1, <2>2 DEF Mobile!ReadToken, Mobile!NoSelfInflictedReuse
  <2>3. CASE store # None
    <3>1. /\ refreshing' = [refreshing EXCEPT ![p] = [pc |-> "exchange", token |-> store]]
          /\ lock' = lock
      BY <1>3, <2>3 DEF Mobile!ReadToken
    <3>2. lock = p /\ \A q \in Mobile!Process : q # p => refreshing[q] = None
      BY <1>s, <2>1, RotatesAlone
    <3>3. /\ refreshing'[p].pc = "exchange" /\ refreshing'[p].token = store
          /\ \A q \in Mobile!Process : q # p => refreshing'[q] = None
      BY <1>t, <3>1, <3>2
    <3>4. \A q \in Mobile!Process :
              (Shows(q)' => q = p) /\ (Mobile!Rotating(q, "exchange")' => q = p)
              /\ ~Mobile!Rotating(q, "save")' /\ ~Mobile!Rotating(q, "save")
      BY <2>1, <3>2, <3>3 DEF Shows, Mobile!Rotating
    <3>5. OneRotates'
      BY <3>1, <3>2, <3>3 DEF OneRotates
    <3>6. HoldsMinted'
      BY <1>s, <2>1, <2>3, <3>3, <3>4 DEF HoldsMinted, Minted, Saving, SavesAlone, Mobile!At
    <3>7. HoldsLatest'
      BY <1>s, <2>1, <2>3, <3>3, <3>4 DEF HoldsLatest, Mobile!Latest, Excused
    <3> QED
      BY <1>s, <2>1, <2>3, <3>5, <3>6, <3>7 DEF MobileSafe, Mobile!NoSelfInflictedReuse
  <2> QED
    BY <2>2, <2>3
<1>4. ASSUME Mobile!ExchangeToken(p) PROVE MobileSafe'
  <2>1. PICK t : t = refreshing[p].token
    OBVIOUS
  <2>2. /\ Mobile!Rotating(p, "exchange") /\ Shows(p) /\ refreshing[p] # None
        /\ UNCHANGED <<store, callbacks>>
    BY <1>4 DEF Mobile!ExchangeToken, Mobile!Rotating, Shows, Mobile!memory
  <2>3. t \in Mobile!Token /\ t[1] \in Mobile!SignIn /\ t[2] \in 1 .. MaxGeneration
    BY <1>k, <2>1, <2>2, RotationAt
  <2>4. (t = Mobile!Latest(t[1]) \/ Excused(t[1])) /\ Minted(t)
    BY <1>s, <2>1, <2>2 DEF HoldsLatest, HoldsMinted
  <2>5. CASE ~Mobile!Live(t)
    <3>1. /\ Mobile!Returns(p) /\ Mobile!Unlocks(p) /\ UNCHANGED <<server, losses, broken>>
          /\ IF t[1] \in ended THEN UNCHANGED <<ended, reused>>
             ELSE ended' = ended \cup {t[1]} /\ reused' = reused \cup {t[1]}
      BY <1>4, <2>1, <2>5 DEF Mobile!ExchangeToken
    <3>2. t[1] \notin ended => t[1] \in broken
      BY <2>4, <2>5 DEF Mobile!Live, Excused
    <3>3. reused' \subseteq broken' /\ ended \subseteq ended'
      BY <1>s, <3>1, <3>2 DEF Mobile!NoSelfInflictedReuse
    <3>4. ~Mobile!Rotating(p, "save")
      BY <2>2 DEF Mobile!Rotating
    <3> QED
      BY <1>2, <1>u, <2>2, <2>4, <3>1, <3>3, <3>4
  <2>6. CASE Mobile!Live(t)
    <3>1. /\ t = Mobile!Latest(t[1]) /\ UNCHANGED <<ended, reused>> /\ t[2] < MaxGeneration
          /\ server' = [server EXCEPT ![t[1]] = @ + 1]
          /\ \/ /\ refreshing' = [refreshing EXCEPT ![p].pc = "save", ![p].token = <<t[1], t[2] + 1>>]
                /\ UNCHANGED <<lock, losses, broken>>
             \/ Mobile!Returns(p) /\ Mobile!Unlocks(p) /\ broken' = broken \cup {t[1]}
      BY <1>4, <2>1, <2>6 DEF Mobile!ExchangeToken, Mobile!Live
    <3>2. /\ t[2] = server[t[1]] /\ server'[t[1]] = t[2] + 1
          /\ \A f \in Mobile!SignIn : f # t[1] => server'[f] = server[f]
      BY <1>t, <2>3, <3>1 DEF Mobile!Latest
    <3>3. \A f \in Mobile!SignIn : server[f] <= server'[f]
      BY <1>t, <2>3, <3>2
    <3>4. lock = p /\ \A q \in Mobile!Process : q # p => refreshing[q] = None
      BY <1>s, <2>2, RotatesAlone
    <3>5. \A q \in Mobile!Process : ~Mobile!Rotating(q, "save")
      BY <2>2, <3>4 DEF Mobile!Rotating
    <3>6. store # None => Minted(store)'
      <4> SUFFICES ASSUME store # None PROVE Minted(store)'
        OBVIOUS
      <4>1. store[1] \in Mobile!SignIn /\ store[2] \in Nat /\ Minted(store)
        BY <1>t, <1>k, <1>s DEF HoldsMinted
      <4>2. server[store[1]] <= server'[store[1]] /\ server[store[1]] \in Nat /\ server'[store[1]] \in Nat
        BY <1>t, <2>3, <3>2, <3>3, <4>1
      <4> QED
        BY <1>u, <2>2, <4>1, <4>2 DEF Minted
    <3>7. \A f \in Mobile!SignIn : Saving(f)' => server'[f] = 1
      BY <1>s, <2>2, <2>4, <3>2 DEF HoldsMinted, Minted, Saving, SavesAlone, Mobile!At
    <3>8. ASSUME store # None PROVE store = Mobile!Latest(store[1])' \/ Excused(store[1])' \/ store[1] = t[1]
      <4>1. store[1] \in Mobile!SignIn /\ (store = Mobile!Latest(store[1]) \/ Excused(store[1]))
        BY <1>t, <1>k, <1>s, <3>5, <3>8 DEF HoldsLatest
      <4>2. broken \subseteq broken' /\ ended' = ended
        BY <3>1
      <4> QED
        BY <2>2, <3>2, <4>1, <4>2 DEF Mobile!Latest, Excused
    <3>9. CASE Mobile!Returns(p) /\ Mobile!Unlocks(p) /\ broken' = broken \cup {t[1]}
      <4>1. /\ \A q \in Mobile!Process : refreshing'[q] = None
            /\ \A q \in Mobile!Process : ~Shows(q)' /\ \A pc : ~Mobile!Rotating(q, pc)'
        BY <1>s, <2>2, <3>9, RotatesAlone
      <4>2. OneRotates' /\ HoldsMinted'
        BY <1>u, <2>2, <3>6, <3>7, <4>1 DEF OneRotates, HoldsMinted
      <4>3. HoldsLatest'
        BY <2>2, <3>8, <3>9, <4>1 DEF HoldsLatest, Excused
      <4> QED
        BY <1>s, <2>2, <2>4, <3>1, <3>9, <4>2, <4>3 DEF MobileSafe, Mobile!NoSelfInflictedReuse
    <3>10. CASE /\ refreshing' = [refreshing EXCEPT ![p].pc = "save", ![p].token = <<t[1], t[2] + 1>>]
                /\ UNCHANGED <<lock, losses, broken>>
      <4>1. /\ refreshing'[p].pc = "save" /\ refreshing'[p].token = <<t[1], t[2] + 1>>
            /\ \A q \in Mobile!Process : q # p => refreshing'[q] = None
        BY <1>t, <2>2, <3>4, <3>10
      <4>2. \A q \in Mobile!Process : /\ Shows(q)' => q = p
                                      /\ ~Mobile!Rotating(q, "exchange")'
                                      /\ Mobile!Rotating(q, "save")' => q = p
        BY <4>1 DEF Shows, Mobile!Rotating
      <4>3. OneRotates'
        BY <3>4, <3>10, <4>1 DEF OneRotates
      <4>0. PICK u : u = <<t[1], t[2] + 1>>
        OBVIOUS
      <4>4. Minted(u)'
        <5>1. <<t[1], t[2] + 1>>[1] = t[1] /\ <<t[1], t[2] + 1>>[2] = t[2] + 1
          OBVIOUS
        <5>2. t[2] + 1 <= server'[t[1]] /\ ~Saving(t[1])'
          BY <1>u, <2>2, <2>3, <2>4, <3>2 DEF Minted
        <5> QED
          BY <4>0, <5>1, <5>2 DEF Minted
      <4>5. HoldsMinted'
        BY <1>u, <2>2, <3>6, <3>7, <4>0, <4>1, <4>2, <4>4 DEF HoldsMinted
      <4>6. u = Mobile!Latest(u[1])' /\ u[1] = t[1]
        BY <3>2, <4>0 DEF Mobile!Latest
      <4>7. refreshing'[p] # None => Mobile!Rotating(p, "save")' /\ refreshing'[p].token[1] = t[1]
        BY <4>1 DEF Mobile!Rotating
      <4>8. refreshing'[p] # None
        <5>1. refreshing[p] \in [pc : {"read", "exchange", "save"}, token : Mobile!Token \cup {None}]
          BY <1>t, <2>2
        <5>2. t[2] + 1 \in 1 .. MaxGeneration
          BY <2>3, <3>1, AccountsAssumption, MobileAssumption
        <5>3. <<t[1], t[2] + 1>> \in Mobile!Token
          BY <2>3, <5>2 DEF Mobile!Token
        <5>4. refreshing'[p] \in [pc : {"read", "exchange", "save"}, token : Mobile!Token \cup {None}]
          BY <1>t, <3>10, <5>1, <5>3
        <5> QED
          BY <5>4, AccountsAssumption, MobileAssumption
      <4>9. HoldsLatest'
        <5>1. store' # None => \/ (store' = Mobile!Latest(store[1])' \/ Excused(store[1])')
                              \/ (Mobile!Rotating(p, "save")' /\ refreshing'[p].token[1] = store'[1])
          BY <2>2, <3>8, <4>7, <4>8
        <5>2. \A q \in Mobile!Process : Mobile!Rotating(q, "save")' => refreshing'[q].token = u
          BY <4>0, <4>1, <4>2
        <5> QED
          BY <2>2, <4>2, <4>6, <5>1, <5>2 DEF HoldsLatest
      <4> QED
        BY <1>s, <2>2, <2>4, <3>1, <3>10, <4>3, <4>5, <4>9 DEF MobileSafe,
           Mobile!NoSelfInflictedReuse
    <3> QED
      BY <3>1, <3>9, <3>10
  <2> QED
    BY <2>5, <2>6
<1>5. ASSUME Mobile!SaveToken(p) PROVE MobileSafe'
  <2>1. PICK t : t = refreshing[p].token
    OBVIOUS
  <2>2. /\ Mobile!Rotating(p, "save") /\ Shows(p) /\ refreshing[p] # None
        /\ Mobile!Returns(p) /\ Mobile!Unlocks(p) /\ (Mobile!Accepted(t) \/ Mobile!Refused(t))
        /\ UNCHANGED <<callbacks, server, ended, reused>>
    BY <1>5, <2>1 DEF Mobile!SaveToken, Mobile!Rotating, Shows, Mobile!remote
  <2>3. t = Mobile!Latest(t[1])
    BY <1>s, <2>1, <2>2 DEF HoldsLatest
  <2>4. reused' \subseteq broken' /\ broken \subseteq broken'
    BY <1>s, <2>2 DEF Mobile!NoSelfInflictedReuse, Mobile!Accepted, Mobile!Refused
  <2>5. store' = t \/ store' = None \/ (store' = store /\ t[1] \in broken')
    BY <2>2 DEF Mobile!Accepted, Mobile!Refused
  <2> QED
    BY <1>2, <1>u, <2>1, <2>2, <2>3, <2>4, <2>5
<1>6. ASSUME Mobile!Dies(p) PROVE MobileSafe'
  <2>1. /\ Mobile!Returns(p) /\ Mobile!Unlocks(p)
        /\ UNCHANGED <<store, server, ended, reused>>
        /\ broken' = broken \cup {f \in Mobile!SignIn : Mobile!Rotating(p, "save")
                                                          /\ refreshing[p].token[1] = f}
        /\ callbacks' = callbacks \/ callbacks' = [c \in Request |-> None]
    BY <1>6 DEF Mobile!Dies, Mobile!remote
  <2>2. reused' \subseteq broken' /\ broken \subseteq broken'
    BY <1>s, <2>1 DEF Mobile!NoSelfInflictedReuse
  <2>5. SavesStay
    BY <2>1 DEF SavesStay, Mobile!At
  <2>3. CASE refreshing[p] # None
    <3>1. store # None => store[1] \in Mobile!SignIn
      BY <1>t, <1>k
    <3> QED
      BY <1>2, <2>1, <2>2, <2>3, <2>5, <3>1
  <2>4. CASE refreshing[p] = None
    <3>1. broken' = broken
      BY <2>1, <2>4 DEF Mobile!Rotating
    <3>2. refreshing' = refreshing
      BY <1>t, <2>1, <2>4 DEF Mobile!Returns
    <3>3. (\A f : Saving(f)' => Saving(f)) /\ SavesAlone'
      BY <1>s, <2>5, SavingStays DEF HoldsMinted
    <3>4. CASE lock' = lock
      BY <2>1, <2>5, <3>1, <3>2, <3>4, QuietStep
    <3>5. CASE lock = p /\ lock' = None
      <4>1. \A q \in Mobile!Process : refreshing[q] = None
        BY <1>s, <2>4, <3>5 DEF OneRotates
      <4>2. \A q \in Mobile!Process : ~Shows(q) /\ ~Shows(q)'
                 /\ \A pc : ~Mobile!Rotating(q, pc) /\ ~Mobile!Rotating(q, pc)'
        BY <3>2, <4>1 DEF Shows, Mobile!Rotating
      <4>3. OneRotates'
        BY <3>2, <4>1 DEF OneRotates
      <4>4. HoldsMinted'
        BY <1>s, <2>1, <3>3, <4>2 DEF HoldsMinted, Minted
      <4>5. HoldsLatest'
        BY <1>s, <2>1, <3>1, <4>2 DEF HoldsLatest, Mobile!Latest, Excused
      <4> QED
        BY <2>2, <4>3, <4>4, <4>5 DEF MobileSafe, Mobile!NoSelfInflictedReuse
    <3> QED
      BY <2>1, <3>4, <3>5 DEF Mobile!Unlocks
  <2> QED
    BY <2>3, <2>4
<1> QED
  BY <1>1, <1>3, <1>4, <1>5, <1>6

\* So do the sign-in, the requests and the sign-out.
LEMMA MobileSafeNext ==
    ASSUME MobileTypes, MobileSafe, [Mobile!Next]_moVars
    PROVE  MobileSafe'
<1>t. /\ server \in [Mobile!SignIn -> 0 .. MaxGeneration] /\ store \in Mobile!Token \cup {None}
      /\ callbacks \in [Request -> Mobile!Callback \cup {None}]
      /\ \A c \in Request : callbacks[c] # None /\ callbacks[c].pc # "reject" =>
                                callbacks[c].of \in Mobile!SignIn
  BY DEF MobileTypes, Mobile!TypeOK
<1>s. OneRotates /\ HoldsMinted /\ HoldsLatest /\ Mobile!NoSelfInflictedReuse
  BY DEF MobileSafe
<1>g. ASSUME NEW c \in Request, NEW k, k = None \/ k.pc # "save",
             callbacks' = [callbacks EXCEPT ![c] = k]
      PROVE  SavesStay
  BY <1>t, <1>g DEF SavesStay, Mobile!At
<1>h. ASSUME NEW c \in Request, callbacks[c] # None, NEW pc, pc # "save", Mobile!Goes(c, pc)
      PROVE  SavesStay
  <2>1. [callbacks[c] EXCEPT !.pc = pc].pc = pc
    BY <1>t, <1>h DEF Mobile!Callback
  <2> QED
    BY <1>g, <1>h, <2>1 DEF Mobile!Goes
<1>j. ASSUME NEW c \in Request, Mobile!Rejects(c) PROVE SavesStay
  BY <1>g, <1>j DEF Mobile!Rejects, Mobile!Rejecting
<1>1. ASSUME \/ Mobile!StartSignIn \/ Mobile!AbortSignIn \/ Mobile!AccessExpires
             \/ Mobile!RequestStatus \/ Mobile!AnswerStatus \/ Mobile!PublishNobody \/ Mobile!SignOut
             \/ Mobile!RevokeRefreshToken \/ UNCHANGED moVars
      PROVE  MobileSafe'
  <2>1. /\ UNCHANGED <<store, lock, refreshing, server, broken, reused, callbacks>>
        /\ ended \subseteq ended'
    BY <1>1 DEF Mobile!StartSignIn, Mobile!AbortSignIn, Mobile!AccessExpires,
       Mobile!RequestStatus, Mobile!AnswerStatus, Mobile!PublishNobody, Mobile!SignOut,
       Mobile!RevokeRefreshToken, moVars, Mobile!stored, Mobile!memory, Mobile!calls, Mobile!remote,
       Mobile!histories
  <2>2. SavesStay
    BY <2>1 DEF SavesStay, Mobile!At
  <2> QED
    BY <2>1, <2>2, QuietStep
<1>2. ASSUME NEW c \in Request,
             Mobile!ReceiveCallback(c) \/ Mobile!RemovePending(c) \/ Mobile!EndRejected(c)
      PROVE  MobileSafe'
  <2>1. UNCHANGED <<store, lock, refreshing, server, broken, reused, ended>>
    BY <1>2 DEF Mobile!ReceiveCallback, Mobile!RemovePending, Mobile!EndRejected, Mobile!stored,
       Mobile!remote, Mobile!histories
  <2>2. CASE Mobile!ReceiveCallback(c)
    <3>1. Mobile!Rejects(c) \/ \E pc \in {"error", "remove"} :
              callbacks' = [callbacks EXCEPT ![c] = [pc |-> pc, of |-> moPending]]
      BY <2>2 DEF Mobile!ReceiveCallback
    <3>2. SavesStay
      BY <1>g, <1>j, <3>1
    <3> QED
      BY <2>1, <3>2, QuietStep
  <2>3. CASE Mobile!RemovePending(c)
    <3>1. /\ callbacks[c] # None
          /\ \/ Mobile!Rejects(c) \/ Mobile!Goes(c, "exchange")
             \/ callbacks' = [callbacks EXCEPT ![c] = None]
      BY <2>3 DEF Mobile!RemovePending, Mobile!At
    <3>2. SavesStay
      BY <1>g, <1>h, <1>j, <3>1
    <3> QED
      BY <2>1, <3>2, QuietStep
  <2>4. CASE Mobile!EndRejected(c)
    <3>1. SavesStay
      BY <1>g, <2>4 DEF Mobile!EndRejected
    <3> QED
      BY <2>1, <3>1, QuietStep
  <2> QED
    BY <1>2, <2>2, <2>3, <2>4
<1>4. ASSUME NEW c \in Request, Mobile!ExchangeCode(c) PROVE MobileSafe'
  <2>1. PICK f \in Mobile!SignIn : f = callbacks[c].of
    BY <1>4, <1>t DEF Mobile!ExchangeCode, Mobile!At
  <2>2. /\ UNCHANGED <<store, lock, refreshing, broken, reused, ended>>
        /\ callbacks[c] # None /\ callbacks[c].pc = "exchange"
    BY <1>4 DEF Mobile!ExchangeCode, Mobile!At, Mobile!stored, Mobile!histories
  <2>3. CASE Mobile!Rejects(c) /\ UNCHANGED server
    BY <1>j, <2>2, <2>3, QuietStep
  <2>4. CASE /\ server[f] = 0 /\ server' = [server EXCEPT ![f] = 1]
             /\ Mobile!Goes(c, "save") \/ Mobile!Rejects(c)
    <3>2. server'[f] = 1 /\ \A g \in Mobile!SignIn : g # f => server'[g] = server[g]
      BY <1>t, <2>4
    <3>a. \A d \in Request : Mobile!At(d, "save")' =>
              \/ d # c /\ Mobile!At(d, "save") /\ callbacks'[d].of = callbacks[d].of
              \/ d = c /\ callbacks'[d].of = f
      <4>1. CASE Mobile!Rejects(c)
        BY <1>t, <4>1, <2>2 DEF Mobile!Rejects, Mobile!Rejecting, Mobile!At
      <4>2. CASE Mobile!Goes(c, "save")
        <5>1. [callbacks[c] EXCEPT !.pc = "save"].of = f
          BY <1>t, <2>1, <2>2 DEF Mobile!Callback
        <5> QED
          BY <1>t, <4>2, <5>1 DEF Mobile!Goes, Mobile!At
      <4> QED
        BY <2>4, <4>1, <4>2
    <3>b. ~Saving(f)
      BY <1>s, <2>4 DEF HoldsMinted
    <3>3. \A g : Saving(g)' => g = f \/ Saving(g)
      BY <3>a DEF Saving
    <3>c. SavesAlone'
      <4>1. \A d \in Request : Mobile!At(d, "save") => callbacks[d].of # f
        BY <3>b DEF Saving
      <4> QED
        BY <1>s, <3>a, <4>1 DEF HoldsMinted, SavesAlone
    <3>4. ASSUME NEW t \in Mobile!Token, Minted(t)
          PROVE  /\ Minted(t)' /\ t[1] \in Mobile!SignIn
                 /\ Mobile!Latest(t[1])' = Mobile!Latest(t[1])
      <4>1. t[1] \in Mobile!SignIn /\ t[2] \in 1 .. MaxGeneration
        BY DEF Mobile!Token
      <4>2. t[1] # f
        BY <2>4, <3>4, <4>1 DEF Minted
      <4> QED
        BY <3>2, <3>3, <3>4, <4>1, <4>2 DEF Minted, Mobile!Latest
    <3>5. ASSUME NEW p \in Mobile!Process, Shows(p)
          PROVE  refreshing[p].token \in Mobile!Token /\ Minted(refreshing[p].token)
      BY <1>s, <3>5, RotationAt DEF HoldsMinted
    <3>6. store # None => store \in Mobile!Token /\ Minted(store)
      BY <1>t, <1>s DEF HoldsMinted
    <3>7. \A p : (Shows(p)' <=> Shows(p)) /\ \A pc : (Mobile!Rotating(p, pc)' <=> Mobile!Rotating(p, pc))
      BY <2>2 DEF Shows, Mobile!Rotating
    <3>8. HoldsMinted'
      BY <1>s, <2>2, <3>2, <3>3, <3>4, <3>5, <3>6, <3>7, <3>c DEF HoldsMinted
    <3>9. \A g : Excused(g)' <=> Excused(g)
      BY <2>2 DEF Excused
    <3>10. HoldsLatest'
      <4>1. store # None =>
              \/ store = Mobile!Latest(store[1])' \/ Excused(store[1])'
              \/ \E p \in Mobile!Process : Mobile!Rotating(p, "save")' /\ refreshing'[p].token[1] = store[1]
        BY <1>s, <2>2, <3>4, <3>6, <3>7, <3>9 DEF HoldsLatest
      <4>2. ASSUME NEW p \in Mobile!Process
            PROVE  LET t == refreshing[p].token IN
                   /\ Mobile!Rotating(p, "exchange") => t = Mobile!Latest(t[1])' \/ Excused(t[1])'
                   /\ Mobile!Rotating(p, "save") => t = Mobile!Latest(t[1])'
        <5>1. Shows(p) => Minted(refreshing[p].token) /\ refreshing[p].token \in Mobile!Token
          BY <3>5
        <5>2. PICK u : u = refreshing[p].token
          OBVIOUS
        <5>3. Shows(p) => Mobile!Latest(u[1])' = Mobile!Latest(u[1])
          BY <3>4, <5>1, <5>2
        <5>4. /\ Mobile!Rotating(p, "exchange") => u = Mobile!Latest(u[1])' \/ Excused(u[1])'
              /\ Mobile!Rotating(p, "save") => u = Mobile!Latest(u[1])'
          BY <1>s, <3>9, <5>2, <5>3 DEF HoldsLatest, Shows
        <5> QED
          BY <2>2, <5>2, <5>4
      <4> QED
        BY <2>2, <3>7, <4>1, <4>2 DEF HoldsLatest
    <3>11. OneRotates' /\ Mobile!NoSelfInflictedReuse'
      BY <1>s, <2>2 DEF OneRotates, Mobile!NoSelfInflictedReuse
    <3> QED
      BY <3>8, <3>10, <3>11 DEF MobileSafe
  <2> QED
    BY <1>4, <2>1, <2>3, <2>4 DEF Mobile!ExchangeCode
<1>5. ASSUME NEW c \in Request, Mobile!SaveCallback(c) PROVE MobileSafe'
  <2>1. PICK f \in Mobile!SignIn : f = callbacks[c].of
    BY <1>5, <1>t DEF Mobile!SaveCallback, Mobile!At
  <2>2. /\ UNCHANGED <<lock, refreshing, server, reused, ended>>
        /\ Mobile!At(c, "save") /\ Saving(f)
        /\ callbacks' = [callbacks EXCEPT ![c] = None] \/ Mobile!Rejects(c)
        /\ (Mobile!Accepted(<<f, 1>>) \/ Mobile!Refused(<<f, 1>>))
    BY <1>5, <2>1 DEF Mobile!SaveCallback, Mobile!remote, Saving
  <2>3. server[f] = 1 /\ <<f, 1>> = Mobile!Latest(f)
    BY <1>s, <2>2 DEF HoldsMinted, Mobile!Latest
  <2>4. /\ store' = <<f, 1>> \/ store' = None \/ store' = store
        /\ broken \subseteq broken'
    BY <2>2 DEF Mobile!Accepted, Mobile!Refused
  <2>9. SavesStay /\ ~Mobile!At(c, "save")'
    <3>1. callbacks'[c] = None \/ callbacks'[c].pc # "save"
      BY <1>t, <2>2 DEF Mobile!Rejects, Mobile!Rejecting
    <3> QED
      BY <1>g, <1>j, <2>2, <3>1 DEF Mobile!At
  <2>5. \A g : /\ (Saving(g)' => Saving(g)) /\ (Excused(g) => Excused(g)')
               /\ Mobile!Latest(g)' = Mobile!Latest(g)
    BY <2>2, <2>4, <2>9, SavingStays DEF Excused, Mobile!Latest
  <2>10. ~Saving(f)' /\ SavesAlone'
    <3>1. \A d \in Request : Mobile!At(d, "save") /\ callbacks[d].of = f => d = c
      BY <1>s, <2>1, <2>2 DEF HoldsMinted, SavesAlone
    <3>2. ~Saving(f)'
      BY <2>9, <3>1 DEF Saving, SavesStay
    <3> QED
      BY <1>s, <2>9, <3>2, SavingStays DEF HoldsMinted
  <2>6. \A p : (Shows(p)' <=> Shows(p)) /\ \A pc : (Mobile!Rotating(p, pc)' <=> Mobile!Rotating(p, pc))
    BY <2>2 DEF Shows, Mobile!Rotating
  <2>7. HoldsMinted'
    <3>1. \A t : Minted(t) => Minted(t)'
      BY <2>2, <2>5 DEF Minted
    <3>2. Minted(<<f, 1>>)'
      BY <2>2, <2>3, <2>10 DEF Minted
    <3> QED
      BY <1>s, <2>2, <2>4, <2>5, <2>6, <2>10, <3>1, <3>2 DEF HoldsMinted
  <2>8. HoldsLatest'
    <3>1. PICK s : s = store'
      OBVIOUS
    <3>2. s # None => \/ s = Mobile!Latest(s[1])' \/ Excused(s[1])'
                      \/ \E p \in Mobile!Process : Mobile!Rotating(p, "save") /\ refreshing[p].token[1] = s[1]
      <4>1. CASE s = <<f, 1>>
        BY <2>3, <2>5, <4>1
      <4>2. CASE s = store
        BY <1>s, <2>5, <4>2 DEF HoldsLatest
      <4> QED
        BY <2>4, <3>1, <4>1, <4>2
    <3>3. \A p \in Mobile!Process : LET u == refreshing[p].token IN
              /\ Mobile!Rotating(p, "exchange") => u = Mobile!Latest(u[1])' \/ Excused(u[1])'
              /\ Mobile!Rotating(p, "save") => u = Mobile!Latest(u[1])'
      BY <1>s, <2>2, <2>5 DEF HoldsLatest
    <3> QED
      BY <2>2, <2>6, <3>1, <3>2, <3>3 DEF HoldsLatest
  <2>11. Mobile!NoSelfInflictedReuse' /\ OneRotates'
    BY <1>s, <2>2, <2>4 DEF Mobile!NoSelfInflictedReuse, OneRotates
  <2> QED
    BY <2>7, <2>8, <2>11 DEF MobileSafe
<1>6. ASSUME NEW key \in {"authorization", "token"}, Mobile!ClearSession(key) PROVE MobileSafe'
  <2>1. /\ UNCHANGED <<lock, refreshing, callbacks, server, broken, reused, ended>>
        /\ store' = None \/ store' = store
    BY <1>6 DEF Mobile!ClearSession, Mobile!Cleared, Mobile!remote
  <2>2. \A p : (Shows(p)' <=> Shows(p)) /\ \A pc : (Mobile!Rotating(p, pc)' <=> Mobile!Rotating(p, pc))
    BY <2>1 DEF Shows, Mobile!Rotating
  <2>3. \A x : (Mobile!Latest(x)' = Mobile!Latest(x)) /\ (Excused(x) <=> Excused(x)')
               /\ (Minted(x)' <=> Minted(x)) /\ (Saving(x)' <=> Saving(x))
    BY <2>1 DEF Mobile!Latest, Excused, Minted, Saving, Mobile!At
  <2>4. SavesAlone'
    BY <1>s, <2>1 DEF HoldsMinted, SavesAlone, Mobile!At
  <2>5. OneRotates' /\ HoldsMinted' /\ HoldsLatest'
    BY <1>s, <2>1, <2>2, <2>3, <2>4 DEF OneRotates, HoldsMinted, HoldsLatest
  <2> QED
    BY <1>s, <2>1, <2>5 DEF MobileSafe, Mobile!NoSelfInflictedReuse
<1> QED
  BY <1>1, <1>2, <1>4, <1>5, <1>6, RotationSafe DEF Mobile!Next

\* A sign-out ends alone or not at all: what crosses it says so.
LEMMA CrossedIsNotAlone == MobileTypes /\ Mobile!Crosses => ~ClearsAlone'
<1> SUFFICES ASSUME MobileTypes, Mobile!Crosses PROVE ~ClearsAlone'
  OBVIOUS
<1>1. CASE leaving = None
  BY <1>1 DEF Mobile!Crosses, ClearsAlone
<1>2. CASE leaving # None
  <2>1. leaving \in Mobile!Leaving
    BY <1>2 DEF MobileTypes, Mobile!TypeOK
  <2>2. leaving'.alone = FALSE
    BY <1>2, <2>1 DEF Mobile!Crosses, Mobile!Leaving
  <2> QED
    BY <2>2 DEF ClearsAlone
<1> QED
  BY <1>1, <1>2

\* Signed out, a step leaves the storage empty, but for a sign-in that begins.
LEMMA SignedOutNext ==
    ASSUME MobileTypes, Out, [Mobile!Next]_moVars, signedOut, signedOut'
    PROVE  /\ store' = None /\ moPending' = None
           /\ \A c \in Request : callbacks'[c] # None => callbacks'[c].pc = "reject"
           /\ \A p \in Mobile!Process : ~Shows(p)'
<1>t. /\ refreshing \in [Mobile!Process -> [pc : {"read", "exchange", "save"},
                                            token : Mobile!Token \cup {None}] \cup {None}]
      /\ callbacks \in [Request -> Mobile!Callback \cup {None}]
  BY DEF MobileTypes, Mobile!TypeOK
<1>s. /\ store = None /\ moPending = None
      /\ \A c \in Request : callbacks[c] # None => callbacks[c].pc = "reject"
      /\ \A p \in Mobile!Process : ~Shows(p)
  BY DEF Out
<1> USE DEF Mobile!stored, Mobile!memory, Mobile!calls, Mobile!remote, Mobile!histories
<1>r. refreshing' = refreshing => \A p \in Mobile!Process : ~Shows(p)'
  BY <1>s DEF Shows, Mobile!Rotating
<1>n. \A q \in Mobile!Process : Mobile!Returns(q) => \A p \in Mobile!Process : ~Shows(p)'
  BY <1>s, <1>t DEF Mobile!Returns, Shows, Mobile!Rotating
<1>1. ASSUME \/ Mobile!StartSignIn \/ Mobile!AbortSignIn \/ Mobile!AccessExpires
             \/ Mobile!RequestStatus \/ Mobile!AnswerStatus \/ Mobile!PublishNobody \/ Mobile!SignOut
             \/ Mobile!RevokeRefreshToken \/ UNCHANGED moVars
             \/ \E key \in {"authorization", "token"} : Mobile!ClearSession(key)
      PROVE  UNCHANGED <<callbacks, refreshing>> /\ store' = None /\ moPending' = None
  BY <1>1, <1>s DEF Mobile!StartSignIn, Mobile!AbortSignIn, Mobile!AccessExpires,
     Mobile!RequestStatus, Mobile!AnswerStatus, Mobile!PublishNobody, Mobile!SignOut,
     Mobile!RevokeRefreshToken, moVars, Mobile!ClearSession, Mobile!Cleared, Mobile!Forgotten
<1>2. ASSUME NEW c \in Request,
             \/ Mobile!ReceiveCallback(c) \/ Mobile!RemovePending(c) \/ Mobile!EndRejected(c)
             \/ Mobile!ExchangeCode(c) \/ Mobile!SaveCallback(c)
      PROVE  /\ UNCHANGED <<refreshing, store>> /\ moPending' = None
             /\ \A d \in Request : callbacks'[d] # None => callbacks'[d].pc = "reject"
  <2>1. \A pc : pc # "reject" => ~Mobile!At(c, pc)
    BY <1>s DEF Mobile!At
  <2>2. \/ Mobile!ReceiveCallback(c) /\ Mobile!Rejects(c)
        \/ Mobile!EndRejected(c) /\ callbacks' = [callbacks EXCEPT ![c] = None]
    BY <1>2, <1>s, <2>1 DEF Mobile!ReceiveCallback, Mobile!RemovePending, Mobile!EndRejected,
       Mobile!ExchangeCode, Mobile!SaveCallback
  <2>3. UNCHANGED <<refreshing, store>> /\ moPending' = None
    BY <1>s, <2>2 DEF Mobile!ReceiveCallback, Mobile!EndRejected
  <2>4. callbacks'[c] = None \/ callbacks'[c].pc = "reject"
    BY <1>t, <2>2 DEF Mobile!Rejects, Mobile!Rejecting
  <2>5. \A d \in Request : d # c => callbacks'[d] = callbacks[d]
    BY <1>t, <2>2 DEF Mobile!Rejects
  <2> QED
    BY <1>s, <2>3, <2>4, <2>5
<1>3. ASSUME NEW p \in Mobile!Process,
             \/ Mobile!BeginRotation(p) \/ Mobile!ReadToken(p) \/ Mobile!ExchangeToken(p)
             \/ Mobile!SaveToken(p) \/ Mobile!Dies(p)
      PROVE  /\ store' = None /\ moPending' = None
             /\ callbacks' = callbacks \/ callbacks' = [c \in Request |-> None]
             /\ \A q \in Mobile!Process : ~Shows(q)'
  <2>1. ~Mobile!ExchangeToken(p) /\ ~Mobile!SaveToken(p)
    BY <1>s DEF Shows, Mobile!ExchangeToken, Mobile!SaveToken
  <2>2. /\ UNCHANGED <<store, moPending>>
        /\ callbacks' = callbacks \/ callbacks' = [c \in Request |-> None]
    BY <1>3, <2>1 DEF Mobile!BeginRotation, Mobile!ReadToken, Mobile!Dies
  <2>3. \/ Mobile!Returns(p)
        \/ refreshing' = [refreshing EXCEPT ![p] = [pc |-> "read", token |-> None]]
    BY <1>3, <1>s, <2>1 DEF Mobile!BeginRotation, Mobile!ReadToken, Mobile!Dies
  <2>4. \A q \in Mobile!Process : ~Shows(q)'
    BY <1>n, <1>s, <1>t, <2>3 DEF Shows, Mobile!Rotating
  <2> QED
    BY <1>s, <2>2, <2>4
<1>4. CASE \/ Mobile!StartSignIn \/ Mobile!AbortSignIn \/ Mobile!AccessExpires
           \/ Mobile!RequestStatus \/ Mobile!AnswerStatus \/ Mobile!PublishNobody \/ Mobile!SignOut
           \/ Mobile!RevokeRefreshToken \/ UNCHANGED moVars
           \/ \E key \in {"authorization", "token"} : Mobile!ClearSession(key)
  BY <1>1, <1>4, <1>r, <1>s
<1>5. CASE \E c \in Request :
             \/ Mobile!ReceiveCallback(c) \/ Mobile!RemovePending(c) \/ Mobile!EndRejected(c)
             \/ Mobile!ExchangeCode(c) \/ Mobile!SaveCallback(c)
  BY <1>2, <1>5, <1>r, <1>s
<1>6. CASE \E p \in Mobile!Process :
             \/ Mobile!BeginRotation(p) \/ Mobile!ReadToken(p) \/ Mobile!ExchangeToken(p)
             \/ Mobile!SaveToken(p) \/ Mobile!Dies(p)
  BY <1>3, <1>6, <1>s
<1> QED
  BY <1>4, <1>5, <1>6 DEF Mobile!Next

\* While a sign-out clears alone, what it cleared stays so, and at its end both are gone.
LEMMA SignOutNext ==
    ASSUME MobileTypes, Out, [Mobile!Next]_moVars
    PROVE  Out'
<1> DEFINE Cleans == /\ Mobile!Quiet
                     /\ "token" \notin leaving.left => store = None
                     /\ "authorization" \notin leaving.left => moPending = None
<1>t. leaving # None => leaving \in Mobile!Leaving
  BY DEF MobileTypes, Mobile!TypeOK
<1>s. NothingCleared /\ (ClearsAlone => Cleans)
  BY DEF Out
<1>q. Mobile!Quiet => /\ \A c \in Request : callbacks[c] = None
                      /\ \A p \in Mobile!Process : refreshing[p] = None
  BY DEF Mobile!Quiet
<1> USE DEF Mobile!stored, Mobile!memory, Mobile!calls, Mobile!remote, Mobile!histories
<1>b. (leaving' = leaving \/ leaving' = None \/ Mobile!Crosses) => NothingCleared'
  BY <1>s, <1>t DEF Mobile!Crosses, NothingCleared, Mobile!Leaving
<1>o. ASSUME signedOut' => signedOut, ClearsAlone' => Cleans', NothingCleared' PROVE Out'
  BY <1>o, SignedOutNext DEF Out
<1> HIDE DEF Cleans
<1>1. ASSUME \/ Mobile!StartSignIn
             \/ \E c \in Request : Mobile!ReceiveCallback(c)
             \/ \E p \in Mobile!Process : Mobile!BeginRotation(p)
      PROVE  Out'
  <2>1. Mobile!Crosses /\ (signedOut' => signedOut)
    BY <1>1 DEF Mobile!StartSignIn, Mobile!ReceiveCallback, Mobile!BeginRotation
  <2> QED
    BY <1>b, <1>o, <2>1, CrossedIsNotAlone
<1>2. ASSUME \/ Mobile!AbortSignIn \/ Mobile!AccessExpires \/ Mobile!RequestStatus
             \/ Mobile!AnswerStatus \/ Mobile!PublishNobody \/ UNCHANGED moVars
      PROVE  Out'
  <2>1. /\ UNCHANGED <<store, leaving, callbacks, refreshing, signedOut>>
        /\ moPending' = None \/ moPending' = moPending
    BY <1>2 DEF Mobile!AbortSignIn, Mobile!AccessExpires, Mobile!RequestStatus,
       Mobile!AnswerStatus, Mobile!PublishNobody, moVars
  <2>2. ClearsAlone' => ClearsAlone
    BY <2>1 DEF ClearsAlone
  <2>3. Cleans => Cleans'
    BY <2>1 DEF Cleans, Mobile!Quiet
  <2> QED
    BY <1>b, <1>o, <1>s, <2>1, <2>2, <2>3
<1>3. ASSUME NEW c \in Request,
             \/ Mobile!RemovePending(c) \/ Mobile!EndRejected(c) \/ Mobile!ExchangeCode(c)
             \/ Mobile!SaveCallback(c)
      PROVE  Out'
  <2>1. UNCHANGED <<leaving, signedOut>> /\ callbacks[c] # None
    BY <1>3 DEF Mobile!RemovePending, Mobile!EndRejected, Mobile!ExchangeCode, Mobile!SaveCallback,
       Mobile!At
  <2>2. ~ClearsAlone'
    BY <1>s, <1>q, <2>1 DEF Cleans, ClearsAlone
  <2> QED
    BY <1>b, <1>o, <2>1, <2>2
<1>4. ASSUME NEW p \in Mobile!Process,
             Mobile!ReadToken(p) \/ Mobile!ExchangeToken(p) \/ Mobile!SaveToken(p)
      PROVE  Out'
  <2>1. UNCHANGED <<leaving, signedOut>> /\ refreshing[p] # None
    BY <1>4 DEF Mobile!ReadToken, Mobile!ExchangeToken, Mobile!SaveToken, Mobile!Rotating
  <2>2. ~ClearsAlone'
    BY <1>s, <1>q, <2>1 DEF Cleans, ClearsAlone
  <2> QED
    BY <1>b, <1>o, <2>1, <2>2
<1>5. ASSUME NEW p \in Mobile!Process, Mobile!Dies(p) PROVE Out'
  <2>1. /\ UNCHANGED <<store, moPending, signedOut>> /\ Mobile!Returns(p)
        /\ leaving' = None \/ UNCHANGED <<leaving, callbacks>>
    BY <1>5 DEF Mobile!Dies
  <2>2. ASSUME ClearsAlone' PROVE Cleans'
    <3>1. leaving' = leaving /\ callbacks' = callbacks /\ ClearsAlone
      BY <2>1, <2>2 DEF ClearsAlone
    <3>2. refreshing' = [q \in Mobile!Process |-> None]
      BY <1>s, <2>1, <3>1 DEF Cleans, Mobile!Quiet, Mobile!Returns
    <3> QED
      BY <1>s, <2>1, <3>1, <3>2 DEF Cleans, Mobile!Quiet
  <2> QED
    BY <1>b, <1>o, <2>1, <2>2
<1>6. ASSUME Mobile!SignOut \/ Mobile!RevokeRefreshToken PROVE Out'
  <2>1. UNCHANGED <<store, moPending, refreshing, callbacks, signedOut>>
    BY <1>6 DEF Mobile!SignOut, Mobile!RevokeRefreshToken
  <2>2. ASSUME ClearsAlone' PROVE Cleans'
    <3>1. CASE Mobile!SignOut
      BY <2>2, <3>1 DEF Mobile!SignOut, ClearsAlone
    <3>2. CASE Mobile!RevokeRefreshToken
      <4>1. leaving \in Mobile!Leaving
        BY <1>t, <3>2 DEF Mobile!RevokeRefreshToken
      <4>2. leaving' = [leaving EXCEPT !.pc = "clear", !.token = None, !.alone = Mobile!Quiet]
        BY <3>2 DEF Mobile!RevokeRefreshToken
      <4>3. leaving'.alone = Mobile!Quiet /\ leaving'.left = leaving.left
        BY <4>1, <4>2 DEF Mobile!Leaving
      <4> QED
        BY <1>s, <2>1, <2>2, <3>2, <4>3 DEF ClearsAlone, Cleans, Mobile!Quiet, NothingCleared,
           Mobile!RevokeRefreshToken
    <3> QED
      BY <1>6, <3>1, <3>2
  <2>3. NothingCleared'
    <3>1. CASE Mobile!SignOut
      BY <3>1 DEF Mobile!SignOut, NothingCleared
    <3>2. CASE Mobile!RevokeRefreshToken
      <4>1. /\ leaving \in Mobile!Leaving
            /\ leaving' = [leaving EXCEPT !.pc = "clear", !.token = None, !.alone = Mobile!Quiet]
        BY <1>t, <3>2 DEF Mobile!RevokeRefreshToken
      <4>2. leaving'.pc = "clear"
        BY <4>1 DEF Mobile!Leaving
      <4> QED
        BY <4>2 DEF NothingCleared
    <3> QED
      BY <1>6, <3>1, <3>2
  <2> QED
    BY <1>o, <2>1, <2>2, <2>3
<1>7. ASSUME NEW key \in {"authorization", "token"}, Mobile!ClearSession(key) PROVE Out'
  <2>1. PICK fails \in BOOLEAN :
          LET next == [leaving EXCEPT !.left = @ \ {key}, !.failed = @ \/ fails,
                               !.alone = @ /\ ~fails] IN
          /\ IF fails THEN Mobile!Fails /\ UNCHANGED <<store, moPending>>
             ELSE Mobile!Cleared(key) /\ UNCHANGED losses
          /\ IF next.left # {} THEN leaving' = next /\ UNCHANGED <<principal, signedOut>>
             ELSE /\ leaving' = None
                  /\ Mobile!Publishes(IF next.failed THEN principal ELSE "nobody")
                  /\ signedOut' = next.alone
    BY <1>7 DEF Mobile!ClearSession
  <2>2. PICK next : next = [leaving EXCEPT !.left = @ \ {key}, !.failed = @ \/ fails,
                                           !.alone = @ /\ ~fails]
    OBVIOUS
  <2>3. /\ leaving # None /\ leaving.pc = "clear" /\ leaving \in Mobile!Leaving
        /\ UNCHANGED <<callbacks, refreshing>>
    BY <1>7, <1>t DEF Mobile!ClearSession
  <2>4. next.left = leaving.left \ {key} /\ next.alone = (leaving.alone /\ ~fails)
    BY <2>2, <2>3 DEF Mobile!Leaving
  <2>5. ASSUME next.alone
        PROVE  /\ Mobile!Quiet /\ Mobile!Quiet'
               /\ "token" \notin next.left => store' = None
               /\ "authorization" \notin next.left => moPending' = None
    <3>1. ~fails /\ Cleans
      BY <1>s, <2>3, <2>4, <2>5 DEF ClearsAlone
    <3>2. Mobile!Cleared(key)
      BY <2>1, <3>1
    <3> QED
      BY <2>3, <2>4, <3>1, <3>2 DEF Cleans, Mobile!Cleared, Mobile!Forgotten, Mobile!Quiet
  <2>8. leaving' = next \/ leaving' = None
    BY <2>1, <2>2
  <2>9. next.pc = "clear"
    BY <2>2, <2>3 DEF Mobile!Leaving
  <2>10. NothingCleared'
    BY <2>8, <2>9 DEF NothingCleared
  <2>6. CASE next.left # {}
    <3>1. leaving' = next /\ signedOut' = signedOut
      BY <2>1, <2>2, <2>6
    <3>2. ClearsAlone' => Cleans'
      BY <2>5, <3>1 DEF ClearsAlone, Cleans
    <3> QED
      BY <1>o, <2>10, <3>1, <3>2
  <2>7. CASE next.left = {}
    <3>1. leaving' = None /\ signedOut' = next.alone
      BY <2>1, <2>2, <2>7
    <3>2. ~ClearsAlone'
      BY <3>1 DEF ClearsAlone
    <3>3. ASSUME signedOut'
          PROVE  /\ store' = None /\ moPending' = None
                 /\ \A c \in Request : callbacks'[c] # None => callbacks'[c].pc = "reject"
                 /\ \A p \in Mobile!Process : ~Shows(p)'
      <4>1. \A c \in Request : callbacks'[c] = None
        BY <1>q, <2>3, <2>5, <3>1, <3>3
      <4>2. \A p \in Mobile!Process : ~Shows(p)'
        BY <1>q, <2>3, <2>5, <3>1, <3>3 DEF Shows, Mobile!Rotating
      <4> QED
        BY <2>5, <2>7, <3>1, <3>3, <4>1, <4>2
    <3> QED
      BY <2>10, <3>2, <3>3 DEF Out
  <2> QED
    BY <2>6, <2>7
<1> QED
  BY <1>1, <1>2, <1>3, <1>4, <1>5, <1>6, <1>7 DEF Mobile!Next

\* Every step of the mobile client keeps the invariant.
LEMMA MobileNext == MobileInv /\ [Mobile!Next]_moVars => MobileInv'
BY MobileTypesNext, MobileSafeNext, SignOutNext DEF MobileInv, MobileSafe

-------------------------------------------------------------------------------

(* AuditChain.                                                                *)

\* Events are appended once, and a hash is known only of an event that is stored or lost.
Appending(w) ==
    /\ w.event < nextEvent /\ w.previous < nextEvent /\ w.event # lastHash
    /\ \A l \in log : l.event # w.event
EventsKnown ==
    /\ lastHash < nextEvent
    /\ \A l \in log : l.event < nextEvent /\ l.previous # l.event
    /\ \A l, m \in log : l.event = m.event => l = m
    /\ \A r \in Request : auWork[r] # None => Appending(auWork[r])
    /\ \A r, q \in Request : auWork[r] # None /\ auWork[q] # None =>
          auWork[r].previous # auWork[q].event /\ (r # q => auWork[r].event # auWork[q].event)

\* The log shows that it was tampered with: in a changed row, or in one that follows a row
\* that is gone.
Gone(e) ==
    /\ e < nextEvent /\ \E m \in log : m.previous = e
    /\ \A l \in log : l.event # e
    /\ \A r \in Request : auWork[r] # None => auWork[r].event # e
Torn == (\E l \in log : ~l.intact) \/ \E e \in Audit!Event : Gone(e)
TamperingShows == altered /\ "retention" \notin causes => Torn

\* One append at a time, each onto the newest event of the writer.
OneAppend ==
    \A r \in Request : auWork[r] # None =>
        /\ seeded /\ \A q \in Request : auWork[q] # None => q = r
        /\ \A l \in log : l.event < auWork[r].event
        /\ auWork[r].pc = "store" => auWork[r].previous = lastHash
Resumed ==
    seeded /\ (\A r \in Request : auWork[r] # None => auWork[r].pc # "seed")
        => lastHash = Audit!Head(log)
ChainHolds ==
    ~altered /\ causes = {} => Audit!VerifyAuditChain /\ OneAppend /\ Resumed

AuditInv ==
    /\ Audit!TypeOK
    /\ EventsKnown
    /\ TamperingShows
    /\ ChainHolds

\* A set of numbers has a greatest one.
LEMMA Greatest ==
    ASSUME NEW n \in Int, NEW B \in SUBSET (1 .. n), B # {}
    PROVE  \E b \in B : \A c \in B : c <= b
<1> DEFINE Above(b) == {k \in 1 .. n : k > b}
           T == {Above(b) : b \in B}
           R == StrictSubsetOrdering(1 .. n)
           F == FiniteSubsetsOf(1 .. n)
<1>1. IsWellFoundedOn(R, F)
  BY FS_StrictSubsetOrderingWellFounded
<1>2. T \subseteq F /\ T # {}
  <2>1. IsFiniteSet(1 .. n)
    BY FS_Interval
  <2>2. \A b \in B : Above(b) \in SUBSET (1 .. n)
    OBVIOUS
  <2>3. \A b \in B : Above(b) \in F
    BY <2>1, <2>2, FS_Subset DEF FiniteSubsetsOf
  <2> QED
    BY <2>3
<1> HIDE DEF R, F, T
<1>3. PICK X \in T : \A Y \in T : ~(<<Y, X>> \in R)
  BY <1>1, <1>2, WFMin
<1>4. PICK b \in B : X = Above(b)
  BY <1>3 DEF T
<1>5. ASSUME NEW c \in B, c > b PROVE FALSE
  <2>1. Above(c) \in T
    BY DEF T
  <2>2. b \in 1 .. n /\ c \in 1 .. n
    OBVIOUS
  <2>3. c \in Above(b) /\ c \notin Above(c)
    BY <1>5, <2>2
  <2>4. Above(c) \subseteq Above(b)
    BY <1>5, <2>2
  <2>5. Above(c) \in F /\ Above(b) \in F
    BY <1>2, <1>4, <2>1 DEF T
  <2>6. <<Above(c), Above(b)>> \in R
    BY <2>3, <2>4, <2>5 DEF R, F, StrictSubsetOrdering, FiniteSubsetsOf
  <2> QED
    BY <1>3, <1>4, <2>1, <2>6
<1> QED
  BY <1>4, <1>5

\* The newest row of some is one of them.
LEMMA NewestIsOne ==
    ASSUME NEW rows, rows \subseteq Audit!Link, rows # {}
    PROVE  /\ Audit!Newest(rows) \in rows
           /\ \A m \in rows : m.event <= Audit!Newest(rows).event
<1>1. PICK B : B = {l.event : l \in rows}
  OBVIOUS
<1>2. B \in SUBSET (1 .. MaxEvent) /\ B # {}
  BY <1>1 DEF Audit!Link, Audit!Event
<1>3. PICK b \in B : \A c \in B : c <= b
  <2>1. MaxEvent \in Int
    BY AuditAssumption
  <2> QED
    BY <1>2, <2>1, Greatest
<1>4. \E l \in rows : \A m \in rows : m.event <= l.event
  BY <1>1, <1>3
<1> QED
  BY <1>4 DEF Audit!Newest

\* The head of the chain among some rows of the log is genesis or one of their events.
LEMMA HeadIsKnown ==
    ASSUME NEW rows, rows \subseteq Audit!Link, NEW head, head = Audit!Head(rows)
    PROVE  head = 0 \/ \E l \in rows : head = l.event
<1>1. PICK own : own = {l \in rows : l.writer = Audit!WriterId}
  OBVIOUS
<1>2. own # {} => Audit!Newest(own) \in own
  BY <1>1, NewestIsOne
<1>3. head = IF own = {} THEN 0 ELSE Audit!Newest(own).event
  BY <1>1 DEF Audit!Head, Audit!Genesis
<1> QED
  BY <1>1, <1>2, <1>3

\* At first the log is empty.
LEMMA AuditInit == Audit!Init => AuditInv
<1> SUFFICES ASSUME Audit!Init PROVE AuditInv
  OBVIOUS
<1>1. log = {} /\ (\A r \in Request : auWork[r] = None) /\ lastHash = 0 /\ nextEvent = 1
  BY DEF Audit!Init, Audit!Genesis
<1>2. Audit!TypeOK
  <2>1. auWork \in [Request -> Audit!Work \cup {None}] /\ 1 \in 1 .. MaxEvent + 1
    BY AuditAssumption DEF Audit!Init
  <2>2. /\ writing \in {"fresh", "scanned", "loaded"} /\ process \in Audit!Writer
        /\ seeded \in BOOLEAN /\ lastHash \in Audit!Hash /\ log \subseteq Audit!Link
        /\ altered \in BOOLEAN /\ causes \subseteq Audit!Cause
    <3>1. writing \in {"fresh", "scanned", "loaded"} /\ seeded \in BOOLEAN /\ altered \in BOOLEAN
      BY DEF Audit!Init
    <3>2. process \in Audit!Writer /\ lastHash \in Audit!Hash
      BY DEF Audit!Init, Audit!Writer, Audit!Hash
    <3>3. log \subseteq Audit!Link /\ causes \subseteq Audit!Cause
      BY DEF Audit!Init
    <3> QED
      BY <3>1, <3>2, <3>3
  <2> QED
    BY <1>1, <2>1, <2>2 DEF Audit!TypeOK
<1>3. EventsKnown
  BY <1>1 DEF EventsKnown
<1>4. TamperingShows /\ OneAppend /\ Resumed
  BY <1>1 DEF Audit!Init, TamperingShows, OneAppend, Resumed
<1>5. Audit!VerifyAuditChain
  BY <1>1 DEF Audit!VerifyAuditChain
<1> QED
  BY <1>2, <1>3, <1>4, <1>5 DEF AuditInv, ChainHolds

\* The invariant lets an honest log verify and no tampered one.
LEMMA AuditSafe == AuditInv => Audit!UntamperedVerifies /\ Audit!TamperingDetected
<1> SUFFICES ASSUME AuditInv PROVE Audit!UntamperedVerifies /\ Audit!TamperingDetected
  OBVIOUS
<1>1. Audit!UntamperedVerifies
  BY DEF AuditInv, ChainHolds, Audit!UntamperedVerifies
<1>2. ASSUME Torn, Audit!VerifyAuditChain PROVE FALSE
  <2>1. PICK e \in Audit!Event : Gone(e)
    BY <1>2 DEF Torn, Audit!VerifyAuditChain
  <2>2. PICK m \in log : m.previous = e
    BY <2>1 DEF Gone
  <2>3. PICK before : before = {l \in log : l.writer = m.writer /\ l.event < m.event}
    OBVIOUS
  <2>4. before # {} => Audit!Newest(before) \in before
    BY <2>3, NewestIsOne DEF AuditInv, Audit!TypeOK
  <2>5. e = IF before = {} THEN 0 ELSE Audit!Newest(before).event
    BY <1>2, <2>2, <2>3 DEF Audit!VerifyAuditChain, Audit!Preceding, Audit!Genesis
  <2>6. e # 0
    BY DEF Audit!Event
  <2> QED
    BY <2>1, <2>3, <2>4, <2>5, <2>6 DEF Gone
<1>3. Audit!TamperingDetected
  BY <1>2 DEF AuditInv, TamperingShows, Audit!TamperingDetected
<1> QED
  BY <1>1, <1>3

\* A request goes on with its append.
Appends(r, w) == auWork' = [auWork EXCEPT ![r] = w]

\* The append that moves is the only one that does.
LEMMA AppendsTo ==
    ASSUME Audit!TypeOK, NEW r \in Request, NEW w, Appends(r, w)
    PROVE  auWork'[r] = w /\ \A q \in Request \ {r} : auWork'[q] = auWork[q]
BY DEF Audit!TypeOK, Appends

\* The types, in parts.
LEMMA AuditTypes ==
    ASSUME Audit!TypeOK
    PROVE  /\ lastHash \in Nat /\ nextEvent \in Nat /\ nextEvent \in 1 .. MaxEvent + 1
           /\ \A l \in log : l \in Audit!Link /\ l.event \in Nat /\ l.previous \in Nat
           /\ \A r \in Request : auWork[r] # None =>
                 /\ auWork[r] \in Audit!Work
                 /\ auWork[r].event \in Nat /\ auWork[r].previous \in Nat
           /\ Audit!Event \subseteq Nat
BY AuditAssumption DEF Audit!TypeOK, Audit!Hash, Audit!Event, Audit!Genesis, Audit!Link, Audit!Work

\* An append comes to the sink.
LEMMA EmitNext ==
    ASSUME AuditInv, NEW r \in Request, Audit!Emit(r) PROVE AuditInv'
<1>t. Audit!TypeOK /\ EventsKnown /\ TamperingShows /\ ChainHolds
  BY DEF AuditInv
<1>n. /\ lastHash \in Nat /\ nextEvent \in Nat
      /\ \A l \in log : l \in Audit!Link /\ l.event \in Nat /\ l.previous \in Nat
      /\ \A q \in Request : auWork[q] # None => auWork[q].event \in Nat /\ auWork[q].previous \in Nat
  BY <1>t, AuditTypes
<1>1. PICK w : w = [pc |-> IF seeded THEN "hash" ELSE "seed", event |-> nextEvent,
                    previous |-> Audit!Genesis]
  OBVIOUS
<1>2. /\ auWork[r] = None /\ Appends(r, w) /\ nextEvent \in Audit!Event
      /\ nextEvent' = nextEvent + 1 /\ seeded' = TRUE
      /\ causes' = causes \cup IF Audit!Busy THEN {"overlap"} ELSE {}
      /\ UNCHANGED <<writing, process, lastHash, log, altered>>
  BY <1>1 DEF Audit!Emit, Appends
<1>3. /\ w \in Audit!Work /\ w.event = nextEvent /\ w.previous = 0
      /\ w.pc = IF seeded THEN "hash" ELSE "seed"
  BY <1>1, <1>2 DEF Audit!Work, Audit!Hash, Audit!Genesis
<1>4. auWork'[r] = w /\ \A q \in Request \ {r} : auWork'[q] = auWork[q]
  BY <1>t, <1>2, AppendsTo
<1>5. nextEvent' \in 1 .. MaxEvent + 1
  BY <1>n, <1>2, AuditAssumption DEF Audit!Event
<1>6. Audit!TypeOK'
  <2>1. auWork' \in [Request -> Audit!Work \cup {None}] /\ causes' \subseteq Audit!Cause
    BY <1>t, <1>2, <1>3 DEF Audit!TypeOK, Appends, Audit!Cause
  <2> QED
    BY <1>t, <1>2, <1>5, <2>1 DEF Audit!TypeOK, Audit!Writer, Audit!Hash, Audit!Event,
       Audit!Genesis,
        Audit!Link, Audit!Work, Audit!Cause
<1>7. EventsKnown'
  <2>1. ASSUME NEW q \in Request, auWork'[q] # None
        PROVE  /\ auWork'[q].event < nextEvent' /\ auWork'[q].previous < nextEvent'
               /\ auWork'[q].event # lastHash
               /\ \A l \in log : l.event # auWork'[q].event
    <3>1. CASE q = r
      BY <1>n, <1>t, <1>2, <1>3, <1>4, <3>1 DEF EventsKnown
    <3>2. CASE q # r
      BY <1>n, <1>t, <1>2, <1>4, <2>1, <3>2 DEF EventsKnown, Appending
    <3> QED
      BY <3>1, <3>2
  <2>2. ASSUME NEW p \in Request, NEW q \in Request, auWork'[p] # None, auWork'[q] # None
        PROVE  /\ auWork'[p].previous # auWork'[q].event
               /\ p # q => auWork'[p].event # auWork'[q].event
    <3>1. \A x \in Request \ {r} : auWork[x] # None =>
             /\ auWork[x].event < nextEvent /\ auWork[x].previous < nextEvent
             /\ auWork[x].event # 0
      <4>1. ASSUME NEW x \in Request, auWork[x] # None PROVE auWork[x].event # 0
        BY <1>t, <4>1, AuditTypes DEF Audit!Work, Audit!Event
      <4> QED
        BY <1>t, <4>1 DEF EventsKnown, Appending
    <3>2. nextEvent # 0
      BY <1>2 DEF Audit!Event
    <3>3. CASE p # r /\ q # r
      BY <1>t, <1>4, <2>2, <3>3 DEF EventsKnown
    <3>4. CASE p = r \/ q = r
      BY <1>n, <1>3, <1>4, <2>2, <3>1, <3>2, <3>4
    <3> QED
      BY <3>3, <3>4
  <2> QED
    BY <1>n, <1>t, <1>2, <2>1, <2>2 DEF EventsKnown, Appending
<1>8. TamperingShows'
  <2>1. ASSUME NEW e \in Audit!Event, Gone(e) PROVE Gone(e)'
    <3>1. e \in Nat /\ e < nextEvent
      BY <2>1 DEF Gone, Audit!Event
    <3> QED
      BY <1>n, <1>2, <1>3, <1>4, <2>1, <3>1 DEF Gone
  <2> QED
    BY <1>t, <1>2, <2>1 DEF TamperingShows, Torn, Audit!Event
<1>9. ChainHolds'
  <2> SUFFICES ASSUME ~altered, causes' = {}
               PROVE  Audit!VerifyAuditChain' /\ OneAppend' /\ Resumed'
    BY <1>2 DEF ChainHolds
  <2>1. causes = {} /\ \A q \in Request : auWork[q] = None
    BY <1>2 DEF Audit!Busy
  <2>2. Audit!VerifyAuditChain /\ Resumed
    BY <1>t, <2>1 DEF ChainHolds
  <2>3. Audit!VerifyAuditChain'
    BY <1>2, <2>2 DEF Audit!VerifyAuditChain, Audit!Preceding, Audit!Newest, Audit!Genesis
  <2>4. OneAppend'
    BY <1>2, <1>3, <1>4, <1>t, <2>1 DEF OneAppend, EventsKnown
  <2>5. Resumed'
    <3>1. Audit!Head(log)' = Audit!Head(log)
      BY <1>2 DEF Audit!Head, Audit!WriterId, Audit!Newest, Audit!Genesis
    <3>2. ~seeded => w.pc = "seed" /\ w # None
      BY <1>3, AuditAssumption
    <3> QED
      BY <1>2, <1>4, <2>1, <2>2, <3>1, <3>2 DEF Resumed
  <2> QED
    BY <2>3, <2>4, <2>5
<1> QED
  BY <1>6, <1>7, <1>8, <1>9 DEF AuditInv

\* The head of the chain is found, and the event hashed onto it.
LEMMA HashNext ==
    ASSUME AuditInv, NEW r \in Request, Audit!Seed(r) \/ Audit!HashEvent(r) PROVE AuditInv'
<1>t. Audit!TypeOK /\ EventsKnown /\ TamperingShows /\ ChainHolds
  BY DEF AuditInv
<1>n. /\ lastHash \in Nat /\ nextEvent \in Nat
      /\ \A l \in log : l \in Audit!Link /\ l.event \in Nat /\ l.previous \in Nat
      /\ \A q \in Request : auWork[q] # None => auWork[q].event \in Nat /\ auWork[q].previous \in Nat
  BY <1>t, AuditTypes
<1>1. /\ auWork[r] # None /\ auWork[r] \in Audit!Work
      /\ UNCHANGED <<writing, process, seeded, log, nextEvent, altered>>
  BY <1>t, AuditTypes DEF Audit!Seed, Audit!HashEvent, Audit!At, Audit!memory
<1>h. Audit!Head(log)' = Audit!Head(log)
  BY <1>1 DEF Audit!Head, Audit!WriterId, Audit!Newest, Audit!Genesis
\* What is made the head, or is linked to, is genesis or was the head or is stored.
<1> DEFINE Known(h) == h = 0 \/ h = lastHash \/ \E l \in log : h = l.event
<1>2. ASSUME NEW h, Known(h)
      PROVE  /\ h \in Audit!Hash /\ h \in Nat /\ h < nextEvent
             /\ \A q \in Request : auWork[q] # None => h # auWork[q].event
  <2>1. h \in Audit!Hash /\ h \in Nat
    BY <1>2, <1>n, <1>t DEF Audit!TypeOK, Audit!Link, Audit!Hash, Audit!Genesis
  <2>2. h < nextEvent
    BY <1>2, <1>n, <1>t DEF EventsKnown, Audit!TypeOK
  <2>3. ASSUME NEW q \in Request, auWork[q] # None PROVE h # auWork[q].event
    <3>1. auWork[q].event # 0
      BY <1>t, <2>3, AuditTypes DEF Audit!Work, Audit!Event
    <3> QED
      BY <1>2, <1>t, <2>3, <3>1 DEF EventsKnown, Appending
  <2> QED
    BY <2>1, <2>2, <2>3
<1>3. PICK w : /\ Appends(r, w) /\ w \in Audit!Work /\ w.event = auWork[r].event
               /\ w.pc \in {"hash", "store"}
               /\ w.previous = auWork[r].previous \/ w.previous = lastHash
               /\ \/ Audit!Seed(r) /\ w.pc = "hash"
                  \/ Audit!HashEvent(r) /\ w.pc = "store" /\ w.previous = lastHash
  <2>1. CASE Audit!Seed(r)
    <3>1. PICK w : w = [auWork[r] EXCEPT !.pc = "hash"]
      OBVIOUS
    <3>2. w \in Audit!Work /\ w.event = auWork[r].event /\ w.previous = auWork[r].previous
          /\ w.pc = "hash"
      BY <1>1, <3>1 DEF Audit!Work
    <3>3. Appends(r, w)
      BY <2>1, <3>1 DEF Audit!Seed, Appends
    <3> QED
      BY <2>1, <3>2, <3>3
  <2>2. CASE Audit!HashEvent(r)
    <3>1. PICK w : w = [auWork[r] EXCEPT !.pc = "store", !.previous = lastHash]
      OBVIOUS
    <3>2. w \in Audit!Work /\ w.event = auWork[r].event /\ w.previous = lastHash
          /\ w.pc = "store"
      BY <1>1, <1>t, <3>1 DEF Audit!Work, Audit!TypeOK
    <3>3. Appends(r, w)
      BY <1>t, <2>2, <3>1 DEF Audit!HashEvent, Appends, Audit!TypeOK
    <3> QED
      BY <2>2, <3>2, <3>3
  <2> QED
    BY <2>1, <2>2
<1>4. auWork'[r] = w /\ (\A q \in Request \ {r} : auWork'[q] = auWork[q]) /\ w # None
  BY <1>t, <1>3, AppendsTo, AuditAssumption
<1>5. Known(lastHash')
  <2>1. CASE Audit!Seed(r)
    <3>1. /\ writing \in {"fresh", "scanned", "loaded"}
          /\ log \subseteq Audit!Link /\ Audit!Scanned \subseteq log
      BY <1>t DEF Audit!TypeOK, Audit!Scanned
    <3>2. PICK found : found \subseteq Audit!Link /\ found \subseteq log
                       /\ (lastHash' = 0 \/ lastHash' = Audit!Head(found))
      BY <2>1, <3>1 DEF Audit!Seed, Audit!Genesis
    <3> QED
      BY <3>2, HeadIsKnown
  <2>2. CASE Audit!HashEvent(r)
    BY <2>2 DEF Audit!HashEvent, Audit!memory
  <2> QED
    BY <1>3, <2>1, <2>2
<1> HIDE DEF Known
<1>6. /\ lastHash' \in Audit!Hash /\ lastHash' < nextEvent
      /\ \A q \in Request : auWork[q] # None => lastHash' # auWork[q].event
  BY <1>2, <1>5
<1>7. /\ lastHash < nextEvent
      /\ \A q \in Request : auWork[q] # None => lastHash # auWork[q].event
  BY <1>t DEF EventsKnown, Appending
<1>8. Audit!TypeOK'
  <2>1. auWork' \in [Request -> Audit!Work \cup {None}]
    BY <1>t, <1>3 DEF Audit!TypeOK, Appends
  <2>2. causes' \subseteq Audit!Cause
    BY <1>3, <1>t DEF Audit!Seed, Audit!HashEvent, Audit!TypeOK, Audit!Cause
  <2> QED
    BY <1>t, <1>1, <1>6, <2>1, <2>2 DEF Audit!TypeOK, Audit!Writer, Audit!Hash, Audit!Event,
        Audit!Genesis, Audit!Link, Audit!Work, Audit!Cause
<1>9. EventsKnown'
  <2>1. ASSUME NEW q \in Request, auWork'[q] # None
        PROVE  /\ auWork'[q].event = auWork[q].event /\ auWork[q] # None
               /\ auWork'[q].previous = auWork[q].previous \/ auWork'[q].previous = lastHash
    BY <1>1, <1>3, <1>4, <2>1
  <2>2. ASSUME NEW q \in Request, auWork'[q] # None
        PROVE  /\ auWork'[q].event < nextEvent /\ auWork'[q].previous < nextEvent
               /\ auWork'[q].event # lastHash'
               /\ \A l \in log : l.event # auWork'[q].event
    BY <1>t, <1>6, <1>7, <2>1, <2>2 DEF EventsKnown, Appending
  <2>3. ASSUME NEW p \in Request, NEW q \in Request, auWork'[p] # None, auWork'[q] # None
        PROVE  /\ auWork'[p].previous # auWork'[q].event
               /\ p # q => auWork'[p].event # auWork'[q].event
    BY <1>t, <1>7, <2>1, <2>3 DEF EventsKnown
  <2> QED
    BY <1>t, <1>1, <1>6, <2>2, <2>3 DEF EventsKnown, Appending
<1>10. TamperingShows'
  <2>1. ASSUME NEW e \in Audit!Event, Gone(e) PROVE Gone(e)'
    BY <1>1, <1>3, <1>4, <2>1 DEF Gone
  <2>2. "retention" \notin causes' => "retention" \notin causes
    BY <1>3 DEF Audit!Seed, Audit!HashEvent
  <2> QED
    BY <1>t, <1>1, <2>1, <2>2 DEF TamperingShows, Torn, Audit!Event
<1>11. ChainHolds'
  <2> SUFFICES ASSUME ~altered, causes' = {}
               PROVE  Audit!VerifyAuditChain' /\ OneAppend' /\ Resumed'
    BY <1>1 DEF ChainHolds
  <2>1. causes = {}
    BY <1>3 DEF Audit!Seed, Audit!HashEvent
  <2>2. Audit!VerifyAuditChain /\ OneAppend /\ Resumed
    BY <1>t, <2>1 DEF ChainHolds
  <2>3. Audit!VerifyAuditChain'
    BY <1>1, <2>2 DEF Audit!VerifyAuditChain, Audit!Preceding, Audit!Newest, Audit!Genesis
  <2>4. \A q \in Request \ {r} : auWork[q] = None
    BY <1>1, <2>2 DEF OneAppend
  <2>5. w.pc = "store" => w.previous = lastHash'
    BY <1>3 DEF Audit!HashEvent, Audit!memory
  <2>6. OneAppend'
    BY <1>1, <1>3, <1>4, <2>2, <2>4, <2>5 DEF OneAppend
  <2>7. lastHash' = Audit!Head(log)
    <3>1. CASE Audit!Seed(r)
      BY <2>1, <3>1 DEF Audit!Seed
    <3>2. CASE Audit!HashEvent(r)
      <4>1. seeded /\ auWork[r].pc = "hash"
        BY <1>1, <2>2, <3>2 DEF OneAppend, Audit!HashEvent, Audit!At
      <4> QED
        BY <2>2, <2>4, <3>2, <4>1 DEF Resumed, Audit!HashEvent, Audit!memory
    <3> QED
      BY <1>3, <3>1, <3>2
  <2>8. Resumed'
    BY <1>h, <2>7 DEF Resumed
  <2> QED
    BY <2>3, <2>6, <2>8
<1> QED
  BY <1>8, <1>9, <1>10, <1>11 DEF AuditInv

\* The row is stored, or lost after its hash became the head.
LEMMA StoreNext ==
    ASSUME AuditInv, NEW r \in Request, Audit!StoreEvent(r) PROVE AuditInv'
<1>t. Audit!TypeOK /\ EventsKnown /\ TamperingShows /\ ChainHolds
  BY DEF AuditInv
<1>n. /\ lastHash \in Nat /\ nextEvent \in Nat
      /\ \A l \in log : l \in Audit!Link /\ l.event \in Nat /\ l.previous \in Nat
      /\ \A q \in Request : auWork[q] # None => auWork[q].event \in Nat /\ auWork[q].previous \in Nat
  BY <1>t, AuditTypes
<1>1. /\ auWork[r] # None /\ auWork[r].pc = "store" /\ auWork[r] \in Audit!Work
      /\ UNCHANGED <<writing, process, seeded, nextEvent, altered>>
  BY <1>t, AuditTypes DEF Audit!StoreEvent, Audit!At
<1>2. PICK e, new : /\ e = auWork[r].event
                    /\ new = [event |-> e, previous |-> auWork[r].previous,
                              writer |-> Audit!WriterId, intact |-> TRUE]
  OBVIOUS
<1>3. /\ lastHash' = e /\ Appends(r, None)
      /\ \/ log' = log \cup {new} /\ UNCHANGED causes
         \/ log' = log /\ causes' = causes \cup {"failure"}
  BY <1>2 DEF Audit!StoreEvent, Audit!Linked, Appends
<1>4. /\ e \in Audit!Event /\ e \in Audit!Hash /\ e \in Nat
      /\ new \in Audit!Link /\ new.event = e /\ new.previous = auWork[r].previous
      /\ new.writer = Audit!WriterId /\ new.intact
  <2>1. Audit!WriterId \in Audit!Writer
    BY <1>t DEF Audit!WriterId, Audit!TypeOK, Audit!Writer
  <2>2. e \in Audit!Event /\ e \in Audit!Hash /\ e \in Nat
    BY <1>1, <1>2, <1>n DEF Audit!Work, Audit!Hash
  <2>3. auWork[r].previous \in Audit!Hash
    BY <1>1 DEF Audit!Work
  <2> QED
    BY <1>2, <2>1, <2>2, <2>3 DEF Audit!Link
<1>5. PICK none : none = None
  OBVIOUS
<1>6. auWork'[r] = none /\ \A q \in Request \ {r} : auWork'[q] = auWork[q]
  BY <1>t, <1>3, <1>5, AppendsTo
<1>7. /\ e < nextEvent /\ (\A l \in log : l.event # e)
      /\ \A q \in Request : auWork[q] # None =>
            auWork[q].previous # e /\ (q # r => auWork[q].event # e)
  BY <1>t, <1>1, <1>2 DEF EventsKnown, Appending
<1>8. Audit!TypeOK'
  <2>1. auWork' \in [Request -> Audit!Work \cup {None}]
    BY <1>t, <1>3 DEF Audit!TypeOK, Appends
  <2>2. log' \subseteq Audit!Link /\ causes' \subseteq Audit!Cause
    BY <1>3, <1>4, <1>t DEF Audit!TypeOK, Audit!Cause
  <2> QED
    BY <1>t, <1>1, <1>3, <1>4, <2>1, <2>2 DEF Audit!TypeOK, Audit!Writer, Audit!Hash, Audit!Event,
        Audit!Genesis, Audit!Link, Audit!Work, Audit!Cause
<1>9. EventsKnown'
  <2>1. ASSUME NEW q \in Request, auWork'[q] # None
        PROVE  /\ q # r /\ auWork'[q] = auWork[q] /\ auWork[q] # None
               /\ auWork[q].event < nextEvent /\ auWork[q].previous < nextEvent
               /\ auWork[q].event # e
               /\ \A l \in log' : l.event # auWork[q].event
    BY <1>t, <1>3, <1>4, <1>5, <1>6, <1>7, <2>1 DEF EventsKnown, Appending
  <2>2. \A l \in log' : l.event < nextEvent /\ l.previous # l.event
    BY <1>t, <1>1, <1>3, <1>4, <1>7 DEF EventsKnown
  <2>3. \A l, m \in log' : l.event = m.event => l = m
    BY <1>t, <1>3, <1>4, <1>7 DEF EventsKnown
  <2>4. ASSUME NEW p \in Request, NEW q \in Request, auWork'[p] # None, auWork'[q] # None
        PROVE  /\ auWork'[p].previous # auWork'[q].event
               /\ p # q => auWork'[p].event # auWork'[q].event
    BY <1>t, <2>1, <2>4 DEF EventsKnown
  <2> QED
    BY <1>1, <1>3, <1>7, <2>1, <2>2, <2>3, <2>4 DEF EventsKnown, Appending
<1>10. TamperingShows'
  <2>1. ASSUME NEW d \in Audit!Event, Gone(d) PROVE Gone(d)'
    <3>1. d # e
      BY <1>1, <1>2, <2>1 DEF Gone
    <3> QED
      BY <1>1, <1>3, <1>4, <1>5, <1>6, <2>1, <3>1 DEF Gone
  <2>2. ("retention" \notin causes' => "retention" \notin causes) /\ log \subseteq log'
    BY <1>3
  <2> QED
    BY <1>t, <1>1, <2>1, <2>2 DEF TamperingShows, Torn, Audit!Event
<1>11. ChainHolds'
  <2> SUFFICES ASSUME ~altered, causes' = {}
               PROVE  Audit!VerifyAuditChain' /\ OneAppend' /\ Resumed'
    BY <1>1 DEF ChainHolds
  <2>1. causes = {} /\ log' = log \cup {new}
    BY <1>3
  <2>2. Audit!VerifyAuditChain /\ OneAppend /\ Resumed
    BY <1>t, <2>1 DEF ChainHolds
  <2>3. \A q \in Request : auWork'[q] = none
    BY <1>1, <1>5, <1>6, <2>2 DEF OneAppend
  <2>4. \A l \in log : l.event < e
    BY <1>1, <1>2, <2>2 DEF OneAppend
  <2>5. OneAppend'
    BY <1>5, <2>3 DEF OneAppend
  <2>6. PICK own : own = {l \in log : l.writer = Audit!WriterId}
    OBVIOUS
  <2>7. new.previous = IF own = {} THEN 0 ELSE Audit!Newest(own).event
    <3>1. auWork[r].previous = Audit!Head(log)
      BY <1>1, <2>2 DEF OneAppend, Resumed
    <3> QED
      BY <1>4, <2>6, <3>1 DEF Audit!Head, Audit!Genesis
  <2>8. Audit!Head(log)' = e
    <3>1. PICK both : both = own \cup {new}
      OBVIOUS
    <3>2. Audit!Newest(both) = new
      <4>1. \A l \in own : l.event \in Nat /\ l.event < e
        BY <1>n, <2>4, <2>6
      <4>2. \A l \in both : (\A m \in both : m.event <= l.event) <=> l = new
        BY <1>4, <3>1, <4>1
      <4> QED
        BY <3>1, <4>2 DEF Audit!Newest
    <3>3. PICK id : id = Audit!WriterId /\ id = Audit!WriterId'
      BY <1>1 DEF Audit!WriterId
    <3>4. PICK mine : mine = {l \in log' : l.writer = id}
      OBVIOUS
    <3>5. mine = both
      BY <1>4, <2>1, <2>6, <3>1, <3>3, <3>4
    <3>6. Audit!Head(log)' = IF mine = {} THEN 0 ELSE Audit!Newest(mine).event
      BY <3>3, <3>4 DEF Audit!Head, Audit!Genesis, Audit!Newest
    <3> QED
      BY <1>4, <3>1, <3>2, <3>5, <3>6
  <2>9. Resumed'
    BY <1>3, <2>8 DEF Resumed
  <2>10. ASSUME NEW l \in log' PROVE l.intact /\ l.previous = Audit!Preceding(l)'
    <3>1. PICK before : before = {m \in log' : m.writer = l.writer /\ m.event < l.event}
      OBVIOUS
    <3>2. Audit!Preceding(l)' = IF before = {} THEN 0 ELSE Audit!Newest(before).event
      BY <3>1 DEF Audit!Preceding, Audit!Genesis, Audit!Newest
    <3>3. CASE l = new
      <4>1. before = own
        BY <1>4, <2>1, <2>4, <2>6, <3>1, <3>3
      <4> QED
        BY <1>4, <2>7, <3>2, <3>3, <4>1
    <3>4. CASE l \in log
      <4>1. l.event \in Nat /\ l.event < e
        BY <1>n, <2>4, <3>4
      <4>2. before = {m \in log : m.writer = l.writer /\ m.event < l.event}
        BY <1>4, <2>1, <3>1, <4>1
      <4>3. l.intact /\ l.previous = Audit!Preceding(l)
        BY <2>2, <3>4 DEF Audit!VerifyAuditChain
      <4> QED
        BY <3>2, <4>2, <4>3 DEF Audit!Preceding, Audit!Genesis
    <3> QED
      BY <2>1, <3>3, <3>4
  <2>11. Audit!VerifyAuditChain'
    BY <2>10 DEF Audit!VerifyAuditChain
  <2> QED
    BY <2>5, <2>9, <2>11
<1> QED
  BY <1>8, <1>9, <1>10, <1>11 DEF AuditInv

\* A restart forgets the appends, retention removes rows, and someone else changes them.
LEMMA RestartNext ==
    ASSUME AuditInv, Audit!Restart PROVE AuditInv'
<1>t. Audit!TypeOK /\ EventsKnown /\ TamperingShows /\ ChainHolds
  BY DEF AuditInv
<1>1. /\ process' \in Audit!Writer /\ seeded' = FALSE /\ lastHash' = 0
      /\ auWork' = [r \in Request |-> None]
      /\ UNCHANGED <<writing, log, nextEvent, altered, causes>>
  BY DEF Audit!Restart, Audit!Genesis
<1>2. \A r \in Request : auWork'[r] = None
  BY <1>1
<1>3. Audit!TypeOK'
  BY <1>t, <1>1 DEF Audit!TypeOK, Audit!Writer, Audit!Hash, Audit!Event, Audit!Genesis, Audit!Link,
     Audit!Work, Audit!Cause
<1>4. EventsKnown'
  BY <1>t, <1>1, <1>2 DEF EventsKnown, Audit!TypeOK
<1>5. TamperingShows'
  BY <1>t, <1>1, <1>2 DEF TamperingShows, Torn, Gone, Audit!Event
<1>6. ChainHolds'
  BY <1>t, <1>1, <1>2 DEF ChainHolds, OneAppend, Resumed, Audit!VerifyAuditChain, Audit!Preceding,
     Audit!Newest, Audit!Genesis
<1> QED
  BY <1>3, <1>4, <1>5, <1>6 DEF AuditInv

\* Retention removes rows.
LEMMA PruneNext ==
    ASSUME AuditInv, Audit!Prune PROVE AuditInv'
<1>t. Audit!TypeOK /\ EventsKnown
  BY DEF AuditInv
<1>1. /\ log' \subseteq log /\ causes' = causes \cup {"retention"}
      /\ UNCHANGED <<writing, process, seeded, lastHash, nextEvent, auWork, altered>>
  BY DEF Audit!Prune, Audit!memory
<1>2. Audit!TypeOK'
  <2>1. log' \subseteq Audit!Link /\ causes' \subseteq Audit!Cause
    BY <1>t, <1>1 DEF Audit!TypeOK, Audit!Cause
  <2> QED
    BY <1>t, <1>1, <2>1 DEF Audit!TypeOK, Audit!Writer, Audit!Hash, Audit!Event, Audit!Genesis,
       Audit!Link, Audit!Work, Audit!Cause
<1>3. EventsKnown'
  BY <1>t, <1>1 DEF EventsKnown, Appending
<1>4. TamperingShows' /\ ChainHolds'
  BY <1>1 DEF TamperingShows, ChainHolds
<1> QED
  BY <1>2, <1>3, <1>4 DEF AuditInv

\* Someone else changes the log.
LEMMA TamperNext ==
    ASSUME AuditInv, Audit!Tamper PROVE AuditInv'
<1>t. Audit!TypeOK /\ EventsKnown
  BY DEF AuditInv
<1>1. /\ altered' = TRUE
      /\ UNCHANGED <<writing, process, seeded, lastHash, nextEvent, auWork, causes>>
  BY DEF Audit!Tamper, Audit!memory
<1>2. PICK l \in log :
         \/ /\ l.intact /\ log' = (log \ {l}) \cup {[l EXCEPT !.intact = FALSE]}
         \/ (\E m \in log : m.previous = l.event) /\ log' = log \ {l}
  BY DEF Audit!Tamper
<1>3. PICK new : new = [l EXCEPT !.intact = FALSE]
  OBVIOUS
<1>4. /\ l \in Audit!Link /\ new \in Audit!Link /\ new.event = l.event
      /\ new.previous = l.previous /\ ~new.intact
  BY <1>t, <1>3 DEF Audit!TypeOK, Audit!Link
<1>5. log' \subseteq (log \ {l}) \cup {new}
  BY <1>2, <1>3
<1>6. Audit!TypeOK'
  <2>1. log' \subseteq Audit!Link /\ altered' \in BOOLEAN
    BY <1>t, <1>1, <1>4, <1>5 DEF Audit!TypeOK
  <2> QED
    BY <1>t, <1>1, <2>1 DEF Audit!TypeOK, Audit!Writer, Audit!Hash, Audit!Event, Audit!Genesis,
       Audit!Link, Audit!Work, Audit!Cause
<1>7. EventsKnown'
  <2>1. \A m \in log' : m.event < nextEvent /\ m.previous # m.event
    BY <1>t, <1>4, <1>5 DEF EventsKnown
  <2>2. \A m, k \in log' : m.event = k.event => m = k
    BY <1>t, <1>4, <1>5 DEF EventsKnown
  <2>3. \A r \in Request : auWork[r] # None => \A m \in log' : m.event # auWork[r].event
    BY <1>t, <1>4, <1>5 DEF EventsKnown, Appending
  <2> QED
    BY <1>t, <1>1, <2>1, <2>2, <2>3 DEF EventsKnown, Appending
<1>8. Torn'
  <2>1. CASE log' = (log \ {l}) \cup {[l EXCEPT !.intact = FALSE]}
    BY <1>3, <1>4, <2>1 DEF Torn
  <2>2. CASE (\E m \in log : m.previous = l.event) /\ log' = log \ {l}
    <3>1. PICK m \in log : m.previous = l.event
      BY <2>2
    <3>2. m \in log'
      BY <1>t, <2>2, <3>1 DEF EventsKnown
    <3>3. \A k \in log' : k.event # l.event
      BY <1>t, <2>2 DEF EventsKnown
    <3>4. PICK e \in Audit!Event : e = l.event
      BY <1>4 DEF Audit!Link
    <3>5. Gone(e)'
      BY <1>t, <1>1, <3>1, <3>2, <3>3, <3>4 DEF Gone, EventsKnown, Appending
    <3> QED
      BY <3>5 DEF Torn, Audit!Event
  <2> QED
    BY <1>2, <2>1, <2>2
<1>9. TamperingShows' /\ ChainHolds'
  BY <1>1, <1>8 DEF TamperingShows, ChainHolds
<1> QED
  BY <1>6, <1>7, <1>9 DEF AuditInv

\* Every step of the audit log keeps the invariant.
LEMMA AuditNext == AuditInv /\ [Audit!Next]_auVars => AuditInv'
<1> SUFFICES ASSUME AuditInv, [Audit!Next]_auVars PROVE AuditInv'
  OBVIOUS
<1>1. ASSUME NEW r \in Request,
             Audit!Emit(r) \/ Audit!Seed(r) \/ Audit!HashEvent(r) \/ Audit!StoreEvent(r)
      PROVE  AuditInv'
  BY <1>1, EmitNext, HashNext, StoreNext
<1>2. CASE Audit!Restart \/ Audit!Prune \/ Audit!Tamper
  BY <1>2, RestartNext, PruneNext, TamperNext
<1>3. CASE UNCHANGED auVars
  <2>1. Audit!TypeOK' /\ EventsKnown' /\ TamperingShows'
    BY <1>3 DEF auVars, AuditInv, Audit!TypeOK, Audit!Writer, Audit!Hash, Audit!Event,
       Audit!Genesis, Audit!Link, Audit!Work, Audit!Cause, EventsKnown, Appending,
       TamperingShows, Torn, Gone
  <2>2. ChainHolds'
    BY <1>3 DEF auVars, AuditInv, ChainHolds, OneAppend, Resumed, Audit!VerifyAuditChain,
       Audit!Preceding, Audit!Newest, Audit!Genesis, Audit!Head, Audit!WriterId
  <2> QED
    BY <2>1, <2>2 DEF AuditInv
<1> QED
  BY <1>1, <1>2, <1>3 DEF Audit!Next

-------------------------------------------------------------------------------

(* LinkedProviderCredentials.                                                 *)

Works(r, g) == requests[r] # None /\ requests[r].grant = g
HasRow(w) == w.pc \in {"refresh", "save", "save grant", "save account"} => w.row # None

AllHaveRows == \A r \in Request : requests[r] # None => HasRow(requests[r])

\* What a row promises: an active one has the token that the provider accepts.
Good(row, token) == row # None /\ row.status = "active" /\ token # 0 => row.refresh = token

\* A lock of the row lets one request work on a grant that is there, and one that is gone does
\* not come back.
HoldsLock(w, r, row, holder) ==
    /\ w.pc \notin {"save binding", "save account"}
    /\ IF row = None THEN w.pc \in {"grant", "report"}
       ELSE /\ holder = r
            /\ w.pc \in {"refresh", "save"} => Linked!UsableRow(row)
            /\ w.pc = "save grant" => w.row.status = row.status
RowsLocked ==
    Linked!Locked =>
        \A g \in Grant :
            /\ links[g] = 0 => grants[g] = None /\ g \notin held
            /\ \A r \in Request : Works(r, g) =>
                  g \in held /\ HoldsLock(requests[r], r, grants[g], locks[g])

\* Without it a grant where no two requests overlapped has one request at most.
WorkedAlone ==
    ~Linked!Locked => \A g \in Grant \ lpOverlapped : \A r, q \in Request :
        Works(r, g) /\ Works(q, g) => r = q

\* The row that is stored is good, unless a request is about to replace it, and so is the row
\* that a request is about to store.
Renews(r, g) == Works(r, g) /\ requests[r].pc = "save"
Stores(r, g) == Works(r, g) /\ requests[r].pc \in {"save", "save grant", "save account"}
GoodAt(g) ==
    /\ (\A r \in Request : ~Renews(r, g)) => Good(grants[g], honoured[g])
    /\ \A r \in Request : Stores(r, g) => Good(requests[r].row, honoured[g])
RowsGood == \A g \in Grant \ lost : Linked!Coordinated(g) => GoodAt(g)

LinkedInv ==
    /\ Linked!TypeOK
    /\ AllHaveRows
    /\ RowsLocked
    /\ WorkedAlone
    /\ RowsGood

\* A request goes on with its work.
Steps(r, w) == requests' = [requests EXCEPT ![r] = w]

\* The request that steps is the only one that does.
LEMMA SteppedTo ==
    ASSUME Linked!TypeOK, NEW r \in Request, NEW w, Steps(r, w)
    PROVE  requests'[r] = w /\ \A q \in Request \ {r} : requests'[q] = requests[q]
BY DEF Linked!TypeOK, Steps

\* What a request works on.
LEMMA LinkedWork ==
    ASSUME Linked!TypeOK, NEW r \in Request, requests[r] # None
    PROVE  /\ requests[r] \in Linked!Work /\ requests[r].grant \in Grant
           /\ requests[r].row \in Linked!GrantRow \cup {None}
           /\ requests[r].binding \in Linked!BindingStatus \cup {None}
BY DEF Linked!TypeOK, Linked!Work

\* A request that is done works no more.
LEMMA DoneSteps ==
    ASSUME Linked!TypeOK, NEW r \in Request, Linked!Done(r)
    PROVE  \E w : Steps(r, w) /\ w = None
BY DEF Linked!Done, Steps

\* At first nobody has linked an account.
LEMMA LinkedInit == Linked!Init => LinkedInv
<1> SUFFICES ASSUME Linked!Init PROVE LinkedInv
  OBVIOUS
<1>1. /\ \A r \in Request : requests[r] = None
      /\ \A g \in Grant : grants[g] = None /\ links[g] = 0
      /\ held = {}
  BY DEF Linked!Init
<1>2. Linked!TypeOK
  <2>1. 0 \in 0 .. MaxToken /\ 0 \in 0 .. MaxLinks
    BY AccountsAssumption, LinkedAssumption
  <2>2. <<deployment, policy>> \in Deployments
    <3>1. PICK c \in Deployments : deployment = c[1] /\ policy = c[2]
      BY DEF Linked!Init
    <3>2. c = <<c[1], c[2]>>
      BY AccountsAssumption, LinkedAssumption
    <3> QED
      BY <3>1, <3>2
  <2>3. /\ grants \in [Grant -> Linked!GrantRow \cup {None}]
        /\ bindings \in [Grant -> Linked!BindingStatus \cup {None}]
        /\ locks \in [Grant -> Request \cup {None}]
        /\ requests \in [Request -> Linked!Work \cup {None}]
    BY DEF Linked!Init
  <2>4. /\ honoured \in [Grant -> 0 .. MaxToken] /\ issued \in [Grant -> 0 .. MaxToken]
        /\ links \in [Grant -> 0 .. MaxLinks]
    BY <2>1 DEF Linked!Init
  <2>5. held = {} /\ lost = {} /\ lpOverlapped = {}
    BY DEF Linked!Init
  <2> QED
    BY <2>2, <2>3, <2>4, <2>5 DEF Linked!TypeOK
<1>3. RowsLocked /\ WorkedAlone
  BY <1>1 DEF RowsLocked, WorkedAlone, Works
<1>4. RowsGood
  BY <1>1 DEF RowsGood, GoodAt, Stores, Works, Good
<1> QED
  BY <1>1, <1>2, <1>3, <1>4 DEF LinkedInv, AllHaveRows

\* What the operators on rows yield.
LEMMA RowsOfGrants ==
    ASSUME NEW old \in Linked!GrantRow \cup {None}, NEW row \in Linked!GrantRow
    PROVE  /\ Linked!Upserted(old, row) \in Linked!GrantRow
           /\ Linked!Upserted(old, row).status = row.status
           /\ Linked!Upserted(old, row).refresh
                 = IF row.refresh = 0 /\ old # None THEN old.refresh ELSE row.refresh
           /\ \A token \in 0 .. MaxToken :
                 /\ Linked!Renewed(row, token) \in Linked!GrantRow
                 /\ Linked!Renewed(row, token).refresh = token
           /\ \A recovery \in {"reconnect", "configuration", "retry"} :
                 /\ Linked!Failed(row, recovery) \in Linked!GrantRow
                 /\ Linked!Failed(row, recovery).status # "active"
           /\ \A code : /\ Linked!NextGrant(row, code) \in Linked!GrantRow
                        /\ Linked!NextGrant(row, code).refresh = row.refresh
                        /\ Linked!NextGrant(row, code).status \in {row.status, "revoked"}
           /\ \A status : /\ Linked!AccountStatus(row, status) \in Linked!GrantRow
                          /\ Linked!AccountStatus(row, status).refresh = row.refresh
                          /\ Linked!AccountStatus(row, status).status
                                \in {row.status, "revoked", "error"}
BY DEF Linked!GrantRow, Linked!Upserted, Linked!Renewed, Linked!Failed, Linked!NextGrant,
       Linked!AccountStatus

\* A good row is good when it is stored.
LEMMA SavedIsGood ==
    ASSUME Linked!TypeOK, NEW g \in Grant, NEW row \in Linked!GrantRow
    PROVE  /\ Linked!Saved(g, row) \in [Grant -> Linked!GrantRow \cup {None}]
           /\ \A h \in Grant \ {g} : Linked!Saved(g, row)[h] = grants[h]
           /\ Linked!Saved(g, row)[g] = None => grants[g] = None
           /\ Linked!Saved(g, row)[g] # None => Linked!Saved(g, row)[g].status = row.status
           /\ \A token \in Nat : Good(row, token) => Good(Linked!Saved(g, row)[g], token)
<1>1. grants \in [Grant -> Linked!GrantRow \cup {None}] /\ row # None
  BY AccountsAssumption, LinkedAssumption DEF Linked!TypeOK
<1>2. PICK new : new = Linked!Upserted(grants[g], row)
  OBVIOUS
<1>3. /\ new \in Linked!GrantRow /\ new.status = row.status /\ new # None
      /\ new.refresh = IF row.refresh = 0 /\ grants[g] # None THEN grants[g].refresh ELSE row.refresh
  BY <1>1, <1>2, RowsOfGrants, AccountsAssumption, LinkedAssumption
<1>4. \A token \in Nat : Good(row, token) => Good(new, token)
  BY <1>1, <1>3 DEF Good
<1>5. PICK saved : saved = Linked!Saved(g, row)
  OBVIOUS
<1>6. \/ saved = [grants EXCEPT ![g] = new]
      \/ saved = grants /\ grants[g] = None
      \/ saved = [grants EXCEPT ![g] = row]
  BY <1>2, <1>5 DEF Linked!Saved
<1>7. /\ saved \in [Grant -> Linked!GrantRow \cup {None}]
      /\ \A h \in Grant \ {g} : saved[h] = grants[h]
      /\ saved[g] \in {new, row} \/ (saved[g] = None /\ grants[g] = None)
  BY <1>1, <1>3, <1>6
<1>8. \A token \in Nat : Good(row, token) => Good(saved[g], token)
  BY <1>4, <1>7 DEF Good
<1> QED
  BY <1>1, <1>3, <1>5, <1>7, <1>8

\* Every step keeps the types, and a request that works with a row has one.
LEMMA LinkedTypesNext ==
    ASSUME Linked!TypeOK, AllHaveRows, [Linked!Next]_lpVars
    PROVE  Linked!TypeOK' /\ AllHaveRows'
<1> DEFINE Goal == Linked!TypeOK' /\ AllHaveRows'
<1>t. /\ <<deployment, policy>> \in Deployments
      /\ grants \in [Grant -> Linked!GrantRow \cup {None}]
      /\ bindings \in [Grant -> Linked!BindingStatus \cup {None}]
      /\ held \subseteq Grant
      /\ locks \in [Grant -> Request \cup {None}]
      /\ requests \in [Request -> Linked!Work \cup {None}]
      /\ honoured \in [Grant -> 0 .. MaxToken] /\ issued \in [Grant -> 0 .. MaxToken]
      /\ links \in [Grant -> 0 .. MaxLinks]
      /\ lost \subseteq Grant /\ lpOverlapped \subseteq Grant
  BY DEF Linked!TypeOK
<1>m. MaxToken \in Nat /\ MaxLinks \in Nat /\ 0 \in 0 .. MaxToken
  BY AccountsAssumption, LinkedAssumption
\* The parts of a state that a step changes.
<1>g. ASSUME UNCHANGED <<deployment, policy>>,
             grants' \in [Grant -> Linked!GrantRow \cup {None}],
             bindings' \in [Grant -> Linked!BindingStatus \cup {None}], held' \subseteq Grant,
             locks' \in [Grant -> Request \cup {None}],
             \/ UNCHANGED requests
             \/ \E r \in Request : \E w :
                    Steps(r, w) /\ (w = None \/ (w \in Linked!Work /\ HasRow(w))),
             honoured' \in [Grant -> 0 .. MaxToken], issued' \in [Grant -> 0 .. MaxToken],
             links' \in [Grant -> 0 .. MaxLinks], lost' \subseteq Grant,
             lpOverlapped' \subseteq Grant
      PROVE  Goal
  <2>1. CASE UNCHANGED requests
    BY <1>t, <1>g, <2>1 DEF Linked!TypeOK, AllHaveRows, Linked!GrantRow, Linked!BindingStatus,
       Linked!Work, Linked!Code, HasRow
  <2>2. CASE \E r \in Request : \E w :
                    Steps(r, w) /\ (w = None \/ (w \in Linked!Work /\ HasRow(w)))
    <3>1. PICK r \in Request : \E w :
                    Steps(r, w) /\ (w = None \/ (w \in Linked!Work /\ HasRow(w)))
      BY <2>2
    <3>2. PICK w : Steps(r, w) /\ (w = None \/ (w \in Linked!Work /\ HasRow(w)))
      BY <3>1
    <3>3. requests' \in [Request -> Linked!Work \cup {None}]
      BY <1>t, <3>2 DEF Steps
    <3>4. requests'[r] = w /\ \A q \in Request \ {r} : requests'[q] = requests[q]
      BY <3>2, SteppedTo
    <3>5. AllHaveRows'
      BY <3>2, <3>4 DEF AllHaveRows, HasRow
    <3> QED
      BY <1>t, <1>g, <3>3, <3>5 DEF Linked!TypeOK, Linked!GrantRow, Linked!BindingStatus,
         Linked!Work, Linked!Code
  <2> QED
    BY <1>g, <2>1, <2>2
<1>d. ASSUME NEW r \in Request, Linked!Done(r)
      PROVE  /\ locks' \in [Grant -> Request \cup {None}]
             /\ \E q \in Request : \E w : Steps(q, w) /\ w = None
  BY <1>d, <1>t, DoneSteps DEF Linked!Done, Linked!Released
<1>o. ASSUME NEW r \in Request, requests[r] # None,
             NEW pc \in {"refresh", "save", "save grant", "save binding", "save account"},
             NEW row \in Linked!GrantRow \cup {None}, pc # "save binding" => row # None,
             NEW binding \in Linked!BindingStatus \cup {None},
             Linked!Goes(r, pc, row, binding)
      PROVE  \E q \in Request : \E w : Steps(q, w) /\ w \in Linked!Work /\ HasRow(w)
  <2>1. PICK w : w = [requests[r] EXCEPT !.pc = pc, !.row = row, !.binding = binding]
    OBVIOUS
  <2>2. requests[r] \in Linked!Work
    BY <1>o, LinkedWork
  <2>3. w \in Linked!Work /\ w.pc = pc /\ w.row = row
    BY <2>1, <2>2 DEF Linked!Work
  <2>4. Steps(r, w)
    BY <1>o, <2>1 DEF Linked!Goes, Steps
  <2> QED
    BY <1>o, <2>3, <2>4 DEF HasRow
<1>w. ASSUME NEW r \in Request, requests[r] # None
      PROVE  /\ requests[r].grant \in Grant /\ HasRow(requests[r])
             /\ requests[r].row \in Linked!GrantRow \cup {None}
             /\ requests[r].binding \in Linked!BindingStatus \cup {None}
  BY <1>w, LinkedWork DEF AllHaveRows
<1>1. ASSUME NEW g \in Grant, Linked!Link(g) PROVE Goal
  <2>1. /\ links' \in [Grant -> 0 .. MaxLinks]
        /\ UNCHANGED <<deployment, policy, held, locks, requests>>
        /\ bindings' \in [Grant -> Linked!BindingStatus \cup {None}]
        /\ lost' \subseteq Grant /\ lpOverlapped' \subseteq Grant
    BY <1>1, <1>t, <1>m DEF Linked!Link, Linked!config, Linked!BindingStatus
  <2>2. /\ grants' \in [Grant -> Linked!GrantRow \cup {None}]
        /\ honoured' \in [Grant -> 0 .. MaxToken] /\ issued' \in [Grant -> 0 .. MaxToken]
    <3>1. CASE /\ issued[g] < MaxToken
               /\ issued' = [issued EXCEPT ![g] = @ + 1]
               /\ honoured' = [honoured EXCEPT ![g] = issued'[g]]
               /\ grants' = [grants EXCEPT ![g] = Linked!Upserted(@,
                     [status |-> "active", refresh |-> issued'[g], fresh |-> TRUE])]
      <4>1. PICK token : token = issued'[g]
        OBVIOUS
      <4>2. token \in 0 .. MaxToken
        BY <1>t, <1>m, <3>1, <4>1
      <4>3. PICK row : row = [status |-> "active", refresh |-> token, fresh |-> TRUE]
        OBVIOUS
      <4>4. row \in Linked!GrantRow
        BY <4>2, <4>3 DEF Linked!GrantRow
      <4>5. PICK new : new = Linked!Upserted(grants[g], row)
        OBVIOUS
      <4>6. new \in Linked!GrantRow
        BY <1>t, <4>4, <4>5, RowsOfGrants
      <4>7. grants' = [grants EXCEPT ![g] = new]
        BY <3>1, <4>1, <4>3, <4>5
      <4> QED
        BY <1>t, <3>1, <4>1, <4>2, <4>6, <4>7
    <3>2. CASE /\ grants' = [grants EXCEPT ![g] = Linked!Upserted(@,
                     [status |-> "active", refresh |-> 0, fresh |-> TRUE])]
               /\ UNCHANGED Linked!provider
      <4>1. PICK row : row = [status |-> "active", refresh |-> 0, fresh |-> TRUE]
        OBVIOUS
      <4>2. row \in Linked!GrantRow
        BY <1>m, <4>1 DEF Linked!GrantRow
      <4>3. PICK new : new = Linked!Upserted(grants[g], row)
        OBVIOUS
      <4>4. new \in Linked!GrantRow
        BY <1>t, <4>2, <4>3, RowsOfGrants
      <4>5. grants' = [grants EXCEPT ![g] = new]
        BY <3>2, <4>1, <4>3
      <4> QED
        BY <1>t, <3>2, <4>4, <4>5 DEF Linked!provider
    <3> QED
      BY <1>1, <3>1, <3>2 DEF Linked!Link
  <2> QED
    BY <1>g, <1>t, <2>1, <2>2
<1>2. ASSUME NEW g \in Grant,
             \/ Linked!Disconnect(g) \/ Linked!Withdraw(g) \/ Linked!LeaseExpires(g)
             \/ Linked!ResolveCredential(g)
      PROVE  Goal
  <2>1. /\ UNCHANGED <<deployment, policy, locks, requests, issued, links, lost, lpOverlapped>>
        /\ held' \subseteq Grant
        /\ bindings' \in [Grant -> Linked!BindingStatus \cup {None}]
        /\ honoured' \in [Grant -> 0 .. MaxToken]
    BY <1>2, <1>t, <1>m DEF Linked!Disconnect, Linked!Withdraw, Linked!LeaseExpires,
       Linked!ResolveCredential, Linked!config, Linked!provider, Linked!histories
  <2>2. grants' \in [Grant -> Linked!GrantRow \cup {None}]
    <3>1. CASE Linked!LeaseExpires(g)
      <4>1. PICK row : row = [grants[g] EXCEPT !.fresh = FALSE]
        OBVIOUS
      <4>2. row \in Linked!GrantRow
        BY <1>t, <3>1, <4>1 DEF Linked!LeaseExpires, Linked!GrantRow
      <4>3. grants' = [grants EXCEPT ![g] = row]
        BY <1>t, <3>1, <4>1 DEF Linked!LeaseExpires
      <4> QED
        BY <1>t, <4>2, <4>3
    <3>2. CASE Linked!Disconnect(g)
      BY <1>t, <3>2 DEF Linked!Disconnect
    <3>3. CASE Linked!Withdraw(g) \/ Linked!ResolveCredential(g)
      BY <1>t, <3>3 DEF Linked!Withdraw, Linked!ResolveCredential
    <3> QED
      BY <1>2, <3>1, <3>2, <3>3
  <2> QED
    BY <1>g, <1>t, <2>1, <2>2
<1>3. ASSUME NEW r \in Request, NEW g \in Grant, NEW op \in {"token", "report"},
             NEW pc \in {"grant", "report"}, NEW code \in Linked!Code \cup {None},
             Linked!Begin(r, g, op, pc, code, None)
      PROVE  Goal
  <2>1. PICK w : w = [pc |-> pc, op |-> op, grant |-> g, code |-> code, row |-> None,
                      binding |-> None]
    OBVIOUS
  <2>2. Steps(r, w) /\ w \in Linked!Work /\ HasRow(w)
    BY <1>3, <2>1 DEF Linked!Begin, Steps, Linked!Work, HasRow
  <2>3. /\ UNCHANGED <<deployment, policy, grants, bindings, held, honoured, issued, links, lost>>
        /\ locks' \in [Grant -> Request \cup {None}] /\ lpOverlapped' \subseteq Grant
    BY <1>3, <1>t DEF Linked!Begin, Linked!Taken, Linked!config, Linked!provider
  <2> QED
    BY <1>g, <1>t, <2>2, <2>3
<1>4. ASSUME NEW r \in Request, NEW g \in Grant,
             Linked!GetAccessToken(r, g) \/ \E code \in Linked!Code : Linked!ReportFailure(r, g, code)
      PROVE  Goal
  BY <1>3, <1>4 DEF Linked!GetAccessToken, Linked!ReportFailure
\* The steps of a request that leave the provider and the configuration alone.
<1>s. ASSUME NEW r \in Request, requests[r] # None,
             UNCHANGED <<deployment, policy, held, honoured, issued, links, lpOverlapped>>,
             lost' \subseteq Grant,
             grants' \in [Grant -> Linked!GrantRow \cup {None}],
             bindings' \in [Grant -> Linked!BindingStatus \cup {None}],
             \/ Linked!Done(r)
             \/ /\ UNCHANGED locks
                /\ \E pc \in {"refresh", "save", "save grant", "save binding", "save account"} :
                   \E row \in Linked!GrantRow \cup {None} :
                   \E binding \in Linked!BindingStatus \cup {None} :
                      (pc # "save binding" => row # None) /\ Linked!Goes(r, pc, row, binding)
      PROVE  Goal
  <2>1. /\ locks' \in [Grant -> Request \cup {None}]
        /\ \E q \in Request : \E w :
              Steps(q, w) /\ (w = None \/ (w \in Linked!Work /\ HasRow(w)))
    <3>1. CASE Linked!Done(r)
      BY <3>1, <1>d
    <3>2. CASE /\ UNCHANGED locks
               /\ \E pc \in {"refresh", "save", "save grant", "save binding", "save account"} :
                  \E row \in Linked!GrantRow \cup {None} :
                  \E binding \in Linked!BindingStatus \cup {None} :
                     (pc # "save binding" => row # None) /\ Linked!Goes(r, pc, row, binding)
      BY <1>s, <1>t, <1>o, <3>2
    <3> QED
      BY <1>s, <3>1, <3>2
  <2> QED
    BY <1>g, <1>s, <1>t, <2>1
<1>b. ASSUME NEW r \in Request, requests[r] # None
      PROVE  Linked!Binding(requests[r].grant) \in Linked!BindingStatus \cup {None}
  BY <1>w, <1>b, <1>t DEF Linked!Binding, Linked!AccountBinding, Linked!BindingStatus
<1>5. ASSUME NEW r \in Request,
             \/ Linked!LoadGrant(r) \/ Linked!ReadForReport(r) \/ Linked!ReadAccount(r)
             \/ Linked!Crash(r)
      PROVE  Goal
  <2>1. /\ requests[r] # None /\ lost' \subseteq Grant
        /\ UNCHANGED <<deployment, policy, grants, bindings, held, honoured, issued, links,
                       lpOverlapped>>
    BY <1>5, <1>t, <1>w DEF Linked!LoadGrant, Linked!ReadForReport, Linked!ReadAccount,
       Linked!Crash, Linked!At, Linked!config, Linked!provider, Linked!histories
  <2>2. PICK row : row = grants[requests[r].grant]
    OBVIOUS
  <2>3. row \in Linked!GrantRow \cup {None}
    BY <1>t, <1>w, <2>1, <2>2
  <2>4. \/ Linked!Done(r)
        \/ /\ UNCHANGED locks
           /\ row # None
           /\ \/ Linked!Goes(r, "refresh", row, None)
              \/ Linked!Goes(r, "save grant", row, Linked!Binding(requests[r].grant))
              \/ Linked!Goes(r, "save account", row, requests[r].binding)
    BY <1>5, <2>2 DEF Linked!LoadGrant, Linked!ReadForReport, Linked!ReadAccount, Linked!Crash,
       Linked!UsableRow
  <2>5. PICK found : found = Linked!Binding(requests[r].grant)
    OBVIOUS
  <2>6. found \in Linked!BindingStatus \cup {None}
    BY <1>b, <2>1, <2>5
  <2> QED
    BY <1>s, <1>t, <1>w, <2>1, <2>3, <2>4, <2>5, <2>6
<1>6. ASSUME NEW r \in Request, Linked!Refresh(r) PROVE Goal
  <2>1. /\ requests[r] # None /\ requests[r].pc = "refresh"
        /\ UNCHANGED <<deployment, policy, grants, bindings, held, locks, links, lost, lpOverlapped>>
    BY <1>6 DEF Linked!Refresh, Linked!At, Linked!config, Linked!histories
  <2>2. PICK g \in Grant, row \in Linked!GrantRow : g = requests[r].grant /\ row = requests[r].row
    BY <1>w, <2>1 DEF HasRow
  <2>3. /\ honoured' \in [Grant -> 0 .. MaxToken] /\ issued' \in [Grant -> 0 .. MaxToken]
        /\ \E new \in Linked!GrantRow : Linked!Goes(r, "save", new, None)
    <3>1. CASE Linked!RefreshFails(r) \/ Linked!RefreshRefused(r)
      BY <1>t, <2>2, <3>1, RowsOfGrants DEF Linked!RefreshFails, Linked!RefreshRefused,
         Linked!provider
    <3>2. CASE Linked!RefreshHonoured(r)
      <4>1. honoured' \in [Grant -> 0 .. MaxToken] /\ issued' \in [Grant -> 0 .. MaxToken]
        BY <1>t, <1>m, <2>2, <3>2 DEF Linked!RefreshHonoured, Linked!provider
      <4>2. PICK token \in 0 .. MaxToken : token = honoured'[g]
        BY <4>1
      <4>3. \/ Linked!Goes(r, "save", Linked!Renewed(row, token), None)
            \/ \E recovery \in {"retry", "reconnect"} :
                  Linked!Goes(r, "save", Linked!Failed(row, recovery), None)
        BY <2>2, <3>2, <4>2 DEF Linked!RefreshHonoured
      <4> QED
        BY <2>2, <4>1, <4>2, <4>3, RowsOfGrants
    <3> QED
      BY <1>6, <3>1, <3>2 DEF Linked!Refresh
  <2>4. PICK new \in Linked!GrantRow : Linked!Goes(r, "save", new, None)
    BY <2>3
  <2>5. \E q \in Request : \E w : Steps(q, w) /\ w \in Linked!Work /\ HasRow(w)
    BY <1>o, <2>1, <2>4, AccountsAssumption, LinkedAssumption
  <2> QED
    BY <1>g, <1>t, <2>1, <2>3, <2>5
<1>7. ASSUME NEW r \in Request,
             \/ Linked!SaveRefreshed(r) \/ Linked!SaveReportedGrant(r) \/ Linked!SaveAccount(r)
             \/ Linked!CommitReport(r) \/ Linked!SaveReportedBinding(r)
      PROVE  Goal
  <2>1. /\ requests[r] # None
        /\ UNCHANGED <<deployment, policy, held, honoured, issued, links, lost, lpOverlapped>>
    BY <1>7 DEF Linked!SaveRefreshed, Linked!SaveReportedGrant, Linked!SaveAccount,
       Linked!CommitReport, Linked!SaveReportedBinding, Linked!At, Linked!config,
       Linked!provider, Linked!histories
  <2>2. PICK g, row, code, binding :
            /\ g = requests[r].grant /\ row = requests[r].row /\ code = requests[r].code
            /\ binding = requests[r].binding
    OBVIOUS
  <2>3. g \in Grant /\ HasRow(requests[r]) /\ binding \in Linked!BindingStatus \cup {None}
        /\ row \in Linked!GrantRow \cup {None}
    BY <1>w, <2>1, <2>2
  <2>4. bindings' \in [Grant -> Linked!BindingStatus \cup {None}]
    <3>1. Linked!NextBinding(binding, code) \in Linked!BindingStatus \cup {None}
      BY <2>3 DEF Linked!NextBinding, Linked!BindingStatus
    <3>2. \/ UNCHANGED bindings
          \/ bindings' = [bindings EXCEPT ![g] = Linked!NextBinding(binding, code)]
      BY <1>7, <2>2 DEF Linked!SaveRefreshed, Linked!SaveReportedGrant, Linked!SaveAccount,
         Linked!CommitReport, Linked!SaveReportedBinding
    <3> QED
      BY <1>t, <2>3, <3>1, <3>2
  <2>5. grants' \in [Grant -> Linked!GrantRow \cup {None}]
    <3>1. CASE Linked!SaveReportedBinding(r)
      BY <1>t, <3>1 DEF Linked!SaveReportedBinding
    <3>2. CASE ~Linked!SaveReportedBinding(r)
      <4>1. row \in Linked!GrantRow
        BY <1>7, <2>2, <2>3, <3>2 DEF HasRow, Linked!SaveRefreshed, Linked!SaveReportedGrant,
           Linked!SaveAccount, Linked!CommitReport, Linked!At
      <4>2. PICK new \in Linked!GrantRow : \/ grants' = Linked!Saved(g, new)
                                          \/ grants' = [grants EXCEPT ![g] = new]
        <5>1. \/ grants' = Linked!Saved(g, row)
              \/ grants' = Linked!Saved(g, Linked!NextGrant(row, code))
              \/ grants' = [grants EXCEPT ![g] =
                               Linked!AccountStatus(row, Linked!NextBinding(binding, code))]
          BY <1>7, <2>2, <3>2 DEF Linked!SaveRefreshed, Linked!SaveReportedGrant,
             Linked!SaveAccount, Linked!CommitReport
        <5> QED
          BY <1>t, <2>3, <4>1, <5>1, RowsOfGrants
      <4>3. CASE grants' = Linked!Saved(g, new)
        BY <2>3, <4>3, SavedIsGood
      <4>4. CASE grants' = [grants EXCEPT ![g] = new]
        BY <1>t, <2>3, <4>4
      <4> QED
        BY <4>2, <4>3, <4>4
    <3> QED
      BY <3>1, <3>2
  <2>6. Linked!Done(r) \/ (UNCHANGED locks /\ Linked!Goes(r, "save binding", None, binding))
    BY <1>7, <2>2 DEF Linked!SaveRefreshed, Linked!SaveReportedGrant,
       Linked!SaveAccount, Linked!CommitReport, Linked!SaveReportedBinding
  <2> QED
    BY <1>s, <1>t, <2>1, <2>3, <2>4, <2>5, <2>6
<1>8. ASSUME UNCHANGED lpVars PROVE Goal
  BY <1>8, <1>g, <1>t DEF lpVars
<1> QED
  BY <1>1, <1>2, <1>4, <1>5, <1>6, <1>7, <1>8 DEF Linked!Next

\* ---- What a step of a request makes of its grant.
Before(r, g) ==
    LET row == grants[g]
        token == honoured[g]
        w == requests[r] IN
    /\ Linked!Locked => HoldsLock(w, r, row, locks[g])
    /\ g \notin lost /\ Linked!Coordinated(g) =>
          /\ w.pc # "save" => Good(row, token)
          /\ w.pc \in {"save", "save grant", "save account"} => Good(w.row, token)

Onward(r, g, w) ==
    /\ Steps(r, w) /\ (w = None \/ w.grant = g)
    /\ UNCHANGED <<deployment, policy, held, links, lpOverlapped>> /\ lost \subseteq lost'
    /\ \A h \in Grant \ {g} : grants'[h] = grants[h] /\ honoured'[h] = honoured[h]
    /\ UNCHANGED locks \/ (w = None /\ locks' = Linked!Released(r))
    /\ Linked!Locked => /\ grants'[g] = None <=> grants[g] = None
                        /\ w # None => HoldsLock(w, r, grants'[g], locks[g])
                        /\ Linked!UsableRow(grants'[g]) => Linked!UsableRow(grants[g])
    /\ g \notin lost' /\ Linked!Coordinated(g) =>
          /\ w = None \/ w.pc # "save" => Good(grants'[g], honoured'[g])
          /\ w # None /\ w.pc \in {"save", "save grant", "save account"} =>
                Good(w.row, honoured'[g])

\* The invariant gives a request what it needs of its grant.
LEMMA LinkedBefore ==
    ASSUME LinkedInv, NEW r \in Request, NEW g \in Grant, Works(r, g)
    PROVE  Before(r, g)
<1>1. Linked!Locked => HoldsLock(requests[r], r, grants[g], locks[g])
  BY DEF LinkedInv, RowsLocked
<1>2. ASSUME g \notin lost, Linked!Coordinated(g)
      PROVE  /\ requests[r].pc # "save" => Good(grants[g], honoured[g])
             /\ requests[r].pc \in {"save", "save grant", "save account"} =>
                   Good(requests[r].row, honoured[g])
  <2>1. GoodAt(g)
    BY <1>2 DEF LinkedInv, RowsGood
  <2>2. ASSUME NEW q \in Request, q # r, Renews(q, g) PROVE FALSE
    <3>1. CASE Linked!Locked
      BY <1>1, <2>2, <3>1 DEF LinkedInv, RowsLocked, Renews, HoldsLock
    <3>2. CASE ~Linked!Locked
      BY <1>2, <2>2, <3>2 DEF LinkedInv, WorkedAlone, Renews, Linked!Coordinated
    <3> QED
      BY <3>1, <3>2
  <2> QED
    BY <2>1, <2>2 DEF GoodAt, Renews, Stores
<1> QED
  BY <1>1, <1>2 DEF Before

\* A step that a request takes onward keeps the invariant of all grants.
LEMMA OnwardKeeps ==
    ASSUME LinkedInv, NEW r \in Request, NEW g \in Grant, Works(r, g), NEW w, Onward(r, g, w)
    PROVE  RowsLocked' /\ WorkedAlone' /\ RowsGood'
<1>1. /\ requests'[r] = w /\ \A q \in Request \ {r} : requests'[q] = requests[q]
      /\ w = None \/ w.grant = g
      /\ UNCHANGED <<deployment, held, links, lpOverlapped>> /\ lost \subseteq lost'
      /\ \A h \in Grant \ {g} : grants'[h] = grants[h] /\ honoured'[h] = honoured[h]
  BY SteppedTo DEF Onward, LinkedInv
<1>2. /\ Linked!Locked' <=> Linked!Locked
      /\ \A h : Linked!Coordinated(h)' <=> Linked!Coordinated(h)
  BY <1>1 DEF Linked!Locked, Linked!Coordinated
<1>3. \A q \in Request : \A h \in Grant : Works(q, h)' => Works(q, h)
  BY <1>1 DEF Works
<1>4. RowsLocked'
  <2>1. SUFFICES ASSUME Linked!Locked PROVE RowsLocked'
    BY <1>2 DEF RowsLocked
  <2>2. /\ grants'[g] = None <=> grants[g] = None
        /\ w # None => HoldsLock(w, r, grants'[g], locks[g])
        /\ UNCHANGED locks \/ (w = None /\ locks' = Linked!Released(r))
    BY <2>1 DEF Onward
  <2>3. \A h \in Grant :
            /\ links[h] = 0 => grants[h] = None /\ h \notin held
            /\ \A q \in Request : Works(q, h) =>
                  h \in held /\ HoldsLock(requests[q], q, grants[h], locks[h])
    BY <2>1 DEF LinkedInv, RowsLocked
  <2>4. ASSUME NEW h \in Grant, NEW q \in Request, Works(q, h)'
        PROVE  h \in held /\ HoldsLock(requests'[q], q, grants'[h], locks'[h])
    <3>1. h \in held /\ HoldsLock(requests[q], q, grants[h], locks[h])
      BY <1>3, <2>3, <2>4
    <3>2. CASE q = r
      BY <1>1, <2>2, <2>4, <3>1, <3>2 DEF Works
    <3>3. CASE q # r /\ h # g
      <4>1. grants[h] # None => locks[h] = q
        BY <3>1 DEF HoldsLock
      <4>2. grants[h] # None => locks'[h] = q
        BY <2>2, <3>3, <4>1 DEF Linked!Released
      <4> QED
        BY <1>1, <3>1, <3>3, <4>1, <4>2 DEF HoldsLock
    <3>4. CASE q # r /\ h = g
      <4>1. grants[g] = None
        BY <2>3, <3>1, <3>4 DEF HoldsLock
      <4> QED
        BY <1>1, <2>2, <3>1, <3>4, <4>1 DEF HoldsLock
    <3> QED
      BY <3>2, <3>3, <3>4
  <2> QED
    BY <1>1, <2>2, <2>3, <2>4 DEF RowsLocked
<1>5. WorkedAlone'
  <2>1. WorkedAlone
    BY DEF LinkedInv
  <2> QED
    BY <1>1, <1>2, <1>3, <2>1 DEF WorkedAlone
<1>6. ASSUME NEW h \in Grant \ lost', Linked!Coordinated(h)
      PROVE  GoodAt(h)'
  <2>1. h \notin lost /\ GoodAt(h)
    BY <1>1, <1>6 DEF LinkedInv, RowsGood
  <2>2. CASE h # g
    <3>1. \A q \in Request : /\ Renews(q, h)' <=> Renews(q, h)
                             /\ Stores(q, h)' <=> (Stores(q, h) /\ q # r)
      BY <1>1, <2>2 DEF Works, Renews, Stores
    <3>2. grants'[h] = grants[h] /\ honoured'[h] = honoured[h]
      BY <1>1, <2>2
    <3> QED
      BY <1>1, <2>1, <3>1, <3>2 DEF GoodAt
  <2>3. CASE h = g
    <3>1. /\ w = None \/ w.pc # "save" => Good(grants'[g], honoured'[g])
          /\ w # None /\ w.pc \in {"save", "save grant", "save account"} =>
                Good(w.row, honoured'[g])
      BY <1>6, <2>3 DEF Onward
    <3>2. ASSUME NEW q \in Request, q # r, Stores(q, g) PROVE FALSE
      <4>1. CASE Linked!Locked
        BY <3>2, <4>1 DEF LinkedInv, RowsLocked, Stores, HoldsLock
      <4>2. CASE ~Linked!Locked
        BY <1>6, <2>3, <3>2, <4>2 DEF LinkedInv, WorkedAlone, Stores, Linked!Coordinated
      <4> QED
        BY <4>1, <4>2
    <3>3. \A q \in Request : Stores(q, g)' => q = r
      BY <1>1, <3>2 DEF Stores, Works
    <3>4. (\A q \in Request : ~Renews(q, g)') => w = None \/ w.pc # "save"
      BY <1>1 DEF Renews, Works
    <3>5. \A q \in Request : Stores(q, g)' => Good(requests'[q].row, honoured'[g])
      BY <1>1, <3>1, <3>3 DEF Stores, Works
    <3> QED
      BY <2>3, <3>1, <3>4, <3>5 DEF GoodAt
  <2> QED
    BY <2>2, <2>3
<1> QED
  BY <1>2, <1>4, <1>5, <1>6 DEF RowsGood

\* Every step of a request leads onward.
LEMMA RequestOnward ==
    ASSUME Linked!TypeOK, AllHaveRows, NEW r \in Request, NEW g \in Grant, Works(r, g),
           Before(r, g),
           \/ Linked!LoadGrant(r) \/ Linked!Refresh(r) \/ Linked!SaveRefreshed(r)
           \/ Linked!ReadForReport(r) \/ Linked!SaveReportedGrant(r)
           \/ Linked!SaveReportedBinding(r) \/ Linked!ReadAccount(r) \/ Linked!SaveAccount(r)
           \/ Linked!CommitReport(r) \/ Linked!Crash(r)
    PROVE  \E w : Onward(r, g, w)
<1> DEFINE Goal == \E w : Onward(r, g, w)
           q == requests[r]
<1>t. /\ q # None /\ q.grant = g /\ q \in Linked!Work /\ HasRow(q)
      /\ q.row \in Linked!GrantRow \cup {None}
      /\ q.binding \in Linked!BindingStatus \cup {None}
      /\ grants \in [Grant -> Linked!GrantRow \cup {None}]
      /\ honoured[g] \in Nat
  <2>1. honoured[g] \in 0 .. MaxToken
    BY DEF Linked!TypeOK
  <2> QED
    BY <2>1, LinkedWork, AccountsAssumption, LinkedAssumption DEF AllHaveRows, Works, Linked!TypeOK
<1>l. Linked!Locked => HoldsLock(q, r, grants[g], locks[g])
  BY DEF Before
<1>h. ASSUME g \notin lost, Linked!Coordinated(g)
      PROVE  /\ q.pc # "save" => Good(grants[g], honoured[g])
             /\ q.pc \in {"save", "save grant", "save account"} => Good(q.row, honoured[g])
  BY <1>h DEF Before
\* A request that is over has only the row to answer for.
<1>d. ASSUME Linked!Done(r), UNCHANGED <<deployment, policy, held, links, lpOverlapped, honoured>>,
             lost \subseteq lost',
             \A h \in Grant \ {g} : grants'[h] = grants[h],
             Linked!Locked => /\ grants'[g] = None <=> grants[g] = None
                              /\ Linked!UsableRow(grants'[g]) => Linked!UsableRow(grants[g]),
             g \notin lost' /\ Linked!Coordinated(g) => Good(grants'[g], honoured[g])
      PROVE  Goal
  <2>1. PICK w : Steps(r, w) /\ w = None
    BY <1>d, DoneSteps
  <2>2. locks' = Linked!Released(r)
    BY <1>d DEF Linked!Done
  <2>3. Onward(r, g, w)
    BY <1>d, <2>1, <2>2 DEF Onward
  <2> QED
    BY <2>3
\* One that goes on has its lock, and the row it is about to store.
<1>o. ASSUME NEW pc \in {"refresh", "save", "save grant", "save binding", "save account"},
             NEW row \in Linked!GrantRow \cup {None},
             NEW binding \in Linked!BindingStatus \cup {None},
             Linked!Goes(r, pc, row, binding),
             UNCHANGED <<deployment, policy, held, links, lpOverlapped, locks, lost>>,
             \A h \in Grant \ {g} : grants'[h] = grants[h] /\ honoured'[h] = honoured[h],
             Linked!Locked => /\ UNCHANGED grants /\ grants[g] # None /\ locks[g] = r
                              /\ pc \in {"refresh", "save", "save grant"}
                              /\ pc # "save grant" => Linked!UsableRow(grants[g])
                              /\ pc = "save grant" => row.status = grants[g].status,
             g \notin lost /\ Linked!Coordinated(g) =>
                /\ pc # "save" => Good(grants'[g], honoured'[g])
                /\ pc \in {"save", "save grant", "save account"} => Good(row, honoured'[g])
      PROVE  Goal
  <2>1. PICK w : w = [q EXCEPT !.pc = pc, !.row = row, !.binding = binding]
    OBVIOUS
  <2>2. w \in Linked!Work /\ w.pc = pc /\ w.row = row /\ w.grant = g /\ w # None
    <3>1. q \in Linked!Work /\ q.grant = g
      BY <1>t
    <3>2. w \in Linked!Work
      BY <2>1, <3>1 DEF Linked!Work
    <3>3. w.pc = pc /\ w.row = row /\ w.grant = g
      BY <2>1, <3>1 DEF Linked!Work
    <3> QED
      BY <3>2, <3>3, LinkedAssumption
  <2>3. Steps(r, w)
    BY <1>o, <2>1 DEF Linked!Goes, Steps
  <2>4. Linked!Locked => HoldsLock(w, r, grants'[g], locks[g])
    BY <1>o, <2>2 DEF HoldsLock
  <2>5. Onward(r, g, w)
    BY <1>o, <2>2, <2>3, <2>4 DEF Onward
  <2> QED
    BY <2>5
<1>1. CASE Linked!LoadGrant(r)
  <2>1. /\ q.pc = "grant"
        /\ UNCHANGED <<deployment, policy, grants, bindings, held, honoured, issued, links, lost,
                       lpOverlapped>>
        /\ \/ Linked!Done(r)
           \/ /\ Linked!UsableRow(grants[g])
              /\ Linked!Goes(r, "refresh", grants[g], None) /\ UNCHANGED locks
    BY <1>1, <1>t DEF Linked!LoadGrant, Linked!At, Linked!config, Linked!provider,
       Linked!histories
  <2>2. CASE Linked!Done(r)
    BY <1>d, <1>h, <2>1, <2>2
  <2>3. CASE /\ Linked!UsableRow(grants[g])
             /\ Linked!Goes(r, "refresh", grants[g], None) /\ UNCHANGED locks
    <3>1. PICK row : row = grants[g]
      OBVIOUS
    <3>2. row \in Linked!GrantRow \cup {None}
      BY <1>t, <3>1
    <3>3. Linked!Locked => locks[g] = r
      BY <1>l, <2>3 DEF HoldsLock, Linked!UsableRow
    <3>4. grants[g] # None
      BY <2>3 DEF Linked!UsableRow
    <3>5. Linked!Goes(r, "refresh", row, None)
      BY <2>3, <3>1
    <3> QED
      BY <1>o, <1>h, <2>1, <2>3, <3>2, <3>3, <3>4, <3>5
  <2> QED
    BY <2>1, <2>2, <2>3
<1>2. CASE Linked!Refresh(r)
  <2>1. /\ q.pc = "refresh"
        /\ UNCHANGED <<deployment, policy, grants, bindings, held, locks, links, lost,
                       lpOverlapped>>
    BY <1>2 DEF Linked!Refresh, Linked!At, Linked!config, Linked!histories
  <2>2. PICK row \in Linked!GrantRow : row = q.row
    BY <1>t, <2>1 DEF HasRow
  <2>3. honoured \in [Grant -> 0 .. MaxToken]
    BY DEF Linked!TypeOK
  <2>4. PICK token : token = honoured'[g]
    OBVIOUS
  <2>5. /\ \A h \in Grant \ {g} : honoured'[h] = honoured[h]
        /\ \/ Linked!Goes(r, "save", Linked!Renewed(row, token), None) /\ token \in 0 .. MaxToken
           \/ \E recovery \in {"reconnect", "configuration", "retry"} :
                 Linked!Goes(r, "save", Linked!Failed(row, recovery), None)
    <3>1. CASE Linked!RefreshFails(r) \/ Linked!RefreshRefused(r)
      BY <1>t, <2>2, <3>1 DEF Linked!RefreshFails, Linked!RefreshRefused, Linked!provider
    <3>2. CASE Linked!RefreshHonoured(r)
      <4>1. /\ \A h \in Grant \ {g} : honoured'[h] = honoured[h]
            /\ token \in 0 .. MaxToken
        <5>1. issued \in [Grant -> 0 .. MaxToken] /\ MaxToken \in Nat
          BY AccountsAssumption, LinkedAssumption DEF Linked!TypeOK
        <5>2. \/ UNCHANGED honoured
              \/ /\ issued[g] < MaxToken /\ issued' = [issued EXCEPT ![g] = @ + 1]
                 /\ honoured' = [honoured EXCEPT ![g] = issued'[g]]
          BY <1>t, <3>2 DEF Linked!RefreshHonoured, Linked!provider
        <5> QED
          BY <2>3, <2>4, <5>1, <5>2
      <4>2. \/ Linked!Goes(r, "save", Linked!Renewed(row, token), None)
            \/ \E recovery \in {"retry", "reconnect"} :
                  Linked!Goes(r, "save", Linked!Failed(row, recovery), None)
        BY <1>t, <2>2, <2>4, <3>2 DEF Linked!RefreshHonoured
      <4> QED
        BY <4>1, <4>2
    <3> QED
      BY <1>2, <3>1, <3>2 DEF Linked!Refresh
  <2>6. PICK new \in Linked!GrantRow :
            Linked!Goes(r, "save", new, None) /\ (new.refresh = token \/ new.status # "active")
    BY <2>5, RowsOfGrants
  <2>7. Good(new, honoured'[g])
    BY <2>4, <2>6 DEF Good
  <2>8. Linked!Locked => grants[g] # None /\ locks[g] = r /\ Linked!UsableRow(grants[g])
    BY <1>l, <2>1 DEF HoldsLock
  <2> QED
    BY <1>o, <2>1, <2>5, <2>6, <2>7, <2>8
<1>3. CASE Linked!SaveRefreshed(r)
  <2>1. /\ q.pc = "save" /\ Linked!Done(r) /\ grants' = Linked!Saved(g, q.row)
        /\ UNCHANGED <<deployment, policy, bindings, held, honoured, issued, links, lost,
                       lpOverlapped>>
    BY <1>3, <1>t DEF Linked!SaveRefreshed, Linked!At, Linked!config, Linked!provider,
       Linked!histories
  <2>2. q.row \in Linked!GrantRow
    BY <1>t, <2>1 DEF HasRow
  <2>3. /\ \A h \in Grant \ {g} : grants'[h] = grants[h]
        /\ grants'[g] = None => grants[g] = None
        /\ Good(q.row, honoured[g]) => Good(grants'[g], honoured[g])
    BY <1>t, <2>1, <2>2, SavedIsGood
  <2>4. Linked!Locked => grants[g] # None /\ Linked!UsableRow(grants[g])
    BY <1>l, <2>1 DEF HoldsLock
  <2> QED
    BY <1>d, <1>h, <2>1, <2>3, <2>4
<1>4. CASE Linked!ReadForReport(r)
  <2>1. /\ q.pc = "report"
        /\ UNCHANGED <<deployment, policy, grants, bindings, held, honoured, issued, links, lost,
                       lpOverlapped>>
        /\ \/ Linked!Done(r)
           \/ /\ grants[g] # None /\ UNCHANGED locks
              /\ Linked!Goes(r, "save grant", grants[g], Linked!Binding(g))
    BY <1>4, <1>t DEF Linked!ReadForReport, Linked!At, Linked!config, Linked!provider,
       Linked!histories
  <2>2. CASE Linked!Done(r)
    BY <1>d, <1>h, <2>1, <2>2
  <2>3. CASE /\ grants[g] # None /\ UNCHANGED locks
             /\ Linked!Goes(r, "save grant", grants[g], Linked!Binding(g))
    <3>1. PICK row, binding : row = grants[g] /\ binding = Linked!Binding(g)
      OBVIOUS
    <3>2. binding \in Linked!BindingStatus \cup {None}
      BY <3>1 DEF Linked!TypeOK, Linked!Binding, Linked!AccountBinding, Linked!BindingStatus
    <3>3. row \in Linked!GrantRow \cup {None} /\ Linked!Goes(r, "save grant", row, binding)
      BY <1>t, <2>3, <3>1
    <3>4. Linked!Locked => locks[g] = r
      BY <1>l, <2>3 DEF HoldsLock
    <3> QED
      BY <1>o, <1>h, <2>1, <2>3, <3>1, <3>2, <3>3, <3>4
  <2> QED
    BY <2>1, <2>2, <2>3
<1>5. CASE Linked!SaveReportedGrant(r)
  <2>1. /\ q.pc = "save grant" /\ ~Linked!Locked
        /\ grants' = Linked!Saved(g, Linked!NextGrant(q.row, q.code))
        /\ Linked!Goes(r, "save binding", None, q.binding)
        /\ UNCHANGED <<deployment, policy, bindings, held, locks, honoured, issued, links, lost,
                       lpOverlapped>>
    BY <1>5, <1>t DEF Linked!SaveReportedGrant, Linked!At, Linked!config, Linked!provider,
       Linked!histories
  <2>2. PICK new : new = Linked!NextGrant(q.row, q.code)
    OBVIOUS
  <2>3. /\ q.row \in Linked!GrantRow /\ new \in Linked!GrantRow
        /\ new.refresh = q.row.refresh /\ new.status \in {q.row.status, "revoked"}
    <3>1. q.row \in Linked!GrantRow
      BY <1>t, <2>1 DEF HasRow
    <3>2. PICK row \in Linked!GrantRow : row = q.row
      BY <3>1
    <3>3. PICK given : given = q.code
      OBVIOUS
    <3>4. new = Linked!NextGrant(row, given)
      BY <2>2, <3>2, <3>3
    <3> QED
      BY <3>2, <3>4, RowsOfGrants
  <2>4. Good(q.row, honoured[g]) => Good(new, honoured[g])
    BY <2>3, AccountsAssumption, LinkedAssumption DEF Good
  <2>5. /\ \A h \in Grant \ {g} : grants'[h] = grants[h]
        /\ Good(new, honoured[g]) => Good(grants'[g], honoured[g])
    <3>1. grants' = Linked!Saved(g, new) /\ new \in Linked!GrantRow /\ g \in Grant
      BY <1>t, <2>1, <2>2, <2>3
    <3>2. honoured[g] \in Nat
      BY <1>t DEF Linked!TypeOK
    <3> QED
      BY <1>t, <3>1, <3>2, SavedIsGood
  <2>6. g \notin lost /\ Linked!Coordinated(g) => Good(grants'[g], honoured'[g])
    BY <1>h, <2>1, <2>4, <2>5
  <2>7. PICK binding \in Linked!BindingStatus \cup {None} : binding = q.binding
    BY <1>t
  <2>8. Linked!Goes(r, "save binding", None, binding)
    BY <2>1, <2>7
  <2> QED
    BY <1>o, <2>1, <2>5, <2>6, <2>8
<1>6. CASE Linked!SaveReportedBinding(r)
  <2>1. /\ q.pc = "save binding" /\ Linked!Done(r)
        /\ UNCHANGED <<deployment, policy, grants, held, honoured, issued, links, lost,
                       lpOverlapped>>
    BY <1>6, <1>t DEF Linked!SaveReportedBinding, Linked!At, Linked!config, Linked!provider,
       Linked!histories
  <2> QED
    BY <1>d, <1>h, <2>1
<1>7. CASE Linked!ReadAccount(r)
  <2>1. /\ q.pc = "save binding" /\ ~Linked!Locked
        /\ UNCHANGED <<deployment, policy, grants, bindings, held, honoured, issued, links, lost,
                       lpOverlapped>>
        /\ \/ Linked!Done(r)
           \/ /\ grants[g] # None /\ UNCHANGED locks
              /\ Linked!Goes(r, "save account", grants[g], q.binding)
    BY <1>7, <1>t DEF Linked!ReadAccount, Linked!At, Linked!config, Linked!provider,
       Linked!histories, Linked!Locked
  <2>2. CASE Linked!Done(r)
    BY <1>d, <1>h, <2>1, <2>2
  <2>3. CASE /\ grants[g] # None /\ UNCHANGED locks
             /\ Linked!Goes(r, "save account", grants[g], q.binding)
    <3>1. PICK row, binding : row = grants[g] /\ binding = q.binding
      OBVIOUS
    <3>2. /\ row \in Linked!GrantRow \cup {None} /\ binding \in Linked!BindingStatus \cup {None}
          /\ Linked!Goes(r, "save account", row, binding)
      BY <1>t, <2>3, <3>1
    <3> QED
      BY <1>o, <1>h, <2>1, <2>3, <3>1, <3>2
  <2> QED
    BY <2>1, <2>2, <2>3
<1>8. CASE Linked!SaveAccount(r)
  <2>1. PICK new : new = Linked!AccountStatus(q.row, Linked!NextBinding(q.binding, q.code))
    OBVIOUS
  <2>2. /\ q.pc = "save account" /\ Linked!Done(r) /\ grants' = [grants EXCEPT ![g] = new]
        /\ UNCHANGED <<deployment, policy, bindings, held, honoured, issued, links, lost,
                       lpOverlapped>>
    BY <1>8, <1>t, <2>1 DEF Linked!SaveAccount, Linked!At, Linked!config, Linked!provider,
       Linked!histories
  <2>3. /\ q.row \in Linked!GrantRow /\ new \in Linked!GrantRow
        /\ new.refresh = q.row.refresh /\ new.status \in {q.row.status, "revoked", "error"}
    <3>1. q.row \in Linked!GrantRow
      BY <1>t, <2>2 DEF HasRow
    <3>2. PICK row \in Linked!GrantRow : row = q.row
      BY <3>1
    <3>3. PICK given : given = Linked!NextBinding(q.binding, q.code)
      OBVIOUS
    <3>4. new = Linked!AccountStatus(row, given)
      BY <2>1, <3>2, <3>3
    <3> QED
      BY <3>2, <3>4 DEF Linked!AccountStatus, Linked!GrantRow
  <2>4. Good(q.row, honoured[g]) => Good(new, honoured[g])
    BY <2>3, AccountsAssumption, LinkedAssumption DEF Good
  <2>5. ~Linked!Locked
    BY <1>l, <2>2 DEF HoldsLock
  <2>6. grants'[g] = new /\ \A h \in Grant \ {g} : grants'[h] = grants[h]
    BY <1>t, <2>2
  <2> QED
    BY <1>d, <1>h, <2>2, <2>4, <2>5, <2>6
<1>9. CASE Linked!CommitReport(r)
  <2>1. PICK new : new = Linked!NextGrant(q.row, q.code)
    OBVIOUS
  <2>2. /\ q.pc = "save grant" /\ Linked!Locked /\ Linked!Done(r)
        /\ grants' = Linked!Saved(g, new)
        /\ UNCHANGED <<deployment, policy, held, honoured, issued, links, lost, lpOverlapped>>
    BY <1>9, <1>t, <2>1 DEF Linked!CommitReport, Linked!At, Linked!config, Linked!provider,
       Linked!histories
  <2>3. /\ q.row \in Linked!GrantRow /\ new \in Linked!GrantRow
        /\ new.refresh = q.row.refresh /\ new.status \in {q.row.status, "revoked"}
    <3>1. q.row \in Linked!GrantRow
      BY <1>t, <2>2 DEF HasRow
    <3>2. PICK row \in Linked!GrantRow : row = q.row
      BY <3>1
    <3>3. PICK given : given = q.code
      OBVIOUS
    <3>4. new = Linked!NextGrant(row, given)
      BY <2>1, <3>2, <3>3
    <3> QED
      BY <3>2, <3>4, RowsOfGrants
  <2>4. Good(q.row, honoured[g]) => Good(new, honoured[g])
    BY <2>3, AccountsAssumption, LinkedAssumption DEF Good
  <2>5. /\ \A h \in Grant \ {g} : grants'[h] = grants[h]
        /\ grants'[g] = None => grants[g] = None
        /\ grants'[g] # None => grants'[g].status = new.status
        /\ Good(new, honoured[g]) => Good(grants'[g], honoured[g])
    BY <1>t, <2>2, <2>3, SavedIsGood
  <2>6. grants[g] # None /\ q.row.status = grants[g].status
    BY <1>l, <2>2 DEF HoldsLock
  <2>7. Linked!UsableRow(grants'[g]) => Linked!UsableRow(grants[g])
    BY <2>3, <2>5, <2>6 DEF Linked!UsableRow
  <2> QED
    BY <1>d, <1>h, <2>2, <2>4, <2>5, <2>6, <2>7
<1>10. CASE Linked!Crash(r)
  <2>1. /\ Linked!Done(r)
        /\ lost' = IF q.pc = "save" THEN lost \cup {g} ELSE lost
        /\ UNCHANGED <<deployment, policy, grants, held, honoured, issued, links, lpOverlapped>>
    BY <1>10, <1>t DEF Linked!Crash, Linked!At, Linked!config, Linked!provider
  <2> QED
    BY <1>d, <1>h, <2>1
<1> QED
  BY <1>1, <1>2, <1>3, <1>4, <1>5, <1>6, <1>7, <1>8, <1>9, <1>10

\* So every step of a request keeps the invariant, and under the lock it brings no grant back.
LEMMA LinkedRequestNext ==
    ASSUME LinkedInv, NEW r \in Request,
           \/ Linked!LoadGrant(r) \/ Linked!Refresh(r) \/ Linked!SaveRefreshed(r)
           \/ Linked!ReadForReport(r) \/ Linked!SaveReportedGrant(r)
           \/ Linked!SaveReportedBinding(r) \/ Linked!ReadAccount(r) \/ Linked!SaveAccount(r)
           \/ Linked!CommitReport(r) \/ Linked!Crash(r)
    PROVE  /\ RowsLocked' /\ WorkedAlone' /\ RowsGood'
           /\ Linked!Locked => \A g \in Grant : Linked!Usable(g)' => Linked!Usable(g)
<1>1. requests[r] # None
  BY DEF Linked!LoadGrant, Linked!Refresh, Linked!SaveRefreshed, Linked!ReadForReport,
     Linked!SaveReportedGrant, Linked!SaveReportedBinding, Linked!ReadAccount,
     Linked!SaveAccount, Linked!CommitReport, Linked!Crash, Linked!At
<1>2. Linked!TypeOK /\ AllHaveRows
  BY DEF LinkedInv
<1>3. PICK g \in Grant : Works(r, g)
  BY <1>1, <1>2, LinkedWork DEF Works
<1>4. Before(r, g)
  BY <1>3, LinkedBefore
<1>5. \E w : Onward(r, g, w)
  BY <1>2, <1>3, <1>4, RequestOnward
<1>6. PICK w : Onward(r, g, w)
  BY <1>5
<1>7. RowsLocked' /\ WorkedAlone' /\ RowsGood'
  BY <1>3, <1>6, OnwardKeeps
<1>8. Linked!Locked => \A h \in Grant : Linked!Usable(h)' => Linked!Usable(h)
  BY <1>6 DEF Onward, Linked!Usable, Linked!UsableRow
<1> QED
  BY <1>7, <1>8

\* A request that begins does, and it brings none back either.
LEMMA LinkedBeginNext ==
    ASSUME LinkedInv, NEW r \in Request, NEW g \in Grant, NEW op, NEW pc \in {"grant", "report"},
           NEW code, NEW binding, Linked!Begin(r, g, op, pc, code, binding)
    PROVE  /\ RowsLocked' /\ WorkedAlone' /\ RowsGood'
           /\ UNCHANGED grants
<1>1. PICK w : w = [pc |-> pc, op |-> op, grant |-> g, code |-> code, row |-> None,
                    binding |-> binding]
  OBVIOUS
<1>2. /\ requests[r] = None /\ g \in held /\ (Linked!Locked => locks[g] = None)
      /\ Steps(r, w) /\ w.grant = g /\ w.pc = pc
      /\ UNCHANGED <<deployment, grants, held, honoured, links, lost>>
      /\ locks' = Linked!Taken(r, g)
      /\ lpOverlapped' = IF Linked!Busy(g) # {} THEN lpOverlapped \cup {g} ELSE lpOverlapped
  BY <1>1 DEF Linked!Begin, Steps, Linked!config, Linked!provider
<1>3. /\ requests'[r] = w /\ \A q \in Request \ {r} : requests'[q] = requests[q]
      /\ locks \in [Grant -> Request \cup {None}]
  BY <1>2, SteppedTo DEF LinkedInv, Linked!TypeOK
<1>4. \A q \in Request : \A h \in Grant : Works(q, h)' => (q = r /\ h = g) \/ (q # r /\ Works(q, h))
  BY <1>2, <1>3 DEF Works
<1>5. RowsLocked'
  <2>1. SUFFICES ASSUME Linked!Locked PROVE RowsLocked'
    BY <1>2 DEF RowsLocked, Linked!Locked
  <2>2. \A h \in Grant :
            /\ links[h] = 0 => grants[h] = None /\ h \notin held
            /\ \A q \in Request : Works(q, h) =>
                  h \in held /\ HoldsLock(requests[q], q, grants[h], locks[h])
    BY <2>1 DEF LinkedInv, RowsLocked
  <2>3. /\ grants[g] # None => locks'[g] = r
        /\ \A h \in Grant \ {g} : locks'[h] = locks[h]
        /\ grants[g] = None => UNCHANGED locks
    BY <1>2, <1>3, <2>1 DEF Linked!Taken
  <2>4. ASSUME NEW h \in Grant, NEW q \in Request, Works(q, h)'
        PROVE  h \in held /\ HoldsLock(requests'[q], q, grants[h], locks'[h])
    <3>1. CASE q = r /\ h = g
      BY <1>2, <1>3, <2>3, <3>1 DEF HoldsLock
    <3>2. CASE q # r /\ Works(q, h)
      <4>1. h \in held /\ HoldsLock(requests[q], q, grants[h], locks[h])
        BY <2>2, <3>2
      <4>2. h = g => grants[h] = None
        BY <1>2, <2>1, <4>1, AccountsAssumption, LinkedAssumption DEF HoldsLock
      <4> QED
        BY <1>3, <2>3, <3>2, <4>1, <4>2 DEF HoldsLock
    <3> QED
      BY <1>4, <2>4, <3>1, <3>2
  <2> QED
    BY <1>2, <2>2, <2>4 DEF RowsLocked
<1>6. WorkedAlone'
  <2>1. WorkedAlone
    BY DEF LinkedInv
  <2>2. g \in lpOverlapped' \/ \A q \in Request : ~Works(q, g)
    BY <1>2 DEF Linked!Busy, Works
  <2>3. lpOverlapped \subseteq lpOverlapped' /\ (Linked!Locked' <=> Linked!Locked)
    BY <1>2 DEF Linked!Locked
  <2> QED
    BY <1>4, <2>1, <2>2, <2>3 DEF WorkedAlone
<1>7. RowsGood'
  <2>1. \A h \in Grant : Linked!Coordinated(h)' => Linked!Coordinated(h)
    BY <1>2 DEF Linked!Coordinated, Linked!Locked
  <2>2. ASSUME NEW h \in Grant, GoodAt(h) PROVE GoodAt(h)'
    <3>1. \A q \in Request : /\ Renews(q, h) => Renews(q, h)'
                             /\ Stores(q, h)' => Stores(q, h) /\ q # r
      BY <1>2, <1>3, <1>4 DEF Renews, Stores, Works
    <3> QED
      BY <1>2, <1>3, <2>2, <3>1 DEF GoodAt
  <2> QED
    BY <1>2, <2>1, <2>2 DEF LinkedInv, RowsGood
<1> QED
  BY <1>2, <1>5, <1>6, <1>7

\* The steps of the person and the provider do, and only an authorization brings a grant back.
LEMMA LinkedGrantNext ==
    ASSUME LinkedInv, NEW g \in Grant,
           \/ Linked!Link(g) \/ Linked!Disconnect(g) \/ Linked!Withdraw(g)
           \/ Linked!LeaseExpires(g) \/ Linked!ResolveCredential(g)
    PROVE  /\ RowsLocked' /\ WorkedAlone' /\ RowsGood'
           /\ \A h \in Grant : Linked!Usable(h)' =>
                 Linked!Usable(h) \/ links'[h] = links[h] + 1
<1>t. /\ grants \in [Grant -> Linked!GrantRow \cup {None}]
      /\ honoured \in [Grant -> 0 .. MaxToken] /\ issued \in [Grant -> 0 .. MaxToken]
      /\ links \in [Grant -> 0 .. MaxLinks] /\ locks \in [Grant -> Request \cup {None}]
      /\ MaxToken \in Nat /\ MaxLinks \in Nat
  BY AccountsAssumption, LinkedAssumption DEF LinkedInv, Linked!TypeOK
<1>l. Linked!Locked => \A h \in Grant :
            /\ links[h] = 0 => grants[h] = None /\ h \notin held
            /\ \A q \in Request : Works(q, h) =>
                  h \in held /\ HoldsLock(requests[q], q, grants[h], locks[h])
  BY DEF LinkedInv, RowsLocked
<1>u. /\ UNCHANGED <<deployment, locks, requests>>
      /\ \A h \in Grant \ {g} :
            grants'[h] = grants[h] /\ honoured'[h] = honoured[h] /\ links'[h] = links[h]
            /\ (h \in held' <=> h \in held) /\ (h \in lost' <=> h \in lost)
            /\ (h \in lpOverlapped' <=> h \in lpOverlapped)
  BY <1>t DEF Linked!Link, Linked!Disconnect, Linked!Withdraw, Linked!LeaseExpires,
     Linked!ResolveCredential, Linked!config, Linked!provider, Linked!histories
<1>w. \A q \in Request : \A h : /\ Works(q, h)' <=> Works(q, h)
                                /\ Renews(q, h)' <=> Renews(q, h)
                                /\ Stores(q, h)' <=> Stores(q, h)
  BY <1>u DEF Works, Renews, Stores
\* What has to hold of the grant itself.
<1>g. ASSUME held \subseteq held', lpOverlapped \subseteq lpOverlapped',
             Linked!Locked =>
                /\ links'[g] = 0 => grants'[g] = None /\ g \notin held'
                /\ \A q \in Request : Works(q, g) =>
                      HoldsLock(requests[q], q, grants'[g], locks[g]),
             g \notin lost' /\ Linked!Coordinated(g)' => GoodAt(g)',
             Linked!Usable(g)' => Linked!Usable(g) \/ links'[g] = links[g] + 1
      PROVE  /\ RowsLocked' /\ WorkedAlone' /\ RowsGood'
             /\ \A h \in Grant : Linked!Usable(h)' =>
                   Linked!Usable(h) \/ links'[h] = links[h] + 1
  <2>1. RowsLocked'
    <3>1. SUFFICES ASSUME Linked!Locked PROVE RowsLocked'
      BY <1>u DEF RowsLocked, Linked!Locked
    <3>2. ASSUME NEW h \in Grant
          PROVE  /\ links'[h] = 0 => grants'[h] = None /\ h \notin held'
                 /\ \A q \in Request : Works(q, h)' =>
                       h \in held' /\ HoldsLock(requests'[q], q, grants'[h], locks'[h])
      <4>1. CASE h = g
        BY <1>g, <1>l, <1>u, <1>w, <3>1, <4>1
      <4>2. CASE h # g
        BY <1>l, <1>u, <1>w, <3>1, <4>2
      <4> QED
        BY <4>1, <4>2
    <3> QED
      BY <3>2 DEF RowsLocked
  <2>2. WorkedAlone'
    BY <1>g, <1>u, <1>w DEF LinkedInv, WorkedAlone, Linked!Locked
  <2>3. RowsGood'
    <3>1. SUFFICES ASSUME NEW h \in Grant \ lost', Linked!Coordinated(h)' PROVE GoodAt(h)'
      BY DEF RowsGood
    <3>2. CASE h # g
      <4>1. h \notin lost /\ Linked!Coordinated(h)
        BY <1>u, <3>1, <3>2 DEF Linked!Coordinated, Linked!Locked
      <4>2. GoodAt(h)
        BY <4>1 DEF LinkedInv, RowsGood
      <4> QED
        BY <1>u, <1>w, <3>2, <4>2 DEF GoodAt
    <3> QED
      BY <1>g, <3>1, <3>2
  <2>4. \A h \in Grant \ {g} : Linked!Usable(h)' => Linked!Usable(h)
    BY <1>u DEF Linked!Usable, Linked!UsableRow
  <2> QED
    BY <1>g, <2>1, <2>2, <2>3, <2>4
\* What was good stays so when the row is gone or the provider honours nothing.
<1>k. ASSUME lost' = lost, lpOverlapped' = lpOverlapped, UNCHANGED honoured,
             \/ grants'[g] = None
             \/ UNCHANGED grants
             \/ /\ grants'[g].status = grants[g].status /\ grants'[g].refresh = grants[g].refresh
                /\ grants[g] # None,
             g \notin lost' /\ Linked!Coordinated(g)'
      PROVE  GoodAt(g)'
  <2>1. GoodAt(g)
    BY <1>k, <1>u DEF LinkedInv, RowsGood, Linked!Coordinated, Linked!Locked
  <2>2. Good(grants[g], honoured[g]) => Good(grants'[g], honoured'[g])
    BY <1>k DEF Good
  <2> QED
    BY <1>k, <1>u, <1>w, <2>1, <2>2 DEF GoodAt
\* Where the row is free no request works on a grant that is there.
<1>f. ASSUME Linked!Locked, locks[g] = None, NEW q \in Request, Works(q, g)
      PROVE  grants[g] = None /\ g \in held /\ links[g] # 0
  BY <1>f, <1>l, AccountsAssumption, LinkedAssumption DEF HoldsLock
<1>1. CASE Linked!Link(g)
  <2>1. /\ UNCHANGED held /\ lpOverlapped \subseteq lpOverlapped'
        /\ (Linked!Locked => locks[g] = None) /\ (links[g] = 0 \/ grants[g] # None)
        /\ links' = [links EXCEPT ![g] = @ + 1]
        /\ lpOverlapped' = IF \E r \in Request : requests[r] # None /\ requests[r].grant = g
                           THEN lpOverlapped \cup {g} ELSE lpOverlapped
    BY <1>1 DEF Linked!Link
  <2>2. links'[g] = links[g] + 1 /\ links'[g] # 0
    BY <1>t, <2>1
  <2>3. Linked!Locked => \A q \in Request : ~Works(q, g)
    BY <1>f, <2>1
  <2>4. Linked!Coordinated(g)' => \A q \in Request : ~Works(q, g)
    BY <1>u, <2>1, <2>3 DEF Linked!Coordinated, Linked!Locked, Works
  <2>5. Good(grants'[g], honoured'[g])
    <3>1. CASE /\ issued[g] < MaxToken
               /\ issued' = [issued EXCEPT ![g] = @ + 1]
               /\ honoured' = [honoured EXCEPT ![g] = issued'[g]]
               /\ grants' = [grants EXCEPT ![g] = Linked!Upserted(@,
                     [status |-> "active", refresh |-> issued'[g], fresh |-> TRUE])]
      <4>1. PICK token : token = issued'[g]
        OBVIOUS
      <4>2. token \in 0 .. MaxToken /\ token # 0
        BY <1>t, <3>1, <4>1
      <4>3. PICK row : row = [status |-> "active", refresh |-> token, fresh |-> TRUE]
        OBVIOUS
      <4>4. row \in Linked!GrantRow
        BY <4>2, <4>3 DEF Linked!GrantRow
      <4>5. Linked!Upserted(grants[g], row).refresh = token
        BY <4>2, <4>3 DEF Linked!Upserted
      <4>6. grants'[g] = Linked!Upserted(grants[g], row) /\ honoured'[g] = token
        BY <1>t, <3>1, <4>1, <4>3
      <4> QED
        BY <4>5, <4>6 DEF Good
    <3>2. CASE /\ grants[g] # None /\ honoured[g] # 0 /\ grants[g].refresh = honoured[g]
               /\ grants' = [grants EXCEPT ![g] = Linked!Upserted(@,
                     [status |-> "active", refresh |-> 0, fresh |-> TRUE])]
               /\ UNCHANGED Linked!provider
      <4>1. PICK row : row = [status |-> "active", refresh |-> 0, fresh |-> TRUE]
        OBVIOUS
      <4>2. 0 \in 0 .. MaxToken
        BY <1>t
      <4>3. row \in Linked!GrantRow
        BY <4>1, <4>2 DEF Linked!GrantRow
      <4>4. Linked!Upserted(grants[g], row).refresh = grants[g].refresh
        BY <1>t, <3>2, <4>1, <4>3, RowsOfGrants
      <4>5. grants'[g] = Linked!Upserted(grants[g], row) /\ honoured'[g] = honoured[g]
        BY <1>t, <3>2, <4>1 DEF Linked!provider
      <4> QED
        BY <3>2, <4>4, <4>5 DEF Good
    <3> QED
      BY <1>1, <3>1, <3>2 DEF Linked!Link
  <2>6. Linked!Coordinated(g)' => GoodAt(g)'
    BY <1>w, <2>4, <2>5 DEF GoodAt, Stores
  <2> QED
    BY <1>g, <2>1, <2>2, <2>3, <2>6
<1>2. CASE Linked!Disconnect(g)
  <2>1. /\ UNCHANGED <<held, honoured, links, lost, lpOverlapped>> /\ grants'[g] = None
        /\ grants[g] # None /\ (Linked!Locked => locks[g] = None)
    BY <1>2, <1>t DEF Linked!Disconnect, Linked!provider, Linked!histories
  <2>2. Linked!Locked => \A q \in Request : ~Works(q, g)
    BY <1>f, <2>1
  <2>3. ~Linked!Usable(g)'
    BY <2>1 DEF Linked!Usable, Linked!UsableRow
  <2> QED
    BY <1>g, <1>k, <1>l, <2>1, <2>2, <2>3
<1>3. CASE Linked!Withdraw(g)
  <2>1. UNCHANGED <<grants, held, links, lost, lpOverlapped>> /\ honoured'[g] = 0
    BY <1>3, <1>t DEF Linked!Withdraw, Linked!histories
  <2>2. GoodAt(g)'
    BY <2>1 DEF GoodAt, Good
  <2>3. Linked!Usable(g)' <=> Linked!Usable(g)
    BY <2>1 DEF Linked!Usable
  <2> QED
    BY <1>g, <1>l, <2>1, <2>2, <2>3
<1>4. CASE Linked!LeaseExpires(g)
  <2>1. /\ UNCHANGED <<held, honoured, links, lost, lpOverlapped>>
        /\ grants[g] # None /\ grants' = [grants EXCEPT ![g].fresh = FALSE]
    BY <1>4 DEF Linked!LeaseExpires, Linked!provider, Linked!histories
  <2>2. PICK row : row = [grants[g] EXCEPT !.fresh = FALSE]
    OBVIOUS
  <2>3. row \in Linked!GrantRow /\ row.status = grants[g].status /\ row.refresh = grants[g].refresh
    BY <1>t, <2>1, <2>2 DEF Linked!GrantRow
  <2>4. grants'[g] = row /\ row # None
    BY <1>t, <2>1, <2>2, <2>3, AccountsAssumption, LinkedAssumption
  <2>5. Linked!Locked => \A q \in Request : Works(q, g) =>
            HoldsLock(requests[q], q, grants'[g], locks[g])
    BY <1>l, <2>1, <2>3, <2>4 DEF HoldsLock, Linked!UsableRow
  <2>6. Linked!Usable(g)' => Linked!Usable(g)
    BY <2>1, <2>3, <2>4 DEF Linked!Usable, Linked!UsableRow
  <2>7. g \notin lost' /\ Linked!Coordinated(g)' => GoodAt(g)'
    BY <1>k, <2>1, <2>3, <2>4
  <2> QED
    BY <1>g, <1>l, <2>1, <2>5, <2>6, <2>7
<1>5. CASE Linked!ResolveCredential(g)
  <2>1. /\ UNCHANGED <<grants, honoured, links, lost, lpOverlapped>> /\ held' = held \cup {g}
        /\ Linked!Usable(g)
    BY <1>5 DEF Linked!ResolveCredential, Linked!provider, Linked!histories
  <2>2. Linked!Locked => links[g] # 0
    BY <1>l, <2>1 DEF Linked!Usable, Linked!UsableRow
  <2>3. g \notin lost' /\ Linked!Coordinated(g)' => GoodAt(g)'
    BY <1>k, <2>1
  <2> QED
    BY <1>g, <1>l, <2>1, <2>2, <2>3
<1> QED
  BY <1>1, <1>2, <1>3, <1>4, <1>5

\* Every step of the linked providers keeps the invariant.
LEMMA LinkedStep ==
    ASSUME LinkedInv, [Linked!Next]_lpVars
    PROVE  /\ LinkedInv'
           /\ Linked!Locked => \A g \in Grant :
                 ~Linked!Usable(g) /\ Linked!Usable(g)' => links'[g] = links[g] + 1
<1>1. Linked!TypeOK' /\ AllHaveRows'
  BY LinkedTypesNext DEF LinkedInv
<1> DEFINE Goal ==
        /\ RowsLocked' /\ WorkedAlone' /\ RowsGood'
        /\ Linked!Locked => \A g \in Grant :
              ~Linked!Usable(g) /\ Linked!Usable(g)' => links'[g] = links[g] + 1
<1>2. ASSUME UNCHANGED lpVars PROVE Goal
  <2>1. \A g \in Grant : Linked!Usable(g)' => Linked!Usable(g)
    BY <1>2 DEF lpVars, Linked!Usable, Linked!UsableRow
  <2>2. RowsLocked' /\ WorkedAlone'
    BY <1>2 DEF lpVars, LinkedInv, RowsLocked, WorkedAlone, Works, Linked!Locked
  <2>3. \A g : /\ Linked!Coordinated(g)' <=> Linked!Coordinated(g)
               /\ GoodAt(g)' <=> GoodAt(g)
    BY <1>2 DEF lpVars, GoodAt, Works, Renews, Stores, Linked!Locked, Linked!Coordinated
  <2>4. RowsGood'
    BY <1>2, <2>3 DEF lpVars, LinkedInv, RowsGood
  <2> QED
    BY <2>1, <2>2, <2>4
<1>3. ASSUME NEW g \in Grant,
             \/ Linked!Link(g) \/ Linked!Disconnect(g) \/ Linked!Withdraw(g)
             \/ Linked!LeaseExpires(g) \/ Linked!ResolveCredential(g)
      PROVE  Goal
  BY <1>3, LinkedGrantNext
<1>4. ASSUME NEW r \in Request, NEW g \in Grant,
             Linked!GetAccessToken(r, g) \/ \E code \in Linked!Code : Linked!ReportFailure(r, g, code)
      PROVE  Goal
  <2>1. PICK pc \in {"grant", "report"} : \E op, code, binding :
            Linked!Begin(r, g, op, pc, code, binding)
    BY <1>4 DEF Linked!GetAccessToken, Linked!ReportFailure
  <2>2. PICK op, code, binding : Linked!Begin(r, g, op, pc, code, binding)
    BY <2>1
  <2>3. RowsLocked' /\ WorkedAlone' /\ RowsGood' /\ UNCHANGED grants
    BY <2>2, LinkedBeginNext
  <2> QED
    BY <2>3 DEF Linked!Usable
<1>5. ASSUME NEW r \in Request,
             \/ Linked!LoadGrant(r) \/ Linked!Refresh(r) \/ Linked!SaveRefreshed(r)
             \/ Linked!ReadForReport(r) \/ Linked!SaveReportedGrant(r)
             \/ Linked!SaveReportedBinding(r) \/ Linked!ReadAccount(r) \/ Linked!SaveAccount(r)
             \/ Linked!CommitReport(r) \/ Linked!Crash(r)
      PROVE  Goal
  BY <1>5, LinkedRequestNext
<1> QED
  BY <1>1, <1>2, <1>3, <1>4, <1>5 DEF Linked!Next, LinkedInv, AllHaveRows

\* The invariant gives an active grant a token that is honoured.
LEMMA LinkedSafe == LinkedInv => Linked!ActiveMeansHonoured
<1> SUFFICES ASSUME LinkedInv, NEW g \in Grant,
                    Linked!Quiet(g), Linked!Coordinated(g), g \notin lost,
                    grants[g] # None, grants[g].status = "active", honoured[g] # 0
             PROVE  grants[g].refresh = honoured[g]
  BY DEF Linked!ActiveMeansHonoured
<1>1. GoodAt(g)
  BY DEF LinkedInv, RowsGood
<1>2. \A r \in Request : ~Renews(r, g)
  BY DEF Linked!Quiet, Linked!Busy, Renews, Works
<1> QED
  BY <1>1, <1>2 DEF GoodAt, Good

-------------------------------------------------------------------------------

(* The sum: a behaviour is one of one module.                                 *)

AccountsInv ==
    /\ part = "credentials" => PasswordsInv
    /\ part = "lockout" => LockoutInv
    /\ part = "codes" => CodesInv
    /\ part = "sms" => SmsInv
    /\ part = "sign-in methods" => SignInInv
    /\ part = "mobile" => MobileInv
    /\ part = "audit" => AuditInv
    /\ part = "linked providers" => LinkedInv

-------------------------------------------------------------------------------

\* Every reachable state of every module satisfies its invariant, with its types, for every
\* value of the constants.
THEOREM Invariant == Spec => []AccountsInv
<1>1. Init => AccountsInv
  <2> SUFFICES ASSUME Init PROVE AccountsInv
    OBVIOUS
  <2>1. part = "credentials" => PasswordsInv
    BY PasswordsInit DEF Init
  <2>2. part = "lockout" => LockoutInv
    BY LockoutInit DEF Init
  <2>3. part = "codes" => CodesInv
    BY CodesInit DEF Init
  <2>4. part = "sms" => SmsInv
    BY SmsInit DEF Init
  <2>5. part = "sign-in methods" => SignInInv
    BY SignInInit DEF Init
  <2>6. part = "mobile" => MobileInv
    BY MobileInit DEF Init
  <2>7. part = "audit" => AuditInv
    BY AuditInit DEF Init
  <2>8. part = "linked providers" => LinkedInv
    BY LinkedInit DEF Init
  <2> QED
    BY <2>1, <2>2, <2>3, <2>4, <2>5, <2>6, <2>7, <2>8 DEF AccountsInv
<1>2. AccountsInv /\ [Next]_vars => AccountsInv'
  <2> SUFFICES ASSUME AccountsInv, [Next]_vars PROVE AccountsInv'
    OBVIOUS
  <2>1. ASSUME part' = "credentials" PROVE PasswordsInv'
    <3>1. part = "credentials" /\ [Credentials!Next]_crVars
      BY <2>1 DEF Next, vars
    <3> QED
      BY <3>1, PasswordsNext DEF AccountsInv
  <2>2. ASSUME part' = "lockout" PROVE LockoutInv'
    <3>1. part = "lockout" /\ [Lockout!Next]_lkVars
      BY <2>2 DEF Next, vars
    <3> QED
      BY <3>1, LockoutNext DEF AccountsInv
  <2>3. ASSUME part' = "codes" PROVE CodesInv'
    <3>1. part = "codes" /\ [MfaCodes!Next]_mcVars
      BY <2>3 DEF Next, vars
    <3> QED
      BY <3>1, CodesNext DEF AccountsInv
  <2>4. ASSUME part' = "sms" PROVE SmsInv'
    <3>1. part = "sms" /\ [MfaSms!Next]_msVars
      BY <2>4 DEF Next, vars
    <3> QED
      BY <3>1, SmsNext DEF AccountsInv
  <2>5. ASSUME part' = "sign-in methods" PROVE SignInInv'
    <3>1. part = "sign-in methods" /\ [SignIn!Next]_siVars
      BY <2>5 DEF Next, vars
    <3> QED
      BY <3>1, SignInNext DEF AccountsInv
  <2>6. ASSUME part' = "mobile" PROVE MobileInv'
    <3>1. part = "mobile" /\ [Mobile!Next]_moVars
      BY <2>6 DEF Next, vars
    <3> QED
      BY <3>1, MobileNext DEF AccountsInv
  <2>7. ASSUME part' = "audit" PROVE AuditInv'
    <3>1. part = "audit" /\ [Audit!Next]_auVars
      BY <2>7 DEF Next, vars
    <3> QED
      BY <3>1, AuditNext DEF AccountsInv
  <2>8. ASSUME part' = "linked providers" PROVE LinkedInv'
    <3>1. part = "linked providers" /\ [Linked!Next]_lpVars
      BY <2>8 DEF Next, vars
    <3> QED
      BY <3>1, LinkedStep DEF AccountsInv
  <2> QED
    BY <2>1, <2>2, <2>3, <2>4, <2>5, <2>6, <2>7, <2>8 DEF AccountsInv
<1> QED
  BY <1>1, <1>2, PTL DEF Spec

\* Every variable stays within its type, the histories of the text messages within the bound on
\* what all the challenges together can have seen.
THEOREM Typed == Spec => []TypesOK
<1>1. AccountsInv => TypesOK
  <2>1. /\ PasswordsInv => Credentials!TypeOK
        /\ LockoutInv => Lockout!TypeOK
        /\ CodesInv => MfaCodes!TypeOK
    BY DEF PasswordsInv, LockoutInv, LockoutTypes, CodesInv
  <2>2. /\ SignInInv => SignIn!TypeOK
        /\ MobileInv => Mobile!TypeOK
        /\ AuditInv => Audit!TypeOK
        /\ LinkedInv => Linked!TypeOK
    BY DEF SignInInv, SignInTypes, MobileInv, MobileTypes, AuditInv, LinkedInv
  <2> QED
    BY <2>1, <2>2, SmsTypeOK DEF AccountsInv, TypesOK
<1> QED
  BY <1>1, Invariant, PTL

\* However many requests cross: a password that was replaced signs nobody in but through a request
\* that read it before, an emailed token is redeemed once but in the store that reads and deletes
\* it in two steps, a backup code that was used stays used, and a login that waited becomes one
\* session, up to the races that the modules name (login, resetPassword, consumeToken, the
\* backup codes of the challenge, promote).
THEOREM SpentStaysSpent == Spec => []NothingSpentPasses
<1>1. AccountsInv => NothingSpentPasses
  <2>1. ASSUME PasswordsInv PROVE Credentials!RetiredStaysOut /\ Credentials!TokensPassOnce
    <3>1. ASSUME NEW t \in Credentials!Token, t \notin raced PROVE ~(redeemed[t] > 1)
      <4>1. redeemed[t] \in Nat /\ redeemed[t] <= 1
        BY <2>1, <3>1 DEF PasswordsInv, PassesAlone, Credentials!TypeOK
      <4> QED
        BY <4>1
    <3>2. \A t \in Credentials!Token : t \in raced => Credentials!Postgres
      BY <2>1 DEF PasswordsInv, PassesAlone
    <3> QED
      BY <2>1, <3>1, <3>2 DEF PasswordsInv, Credentials!TokensPassOnce
  <2>2. ASSUME CodesInv PROVE MfaCodes!SpentCodesStaySpent /\ MfaCodes!LoginPromotedOnce
    <3>1. MfaCodes!SpentCodesStaySpent
      BY <2>2 DEF CodesInv, CodesFine, Fine, MfaCodes!SpentCodesStaySpent
    <3>2. ASSUME NEW l \in MfaCodes!Login, l \notin crossed PROVE ~(promotions[l] > 1)
      <4>1. promotions[l] \in Nat /\ promotions[l] <= 1
        BY <2>2, <3>2 DEF CodesInv, PromotedAlone, MfaCodes!TypeOK
      <4> QED
        BY <4>1
    <3> QED
      BY <3>1, <3>2 DEF MfaCodes!LoginPromotedOnce
  <2> QED
    BY <2>1, <2>2 DEF AccountsInv, NothingSpentPasses
<1> QED
  BY <1>1, Invariant, PTL

\* For every limit and every number of requests: failures that do not overlap lock the key they
\* are counted under, whatever the store; and a challenge by text message admits no more guesses
\* than its limit and the requests in flight allow for each time it was sent, and is completed
\* once (recordFailure, claimSmsChallenge, recordSmsFailure, completeSmsChallenge).
THEOREM GuessesBounded == Spec => []GuessesAreBounded
<1>1. AccountsInv => GuessesAreBounded
  BY LockoutSafe, SmsSafe DEF AccountsInv, GuessesAreBounded
<1> QED
  BY <1>1, Invariant, PTL

\* A user who could sign in keeps a way to, whatever passkeys and identities are removed, linked
\* and taken over, unless two removals overlap (the removal of a passkey and of an identity).
THEOREM OneWayInStays == Spec => []KeepsOneWayIn
<1>1. AccountsInv => KeepsOneWayIn
  BY DEF AccountsInv, SignInInv, OneWayIn, KeepsOneWayIn, SignIn!KeepsOneWayIn
<1> QED
  BY <1>1, Invariant, PTL

\* An account is linked only to the user who began the linking, whoever the browser belongs to
\* when the provider answers (the linking callback), and no step of any behaviour takes the
\* signature counter of a passkey back (saveCredential after an authentication).
THEOREM LinkedToItsStarter == Spec => LinksItsStarter
<1>1. AccountsInv => (part = "sign-in methods" => SignIn!LinksItsStarter)
  BY DEF AccountsInv, SignInInv
<1>2. Spec => [](part = "sign-in methods" => SignIn!LinksItsStarter)
  BY <1>1, Invariant, PTL
<1>3. AccountsInv /\ [Next]_vars =>
        [\A p \in Passkey : passkeys[p] # None /\ passkeys'[p] # None
              => passkeys'[p].counter >= passkeys[p].counter]_(SignIn!vars)
  <2> SUFFICES ASSUME AccountsInv, Next, SignIn!vars' # SignIn!vars,
                      NEW p \in Passkey, passkeys[p] # None, passkeys'[p] # None
               PROVE  passkeys'[p].counter >= passkeys[p].counter
    BY DEF vars, siVars, SignIn!vars
  <2>1. part = "sign-in methods" /\ SignIn!Next
    BY DEF Next, siVars, SignIn!vars
  <2>2. SignInTypes
    BY <2>1 DEF AccountsInv, SignInInv
  <2> QED
    BY <2>1, <2>2, CounterNext
<1>4. Spec => SignIn!CounterNeverGoesBack
  BY <1>3, Invariant, PTL DEF Spec, SignIn!CounterNeverGoesBack
<1> QED
  BY <1>2, <1>4 DEF LinksItsStarter

\* The mobile client never makes the server end its session for a token that it replays, however
\* refreshes, sign-ins, requests and the sign-out cross in several processes, unless a rotated
\* token was lost on its way to the storage; and a sign-out that crossed nothing lasts until the
\* next sign-in (rotateAccessToken, handleCallback, signOut).
THEOREM NoReuseOfItsOwn == Spec => []NoSelfInflictedReuse
<1>1. AccountsInv => NoSelfInflictedReuse
  BY DEF AccountsInv, MobileInv, Out, NoSelfInflictedReuse, Mobile!SignedOutStaysOut
<1> QED
  BY <1>1, Invariant, PTL

\* A log nobody tampered with verifies, unless the sink broke its chain in one of the four ways
\* that the module names, and one that was tampered with does not, for every number of events and
\* every depth of the scan for the newest row (createTamperEvidentSink, verifyAuditChain).
THEOREM HonestLogVerifies == Spec => []UntamperedVerifies
<1>1. AccountsInv => UntamperedVerifies
  BY AuditSafe DEF AccountsInv, UntamperedVerifies
<1> QED
  BY <1>1, Invariant, PTL

\* A grant that says active holds the token that its provider honours: with the row lock always,
\* and without it where no two requests overlapped, unless consent was withdrawn or a process
\* died with a rotated token; and with the lock a dead grant comes back only when the person
\* authorizes again, however old the row that a request still holds (the three resolvers,
\* refreshAccessTokenLease, reportFailure).
THEOREM ActiveIsHonoured == Spec => ActiveMeansHonoured
<1>1. AccountsInv => (part = "linked providers" => Linked!ActiveMeansHonoured)
  BY LinkedSafe DEF AccountsInv
<1>2. Spec => [](part = "linked providers" => Linked!ActiveMeansHonoured)
  BY <1>1, Invariant, PTL
<1>3. AccountsInv /\ [Next]_vars =>
        [\A g \in Grant : (Linked!Locked /\ ~Linked!Usable(g) /\ Linked!Usable(g)')
              => links'[g] = links[g] + 1]_(Linked!vars)
  <2> SUFFICES ASSUME AccountsInv, Next, Linked!vars' # Linked!vars
               PROVE  \A g \in Grant : (Linked!Locked /\ ~Linked!Usable(g) /\ Linked!Usable(g)')
                          => links'[g] = links[g] + 1
    BY DEF vars, lpVars, Linked!vars
  <2>1. part = "linked providers" /\ Linked!Next
    BY DEF Next, lpVars, Linked!vars
  <2>2. LinkedInv
    BY <2>1 DEF AccountsInv
  <2> QED
    BY <2>1, <2>2, LinkedStep
<1>4. Spec => Linked!DeadUntilLinked
  BY <1>3, Invariant, PTL DEF Spec, Linked!DeadUntilLinked
<1> QED
  BY <1>2, <1>4 DEF ActiveMeansHonoured

===============================================================================

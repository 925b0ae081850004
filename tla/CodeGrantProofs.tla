--------------------------- MODULE CodeGrantProofs ---------------------------
(***************************************************************************)
(* Proofs about CodeGrant for every number of flows, clients, users and    *)
(* concurrent exchanges, every lifetime and every choice of which clients  *)
(* push their requests and ask for consent.                                *)
(***************************************************************************)
EXTENDS CodeGrant, TLAPS

(* The strengthening that makes the safety invariants inductive.           *)

\* A record that is not stored carries no expiry of its own.
UnusedIsEmpty == \A f \in Flow : codes[f].status = "unused" => codes[f] = Unused

\* A pushed request has been consumed once its user agent left the start page.
VisitConsumes ==
    \A f \in Flow : FlowClient[f] \in Pushes /\ browser[f] # "start" => pushed[f] = Gone

\* Until /authorize has answered, its flow has no code.
CodeComesLast ==
    \A f \in Flow : browser[f] \in Waiting \cup {"start", "login", "consent"} =>
        codes[f] = Unused

\* What a code yields passes through one place at a time: the code store, one exchange in
\* flight, the family.
CodeInOnePlace ==
    \A f \in Flow :
        /\ codes[f].status # "gone" => issued[f] = 0 /\ ~InFlight(f)
        /\ InFlight(f) => issued[f] = 0
        /\ \A x, y \in Exchange : exchanges[x] = f /\ exchanges[y] = f => x = y

\* What a revocation found idle has lost its code, and loses its family when the
\* revocation ends.
SweptIsDead ==
    \A f \in swept :
        /\ codes[f].status = "gone" /\ ~InFlight(f)
        /\ f \in families => FlowClient[f] = sweep

IInv ==
    /\ TypeOK
    /\ UnusedIsEmpty
    /\ VisitConsumes
    /\ CodeComesLast
    /\ CodeInOnePlace
    /\ CodeSingleUse
    /\ NoCodeWithoutConsent
    /\ SweptIsDead

------------------------------------------------------------------------------
(* Type correctness.                                                       *)

\* At first nothing is stored and every user agent is at its start page.
LEMMA TypeInit == Init => TypeOK
BY CodeAssumption DEF Init, TypeOK, Record, Unused, Pages

\* A record that was just stored, deleted or never written has its type.
LEMMA RecordsTyped ==
    ASSUME TypeOK
    PROVE  /\ Stored(now + ParTtl) \in Record(ParTtl)
           /\ Stored(CodeExpiry) \in Record(CodeTtl)
           /\ \A ttl \in Nat : Gone \in Record(ttl) /\ Unused \in Record(ttl)
BY CodeAssumption DEF TypeOK, Record, Stored, Gone, Unused, CodeExpiry

\* Deleting codes keeps the types of the rows.
LEMMA DeletedTyped ==
    ASSUME TypeOK, NEW fs, DeleteCodes(fs)
    PROVE  codes' \in [Flow -> Record(CodeTtl)]
BY RecordsTyped, CodeAssumption DEF TypeOK, DeleteCodes

\* Every step keeps the types of the stores, of the user agents and of the histories.
LEMMA TypeNext == TypeOK /\ [Next]_vars => TypeOK'
<1> SUFFICES ASSUME TypeOK, [Next]_vars PROVE TypeOK'
  OBVIOUS
<1> USE CodeAssumption DEF TypeOK, userVars, grantVars, exchangeVars
<1>1. ASSUME NEW u \in User, SignIn(u) \/ SignOut(u) PROVE TypeOK'
  BY <1>1 DEF SignIn, SignOut
<1>2. ASSUME NEW f \in Flow, GiveConsent(f) PROVE TypeOK'
  BY <1>2 DEF GiveConsent
<1>3. ASSUME NEW f \in Flow, Push(f) PROVE TypeOK'
  BY <1>3, RecordsTyped DEF Push
<1>4. ASSUME NEW f \in Flow, Authorize(f) PROVE TypeOK'
  BY <1>4, RecordsTyped DEF Authorize, Pages, Waiting
<1>a. ASSUME NEW f \in Flow, LoadSession(f) \/ AskConsent(f) PROVE TypeOK'
  BY <1>a DEF LoadSession, AskConsent, AfterConsent, Pages, Waiting
<1>5. ASSUME NEW f \in Flow, SaveCode(f) PROVE TypeOK'
  BY <1>5, RecordsTyped DEF SaveCode, Pages, Waiting
<1>6. ASSUME NEW x \in Exchange, NEW f \in Flow, NEW c \in Client, NEW proven \in BOOLEAN,
             ConsumeCode(x, f, c, proven)
      PROVE  TypeOK'
  BY <1>6, RecordsTyped DEF ConsumeCode, ConsumedCode
<1>7. ASSUME NEW x \in Exchange, SaveFamily(x) PROVE TypeOK'
  BY <1>7 DEF SaveFamily
<1>8. ASSUME NEW c \in Client, BeginSweep(c) PROVE TypeOK'
  BY <1>8, DeletedTyped DEF BeginSweep, DeleteStore, StoreSwept, Of
<1>9. CASE EndSweep
  BY <1>9, DeletedTyped DEF EndSweep, DeleteStore, StoreSwept
<1>10. ASSUME NEW u \in User, NEW c \in Client, DeleteForUserClient(u, c) PROVE TypeOK'
  BY <1>10, DeletedTyped DEF DeleteForUserClient
<1>11. CASE Crash
  BY <1>11 DEF Crash, Pages, Waiting
<1>12. CASE Tick
  BY <1>12 DEF Tick
<1>13. CASE UNCHANGED vars
  BY <1>13 DEF vars
<1> QED
  BY <1>1, <1>2, <1>3, <1>4, <1>a, <1>5, <1>6, <1>7, <1>8, <1>9, <1>10, <1>11, <1>12, <1>13
  DEF Next, Visit, Redeem, Revoke

------------------------------------------------------------------------------
(* The inductive invariant.                                                *)

\* At first no flow has a code, an exchange or a family.
LEMMA InvInit == Init => IInv
<1> SUFFICES ASSUME Init PROVE IInv
  OBVIOUS
<1>1. TypeOK
  BY TypeInit
<1>2. \A f \in Flow : codes[f] = Unused /\ browser[f] = "start" /\ issued[f] = 0 /\ ~InFlight(f)
  BY CodeAssumption DEF Init, InFlight
<1>3. families = {} /\ swept = {}
  BY DEF Init
<1> QED
  BY <1>1, <1>2, <1>3
  DEF IInv, UnusedIsEmpty, VisitConsumes, CodeComesLast, CodeInOnePlace, CodeSingleUse,
      NoCodeWithoutConsent, SweptIsDead, InFlight

\* Deleting codes leaves unwritten records alone and stores none.
LEMMA DeletedRow ==
    ASSUME NEW fs, DeleteCodes(fs)
    PROVE  \A f \in Flow :
             /\ codes'[f] = codes[f] \/ (codes[f].status = "stored" /\ codes'[f] = Gone)
             /\ f \in fs => codes'[f].status # "stored"
BY DEF DeleteCodes, Gone

\* Where the user agents are: a pushed request is read once, a code comes after it, and
\* /authorize gets as far as a code only with the consent that was to be asked for.
LEMMA BrowserNext ==
    IInv /\ [Next]_vars =>
        (UnusedIsEmpty /\ VisitConsumes /\ CodeComesLast /\ NoCodeWithoutConsent)'
<1> SUFFICES ASSUME IInv, [Next]_vars
             PROVE  (UnusedIsEmpty /\ VisitConsumes /\ CodeComesLast /\ NoCodeWithoutConsent)'
  OBVIOUS
<1> DEFINE Goal == (UnusedIsEmpty /\ VisitConsumes /\ CodeComesLast /\ NoCodeWithoutConsent)'
<1> USE CodeAssumption
    DEF IInv, TypeOK, UnusedIsEmpty, VisitConsumes, CodeComesLast, NoCodeWithoutConsent,
        Waiting, userVars, grantVars, exchangeVars
<1>1. ASSUME NEW u \in User, SignIn(u) \/ SignOut(u) PROVE Goal
  BY <1>1 DEF SignIn, SignOut
<1>2. ASSUME NEW f \in Flow, GiveConsent(f) PROVE Goal
  BY <1>2 DEF GiveConsent
<1>3. ASSUME NEW f \in Flow, Push(f) PROVE Goal
  BY <1>3 DEF Push
<1>4. ASSUME NEW f \in Flow, Authorize(f) PROVE Goal
  BY <1>4 DEF Authorize, Ready, Readable, Gone
<1>a. ASSUME NEW f \in Flow, LoadSession(f) \/ AskConsent(f) PROVE Goal
  BY <1>a DEF LoadSession, AskConsent, AfterConsent, NeedsConsent
<1>5. ASSUME NEW f \in Flow, SaveCode(f) PROVE Goal
  BY <1>5 DEF SaveCode, Stored
<1>6. ASSUME NEW x \in Exchange, NEW f \in Flow, NEW c \in Client, NEW proven \in BOOLEAN,
             ConsumeCode(x, f, c, proven)
      PROVE  Goal
  BY <1>6 DEF ConsumeCode, ConsumedCode, Gone, Unused
<1>7. ASSUME NEW x \in Exchange, SaveFamily(x) PROVE Goal
  BY <1>7 DEF SaveFamily
<1>8. ASSUME NEW fs, DeleteCodes(fs), UNCHANGED <<pushed, browser, consented>> PROVE Goal
  BY <1>8, DeletedRow DEF Gone, Unused
<1>9. ASSUME NEW c \in Client, BeginSweep(c) PROVE Goal
  BY <1>8, <1>9 DEF BeginSweep, DeleteStore, StoreSwept
<1>10. CASE EndSweep
  BY <1>10 DEF EndSweep, DeleteStore, StoreSwept
<1>11. ASSUME NEW u \in User, NEW c \in Client, DeleteForUserClient(u, c) PROVE Goal
  BY <1>8, <1>11 DEF DeleteForUserClient
<1>12. CASE Crash
  BY <1>12 DEF Crash
<1>13. CASE Tick
  BY <1>13 DEF Tick
<1>14. CASE UNCHANGED vars
  BY <1>14 DEF vars
<1> QED
  BY <1>1, <1>2, <1>3, <1>4, <1>a, <1>5, <1>6, <1>7, <1>9, <1>10, <1>11, <1>12, <1>13, <1>14
  DEF Next, Visit, Redeem, Revoke

\* Where a code and what it yields are: every step moves them from one place to the next.
LEMMA CodeNext ==
    IInv /\ [Next]_vars => (CodeInOnePlace /\ CodeSingleUse /\ SweptIsDead)'
<1> SUFFICES ASSUME IInv, [Next]_vars
             PROVE  (CodeInOnePlace /\ CodeSingleUse /\ SweptIsDead)'
  OBVIOUS
<1> DEFINE Goal == (CodeInOnePlace /\ CodeSingleUse /\ SweptIsDead)'
<1> USE CodeAssumption
    DEF IInv, TypeOK, CodeInOnePlace, CodeSingleUse, SweptIsDead, InFlight,
        userVars, grantVars, exchangeVars
<1>1. ASSUME UNCHANGED <<codes, exchanges, families, issued, sweep, swept>> PROVE Goal
  BY <1>1
<1>2. ASSUME NEW f \in Flow, SaveCode(f) PROVE Goal
  BY <1>2 DEF SaveCode, CodeComesLast, Waiting, Stored, Unused
<1>3. ASSUME NEW x \in Exchange, NEW f \in Flow, NEW c \in Client, NEW proven \in BOOLEAN,
             ConsumeCode(x, f, c, proven)
      PROVE  Goal
  BY <1>3 DEF ConsumeCode, ConsumedCode, Gone
<1>4. ASSUME NEW x \in Exchange, SaveFamily(x) PROVE Goal
  BY <1>4 DEF SaveFamily
<1>5. ASSUME NEW fs, DeleteCodes(fs), UNCHANGED <<exchanges, families, issued, sweep, swept>>
      PROVE  Goal
  BY <1>5, DeletedRow DEF Gone
<1>6. ASSUME NEW c \in Client, BeginSweep(c) PROVE Goal
  <2>1. DeleteCodes(Of(c)) /\ sweep' = c /\ UNCHANGED <<exchanges, families, issued>>
    BY <1>6 DEF BeginSweep, DeleteStore, StoreSwept
  <2>2. (CodeInOnePlace /\ CodeSingleUse)'
    BY <2>1, DeletedRow DEF Gone
  <2>3. ASSUME NEW f \in swept'
        PROVE  codes'[f].status = "gone" /\ ~InFlight(f)' /\ (f \in families' => FlowClient[f] = c)
    <3>1. CASE f \in swept \ Of(c)
      BY <1>6, <2>1, <3>1, DeletedRow DEF BeginSweep, Gone
    <3>2. CASE f \in Of(c) /\ codes[f] # Unused /\ ~InFlight(f)
      <4>1. codes[f].status \in {"stored", "gone"}
        BY <3>2 DEF Of, UnusedIsEmpty, Record
      <4>2. codes'[f].status = "gone"
        BY <2>1, <3>2, <4>1 DEF DeleteCodes, Of, Gone
      <4> QED
        BY <2>1, <3>2, <4>2 DEF Of
    <3> QED
      BY <1>6, <3>1, <3>2 DEF BeginSweep
  <2> QED
    BY <2>1, <2>2, <2>3
<1>7. CASE EndSweep
  BY <1>7 DEF EndSweep, DeleteStore, StoreSwept, Of
<1>8. CASE Crash
  BY <1>8 DEF Crash
<1>9. ASSUME NEW u \in User, NEW c \in Client, DeleteForUserClient(u, c) PROVE Goal
  BY <1>5, <1>9 DEF DeleteForUserClient
<1>10. ASSUME NEW f \in Flow,
              GiveConsent(f) \/ Push(f) \/ Authorize(f) \/ LoadSession(f) \/ AskConsent(f)
       PROVE  Goal
  BY <1>1, <1>10 DEF GiveConsent, Push, Authorize, LoadSession, AskConsent
<1>11. ASSUME NEW u \in User, SignIn(u) \/ SignOut(u) PROVE Goal
  BY <1>1, <1>11 DEF SignIn, SignOut
<1>12. CASE Tick \/ UNCHANGED vars
  BY <1>1, <1>12 DEF Tick, vars
<1> QED
  BY <1>2, <1>3, <1>4, <1>6, <1>7, <1>8, <1>9, <1>10, <1>11, <1>12
  DEF Next, Visit, Redeem, Revoke

THEOREM Invariant == Spec => []IInv
<1>1. IInv /\ [Next]_vars => IInv'
  BY TypeNext, BrowserNext, CodeNext DEF IInv
<1> QED
  BY InvInit, <1>1, PTL DEF Spec

------------------------------------------------------------------------------
(* What follows from the invariant.                                        *)

\* The stores, the requests and the histories always have the shape their types say.
THEOREM TypeCorrect == Spec => []TypeOK
BY Invariant, PTL DEF IInv

\* No code is issued to a client that the user was to be asked about and has not agreed
\* to, whatever detours, back buttons and crashes interleave (the authorize route).
THEOREM ConsentComesFirst == Spec => []NoCodeWithoutConsent
BY Invariant, PTL DEF IInv

\* Between two revocations, nothing is left of what a client had obtained when the last
\* one began, unless an exchange was in flight then (revokeOAuthClientCredentials).
THEOREM RevocationIsComplete == Spec => []OnlyInFlightEscapes
<1>1. IInv => OnlyInFlightEscapes
  BY CodeAssumption DEF IInv, TypeOK, SweptIsDead, OnlyInFlightEscapes
<1> QED
  BY <1>1, Invariant, PTL

\* No visit of a URL whose pushed request has been read gets past the endpoint.
LEMMA ReadOnce ==
    ASSUME TypeOK, [Next]_vars, NEW f \in Flow,
           FlowClient[f] \in Pushes, pushed[f] = Gone, browser[f] \notin Waiting
    PROVE  browser'[f] \in {browser[f], "error"}
<1> USE DEF TypeOK, Waiting, userVars, grantVars, exchangeVars
<1>1. ASSUME NEW g \in Flow, Authorize(g) PROVE browser'[f] \in {browser[f], "error"}
  BY <1>1 DEF Authorize, Readable, Gone
<1>2. ASSUME NEW g \in Flow, LoadSession(g) \/ AskConsent(g) \/ SaveCode(g)
      PROVE  browser'[f] \in {browser[f], "error"}
  BY <1>2 DEF LoadSession, AskConsent, SaveCode
<1>3. CASE Crash
  BY <1>3 DEF Crash
<1>4. CASE UNCHANGED browser
  BY <1>4
<1>5. CASE Redeem \/ Revoke \/ Tick \/ UNCHANGED vars
  BY <1>4, <1>5
  DEF Redeem, Revoke, ConsumeCode, SaveFamily, BeginSweep, EndSweep, DeleteForUserClient,
      Tick, vars
<1> QED
  BY <1>1, <1>2, <1>3, <1>4, <1>5 DEF Next, Visit, SignIn, SignOut, GiveConsent, Push

\* A code is exchanged at most once, however many requests present it, and a pushed
\* request is answered with at most one code, however often its URL is visited
\* (consumeCode, the authorize route).
THEOREM RedeemedOnce == Spec => CodesAndUrisPassOnce
<1> DEFINE Once == \A f \in Flow :
             FlowClient[f] \in Pushes /\ pushed[f] = Gone /\ browser[f] \notin Waiting =>
                 browser'[f] \in {browser[f], "error"}
<1>1. IInv /\ [Next]_vars => [Once]_vars
  BY ReadOnce DEF IInv
<1>2. IInv => TypeOK /\ CodeSingleUse
  BY DEF IInv
<1>3. Spec => [][Once]_vars
  BY <1>1, Invariant, PTL DEF Spec
<1>4. Spec => [](TypeOK /\ CodeSingleUse)
  BY <1>2, Invariant, PTL
<1> QED
  BY <1>3, <1>4 DEF CodesAndUrisPassOnce, RequestUriSingleUse, Once
=============================================================================

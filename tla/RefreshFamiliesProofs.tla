------------------------ MODULE RefreshFamiliesProofs ------------------------
(***************************************************************************)
(* Proofs about RefreshFamilies for every number of tokens, families,      *)
(* clients, users and concurrent requests, every lifetime, and both        *)
(* stores.                                                                 *)
(***************************************************************************)
EXTENDS RefreshFamilies, TLAPS

(* The strengthening that makes the safety invariants inductive.           *)

\* A family that is not stored has no row at all.
AbsentIsEmpty ==
    \A f \in Family : families[f].state = "absent" => families[f] = NoRow

\* A token that was exchanged is known and is never current again.
ExchangedIsSettled ==
    \A p \in rotations :
        /\ ~Fresh(p[1])
        /\ \A f \in Family : ~HoldsActive(f, p[1])

\* A family in which reuse was seen had been opened.
ReusedWasOpened == \A f \in reused : ~Unused(f)

ExpiryBounded == \A f \in Family : families[f].expiresAt <= now + Ttl

\* What a request that passed its checks still knows about its family.
CheckedRow(q) ==
    /\ q.family \in Family
    /\ mintedFor[q.token] = q.family
    /\ q.at <= now
    /\ families[q.family].state # "absent" =>
          /\ families[q.family].client = q.client
          /\ families[q.family].key # Unbound => families[q.family].key = q.key
    /\ HoldsActive(q.family, q.token) =>
          /\ q.at <= families[q.family].expiresAt
          /\ families[q.family].expiresAt <= q.at + Ttl

RequestsKnow ==
    \A r \in Request :
        /\ requests[r].pc # "idle" =>
              requests[r].token \in Token /\ ~Fresh(requests[r].token)
        /\ requests[r].pc = "rotate" => CheckedRow(requests[r])

IInv ==
    /\ TypeOK
    /\ AbsentIsEmpty
    /\ RemembersEveryToken
    /\ ExchangedIsSettled
    /\ RotatedAtMostOnce
    /\ ReusedWasOpened
    /\ ReuseEndsFamily
    /\ ExpiryBounded
    /\ RequestsKnow

------------------------------------------------------------------------------
(* Type correctness.                                                       *)

\* Before the first grant the table and every request have their types.
LEMMA TypeInit == Init => TypeOK
BY ConstantsAssumption DEF Init, TypeOK, Row, NoRow, Pending, Time

\* Every handler step keeps the types of the rows and of the requests in flight.
LEMMA TypeNext == TypeOK /\ [Next]_vars => TypeOK'
<1> SUFFICES ASSUME TypeOK, [Next]_vars PROVE TypeOK'
  OBVIOUS
<1> USE ConstantsAssumption DEF TypeOK, Row, Time
<1>1. ASSUME NEW f \in Family, NEW t \in Token, NEW c \in Client, NEW u \in User,
             NEW k \in Key, OpenFamily(f, t, c, u, k)
      PROVE  TypeOK'
  BY <1>1 DEF OpenFamily
<1>2. ASSUME NEW r \in Request, NEW t \in Token, NEW c \in Client, NEW k \in Key,
             PresentToken(r, t, c, k)
      PROVE  TypeOK'
  BY <1>2 DEF PresentToken, Pending
<1>3. ASSUME NEW r \in Request, LookupToken(r) PROVE TypeOK'
  <2> DEFINE InFlight == [pc : {"lookup", "reuse", "rotate"}, token : Token,
                          client : Client, key : Key,
                          family : Family \cup {None}, at : 0 .. MaxTime]
  <2>1. requests[r] \in InFlight
    <3>1. requests[r] \in Pending
      OBVIOUS
    <3>2. requests[r].pc = "lookup"
      BY <1>3 DEF LookupToken
    <3> QED
      BY <3>1, <3>2 DEF Idle, Pending
  <2>2. \A f \in Family :
          [requests[r] EXCEPT !.pc = "rotate", !.family = f, !.at = now] \in InFlight
    BY <2>1
  <2>3. [requests[r] EXCEPT !.pc = "reuse"] \in InFlight
    BY <2>1
  <2>4. InFlight \subseteq Pending /\ Idle \in Pending
    BY DEF Pending
  <2> HIDE DEF InFlight
  <2>5. requests' \in [Request -> Pending]
    BY <1>3, <2>2, <2>3, <2>4 DEF LookupToken
  <2> QED
    BY <1>3, <2>5 DEF LookupToken
<1>4. ASSUME NEW r \in Request, RevokeByConsumedToken(r) PROVE TypeOK'
  BY <1>4 DEF RevokeByConsumedToken, RevokedByReuse, SeenReuse, Pending
<1>5. ASSUME NEW r \in Request, NEW t \in Token, RotateToken(r, t) PROVE TypeOK'
  <2>1. /\ requests[r].token \in Token
        /\ requests[r].family \in Family \cup {None}
        /\ requests[r].at \in 0 .. MaxTime
    BY <1>5 DEF RotateToken, Idle, Pending
  <2>2. requests' \in [Request -> Pending]
    BY <1>5 DEF RotateToken, Pending
  <2>3. \A f \in Family : Exchanged(families[f], requests[r], t) \in Row
    <3> SUFFICES ASSUME NEW f \in Family
                 PROVE  Exchanged(families[f], requests[r], t) \in Row
      OBVIOUS
    <3>1. families[f] \in Row
      OBVIOUS
    <3>2. requests[r].at + Ttl \in Time
      BY <2>1
    <3> QED
      BY <2>1, <3>1, <3>2 DEF Exchanged
  <2>4. \A f \in Family : [families[f] EXCEPT !.state = "revoked"] \in Row
    OBVIOUS
  <2>5. families' \in [Family -> Row]
    <3> HIDE DEF Row
    <3>1. CASE \E f \in Family : families' = [families EXCEPT
                    ![f] = Exchanged(@, requests[r], t)]
      BY <3>1, <2>3
    <3>2. CASE families' = RevokedByReuse(requests[r].token)
      BY <3>2, <2>4 DEF RevokedByReuse
    <3> QED
      BY <1>5, <3>1, <3>2 DEF RotateToken
  <2>6. rotations' \subseteq Token \X Token /\ reused' \subseteq Family
    BY <1>5, <2>1 DEF RotateToken, SeenReuse
  <2>7. mintedFor' \in [Token -> Family \cup {None}] /\ now' \in 0 .. MaxTime
    BY <1>5, <2>1 DEF RotateToken
  <2> QED
    BY <2>2, <2>5, <2>6, <2>7
<1>6. ASSUME NEW fs, Delete(fs) PROVE TypeOK'
  BY <1>6 DEF Delete, NoRow
<1>7. CASE Crash
  BY <1>7 DEF Crash, Pending, NoRow
<1>8. CASE Tick
  BY <1>8 DEF Tick
<1>9. CASE UNCHANGED vars
  BY <1>9 DEF vars
<1> QED
  BY <1>1, <1>2, <1>3, <1>4, <1>5, <1>6, <1>7, <1>8, <1>9
  DEF Next, Grant, Revocation, RevokeToken, RevokeFamily, DeleteForUser,
      DeleteForUserClient, DeleteForClient

\* The rows, requests and histories always have the shape their types say.
THEOREM TypeCorrect == Spec => []TypeOK
BY TypeInit, TypeNext, PTL DEF Spec

------------------------------------------------------------------------------
(* The safety invariants.                                                  *)

\* The empty table satisfies the inductive invariant.
LEMMA InvInit == Init => IInv
BY TypeInit, ConstantsAssumption
DEF Init, IInv, AbsentIsEmpty, RemembersEveryToken, ExchangedIsSettled,
    RotatedAtMostOnce, ReusedWasOpened, ReuseEndsFamily, ExpiryBounded, RequestsKnow,
    NoRow, Idle

\* Revocation on reuse changes nothing of a row but its state, and only to "revoked".
LEMMA RevokedRow ==
    ASSUME TypeOK, AbsentIsEmpty, NEW t \in Token, NEW f \in Family
    PROVE  LET row == RevokedByReuse(t)[f] IN
           /\ row.token = families[f].token /\ row.consumed = families[f].consumed
           /\ row.client = families[f].client /\ row.user = families[f].user
           /\ row.key = families[f].key /\ row.expiresAt = families[f].expiresAt
           /\ row.state = IF t \in families[f].consumed THEN "revoked"
                          ELSE families[f].state
           /\ row.state = "absent" <=> families[f].state = "absent"
           /\ row.state = "absent" => row = NoRow
<1>1. families[f] \in Row
  BY DEF TypeOK
<1>2. families[f].state = "absent" => t \notin families[f].consumed /\ families[f] = NoRow
  BY DEF AbsentIsEmpty, NoRow
<1> QED
  BY <1>1, <1>2 DEF RevokedByReuse, HoldsConsumed, Row

\* Both ways of meeting a consumed token keep the invariant.
LEMMA RevocationKeeps ==
    ASSUME IInv, TypeOK', NEW r \in Request, NEW t \in Token,
           families' = RevokedByReuse(t), reused' = SeenReuse(t),
           requests' = [requests EXCEPT ![r] = Idle],
           UNCHANGED <<now, mintedFor, rotations>>
    PROVE  IInv'
<1> USE ConstantsAssumption DEF Active, HoldsActive, HoldsConsumed, Fresh, Unused
<1>0. TypeOK /\ AbsentIsEmpty
  BY DEF IInv
<1>a. \A f \in Family :
        /\ families'[f].token = families[f].token
        /\ families'[f].consumed = families[f].consumed
        /\ families'[f].client = families[f].client
        /\ families'[f].key = families[f].key
        /\ families'[f].expiresAt = families[f].expiresAt
        /\ families'[f].state = IF t \in families[f].consumed THEN "revoked"
                                ELSE families[f].state
        /\ families'[f].state = "absent" <=> families[f].state = "absent"
        /\ families'[f].state = "absent" => families'[f] = NoRow
  BY <1>0, RevokedRow
<1>1. AbsentIsEmpty'
  BY <1>0, <1>a DEF IInv, AbsentIsEmpty
<1>2. RemembersEveryToken'
  BY <1>0, <1>a DEF IInv, RemembersEveryToken
<1>3. ExchangedIsSettled'
  BY <1>0, <1>a DEF IInv, TypeOK, ExchangedIsSettled
<1>4. RotatedAtMostOnce'
  BY <1>0, <1>a DEF IInv, RotatedAtMostOnce
<1>5. ReusedWasOpened'
  BY <1>0, <1>a DEF IInv, RemembersEveryToken, ReusedWasOpened, SeenReuse
<1>6. ReuseEndsFamily'
  BY <1>0, <1>a DEF IInv, TypeOK, ReuseEndsFamily, SeenReuse
<1>7. ExpiryBounded'
  BY <1>0, <1>a DEF IInv, ExpiryBounded
<1>8. RequestsKnow'
  BY <1>0, <1>a DEF IInv, TypeOK, Pending, Idle, RequestsKnow, CheckedRow
<1> QED
  BY <1>1, <1>2, <1>3, <1>4, <1>5, <1>6, <1>7, <1>8 DEF IInv

\* An exchange by a checked request concerns the family the request was checked on.
LEMMA ExchangedRow ==
    ASSUME IInv, NEW r \in Request, requests[r].pc = "rotate",
           NEW f \in Family, Exchangeable(r, f), NEW t \in Token, Fresh(t)
    PROVE  LET row == Exchanged(families[f], requests[r], t)
               q == requests[r] IN
           /\ q.token \in Token /\ q.token # t
           /\ q.family = f /\ mintedFor[q.token] = f
           /\ families[f].state = "active" /\ families[f].token = q.token
           /\ row.state = "active" /\ row.token = t
           /\ row.consumed = families[f].consumed \cup {q.token}
           /\ row.client = families[f].client /\ row.key = families[f].key
           /\ row.expiresAt = q.at + Ttl
           /\ q.at \in Nat /\ q.at <= now /\ families[f].expiresAt <= q.at + Ttl
<1> USE ConstantsAssumption
<1>1. families[f] \in Row
  BY DEF IInv, TypeOK
<1>2. /\ requests[r] \in Pending /\ requests[r].token \in Token
      /\ ~Fresh(requests[r].token) /\ CheckedRow(requests[r])
  BY DEF IInv, TypeOK, RequestsKnow
<1>3. requests[r].at \in Nat
  BY <1>2 DEF Pending, Idle
<1>4. families[f].state = "active" /\ families[f].token = requests[r].token
  BY DEF Exchangeable, HoldsActive, Active
<1>5. mintedFor[requests[r].token] = f
  BY <1>2, <1>4 DEF IInv, RemembersEveryToken
<1>6. requests[r].family = f /\ HoldsActive(f, requests[r].token)
  BY <1>2, <1>4, <1>5 DEF CheckedRow, HoldsActive, Active
<1>7. requests[r].at <= now /\ families[f].expiresAt <= requests[r].at + Ttl
  BY <1>2, <1>6 DEF CheckedRow
<1>8. requests[r].token # t
  BY <1>2
<1> QED
  BY <1>1, <1>2, <1>3, <1>4, <1>5, <1>6, <1>7, <1>8 DEF Exchanged, Row

\* Every grant, step of an exchange, revocation and tick keeps the inductive invariant.
LEMMA InvNext == IInv /\ [Next]_vars => IInv'
<1> SUFFICES ASSUME IInv, [Next]_vars PROVE IInv'
  OBVIOUS
<1>0. TypeOK'
  BY TypeNext DEF IInv
<1> USE ConstantsAssumption DEF Active, HoldsActive, HoldsConsumed, Fresh, Unused
<1>1. ASSUME NEW f \in Family, NEW t \in Token, NEW c \in Client, NEW u \in User,
             NEW k \in Key, OpenFamily(f, t, c, u, k)
      PROVE  IInv'
  <2>1. AbsentIsEmpty'
    BY <1>1 DEF IInv, OpenFamily, TypeOK, Row, NoRow, AbsentIsEmpty
  <2>2. RemembersEveryToken'
    BY <1>1 DEF IInv, OpenFamily, TypeOK, Row, NoRow, AbsentIsEmpty, RemembersEveryToken
  <2>3. ExchangedIsSettled'
    BY <1>1
    DEF IInv, OpenFamily, TypeOK, Row, NoRow, RemembersEveryToken, ExchangedIsSettled
  <2>4. RotatedAtMostOnce'
    BY <1>1 DEF IInv, OpenFamily, TypeOK, ExchangedIsSettled, RotatedAtMostOnce
  <2>5. ReusedWasOpened'
    BY <1>1
    DEF IInv, OpenFamily, TypeOK, NoRow, AbsentIsEmpty, RemembersEveryToken,
        ReusedWasOpened
  <2>6. ReuseEndsFamily'
    BY <1>1
    DEF IInv, OpenFamily, TypeOK, Row, NoRow, AbsentIsEmpty, RemembersEveryToken,
        ReusedWasOpened, ReuseEndsFamily
  <2>7. ExpiryBounded'
    BY <1>1
    DEF IInv, OpenFamily, TypeOK, Row, Time, NoRow, Pending, RequestsKnow, ExpiryBounded
  <2>8. RequestsKnow'
    BY <1>1
    DEF IInv, OpenFamily, TypeOK, Row, Pending, Idle, NoRow, RequestsKnow, CheckedRow
  <2> QED
    BY <1>0, <2>1, <2>2, <2>3, <2>4, <2>5, <2>6, <2>7, <2>8 DEF IInv
<1>2. ASSUME NEW r \in Request, NEW t \in Token, NEW c \in Client, NEW k \in Key,
             PresentToken(r, t, c, k)
      PROVE  IInv'
  <2>1. AbsentIsEmpty'
    BY <1>2 DEF IInv, PresentToken, TypeOK, Row, NoRow, AbsentIsEmpty
  <2>2. RemembersEveryToken'
    BY <1>2
    DEF IInv, PresentToken, TypeOK, Row, NoRow, AbsentIsEmpty, RemembersEveryToken
  <2>3. ExchangedIsSettled'
    BY <1>2
    DEF IInv, PresentToken, TypeOK, Row, NoRow, RemembersEveryToken, ExchangedIsSettled
  <2>4. RotatedAtMostOnce'
    BY <1>2 DEF IInv, PresentToken, TypeOK, ExchangedIsSettled, RotatedAtMostOnce
  <2>5. ReusedWasOpened'
    BY <1>2
    DEF IInv, PresentToken, TypeOK, NoRow, AbsentIsEmpty, RemembersEveryToken,
        ReusedWasOpened
  <2>6. ReuseEndsFamily'
    BY <1>2
    DEF IInv, PresentToken, TypeOK, Row, NoRow, AbsentIsEmpty, RemembersEveryToken,
        ReusedWasOpened, ReuseEndsFamily
  <2>7. ExpiryBounded'
    BY <1>2
    DEF IInv, PresentToken, TypeOK, Row, Time, NoRow, Pending, RequestsKnow,
        ExpiryBounded
  <2>8. RequestsKnow'
    BY <1>2
    DEF IInv, PresentToken, TypeOK, Row, Pending, Idle, NoRow, RequestsKnow, CheckedRow
  <2> QED
    BY <1>0, <2>1, <2>2, <2>3, <2>4, <2>5, <2>6, <2>7, <2>8 DEF IInv
<1>3. ASSUME NEW r \in Request, LookupToken(r)
      PROVE  IInv'
  <2>1. AbsentIsEmpty'
    BY <1>3 DEF IInv, LookupToken, Acceptable, TypeOK, Row, NoRow, AbsentIsEmpty
  <2>2. RemembersEveryToken'
    BY <1>3
    DEF IInv, LookupToken, Acceptable, TypeOK, Row, NoRow, AbsentIsEmpty,
        RemembersEveryToken
  <2>3. ExchangedIsSettled'
    BY <1>3
    DEF IInv, LookupToken, Acceptable, TypeOK, Row, NoRow, RemembersEveryToken,
        ExchangedIsSettled
  <2>4. RotatedAtMostOnce'
    BY <1>3
    DEF IInv, LookupToken, Acceptable, TypeOK, ExchangedIsSettled, RotatedAtMostOnce
  <2>5. ReusedWasOpened'
    BY <1>3
    DEF IInv, LookupToken, Acceptable, TypeOK, NoRow, AbsentIsEmpty,
        RemembersEveryToken, ReusedWasOpened
  <2>6. ReuseEndsFamily'
    BY <1>3
    DEF IInv, LookupToken, Acceptable, TypeOK, Row, NoRow, AbsentIsEmpty,
        RemembersEveryToken, ReusedWasOpened, ReuseEndsFamily
  <2>7. ExpiryBounded'
    BY <1>3
    DEF IInv, LookupToken, Acceptable, TypeOK, Row, Time, NoRow, Pending, RequestsKnow,
        ExpiryBounded
  <2>8. RequestsKnow'
    <3> DEFINE q == requests[r]
    <3>1. q.pc = "lookup" /\ q \in Pending /\ q.token \in Token /\ ~Fresh(q.token)
      BY <1>3 DEF LookupToken, IInv, TypeOK, RequestsKnow
    <3>2. ASSUME NEW f \in Family, HoldsActive(f, q.token),
                 Acceptable(families[f], q),
                 requests' = [requests EXCEPT ![r] =
                     [@ EXCEPT !.pc = "rotate", !.family = f, !.at = now]]
          PROVE  RequestsKnow'
      <4>1. /\ requests'[r].pc = "rotate" /\ requests'[r].token = q.token
            /\ requests'[r].client = q.client /\ requests'[r].key = q.key
            /\ requests'[r].family = f /\ requests'[r].at = now
        BY <3>1, <3>2 DEF IInv, TypeOK, Pending, Idle
      <4>2. mintedFor[q.token] = f
        BY <3>1, <3>2 DEF IInv, RemembersEveryToken
      <4>3. /\ now \in Nat /\ families[f].expiresAt \in Nat
            /\ families[f].expiresAt <= now + Ttl
        BY DEF IInv, TypeOK, Row, Time, ExpiryBounded
      <4>4. /\ now <= families[f].expiresAt /\ families[f].client = q.client
            /\ families[f].key # Unbound => families[f].key = q.key
        BY <3>2, <4>3 DEF Acceptable
      <4>5. UNCHANGED <<now, families, mintedFor>>
        BY <1>3 DEF LookupToken
      <4>6. CheckedRow(requests[r])'
        BY <4>1, <4>2, <4>3, <4>4, <4>5 DEF CheckedRow
      <4>7. \A s \in Request : s # r => requests'[s] = requests[s]
        BY <3>2 DEF IInv, TypeOK
      <4> QED
        BY <3>1, <4>1, <4>5, <4>6, <4>7 DEF IInv, RequestsKnow, CheckedRow
    <3>3. ASSUME requests' = [requests EXCEPT ![r] = Idle] PROVE RequestsKnow'
      BY <1>3, <3>3 DEF LookupToken, IInv, TypeOK, Idle, RequestsKnow, CheckedRow
    <3>4. ASSUME requests' = [requests EXCEPT ![r].pc = "reuse"] PROVE RequestsKnow'
      BY <1>3, <3>1, <3>4
      DEF LookupToken, IInv, TypeOK, Pending, Idle, RequestsKnow, CheckedRow
    <3> QED
      BY <1>3, <3>2, <3>3, <3>4 DEF LookupToken
  <2> QED
    BY <1>0, <2>1, <2>2, <2>3, <2>4, <2>5, <2>6, <2>7, <2>8 DEF IInv
<1>4. ASSUME NEW r \in Request, RevokeByConsumedToken(r)
      PROVE  IInv'
  <2>1. requests[r].token \in Token
    BY <1>4 DEF RevokeByConsumedToken, IInv, RequestsKnow
  <2> QED
    BY <1>0, <1>4, <2>1, RevocationKeeps DEF RevokeByConsumedToken
<1>5. ASSUME NEW r \in Request, NEW t \in Token, RotateToken(r, t)
      PROVE  IInv'
  <2> DEFINE presented == requests[r].token
  <2>0. /\ presented \in Token /\ requests[r].pc = "rotate" /\ Fresh(t)
        /\ requests' = [requests EXCEPT ![r] = Idle] /\ now' = now
        /\ TypeOK /\ AbsentIsEmpty
    BY <1>5 DEF RotateToken, IInv, RequestsKnow
  <2>1. ASSUME NEW f \in Family, Exchangeable(r, f),
               families' = [families EXCEPT ![f] = Exchanged(@, requests[r], t)],
               mintedFor' = [mintedFor EXCEPT ![t] = requests[r].family],
               rotations' = rotations \cup {<<presented, t>>}, reused' = reused
        PROVE  IInv'
    <3> DEFINE row == Exchanged(families[f], requests[r], t)
    <3>0. /\ families'[f] = row
          /\ \A g \in Family : g # f => families'[g] = families[g]
          /\ mintedFor'[t] = f
          /\ \A s \in Token : s # t => mintedFor'[s] = mintedFor[s]
          /\ mintedFor[t] = None
      BY <2>0, <2>1, ExchangedRow DEF TypeOK
    <3>a. /\ presented # t /\ mintedFor[presented] = f
          /\ families[f].state = "active" /\ families[f].token = presented
          /\ row.state = "active" /\ row.token = t
          /\ row.consumed = families[f].consumed \cup {presented}
          /\ row.client = families[f].client /\ row.key = families[f].key
          /\ row.expiresAt = requests[r].at + Ttl
          /\ requests[r].at \in Nat /\ requests[r].at <= now
      BY <2>0, <2>1, ExchangedRow
    <3> HIDE DEF row, presented
    <3>1. AbsentIsEmpty'
      BY <2>0, <2>1, <3>0, <3>a DEF IInv, AbsentIsEmpty
    <3>2. RemembersEveryToken'
      BY <2>0, <2>1, <3>0, <3>a DEF IInv, RemembersEveryToken
    <3>3. ExchangedIsSettled'
      BY <2>0, <2>1, <3>0, <3>a
      DEF IInv, TypeOK, RemembersEveryToken, ExchangedIsSettled
    <3>4. RotatedAtMostOnce'
      BY <2>0, <2>1, <3>0, <3>a DEF IInv, TypeOK, ExchangedIsSettled, RotatedAtMostOnce
    <3>5. ReusedWasOpened'
      BY <2>0, <2>1, <3>0, <3>a DEF IInv, TypeOK, ReusedWasOpened
    <3>6. ReuseEndsFamily'
      BY <2>0, <2>1, <3>0, <3>a DEF IInv, ReusedWasOpened, ReuseEndsFamily
    <3>7. ExpiryBounded'
      BY <2>0, <2>1, <3>0, <3>a DEF IInv, TypeOK, Time, ExpiryBounded
    <3>8. RequestsKnow'
      BY <2>0, <2>1, <3>0, <3>a
      DEF IInv, TypeOK, Pending, Idle, RequestsKnow, CheckedRow
    <3> QED
      BY <1>0, <3>1, <3>2, <3>3, <3>4, <3>5, <3>6, <3>7, <3>8 DEF IInv
  <2>2. ASSUME families' = RevokedByReuse(presented), reused' = SeenReuse(presented),
               UNCHANGED <<mintedFor, rotations>>
        PROVE  IInv'
    BY <1>0, <2>0, <2>2, RevocationKeeps
  <2> QED
    BY <1>5, <2>1, <2>2 DEF RotateToken
<1>6. ASSUME NEW fs, Delete(fs)
      PROVE  IInv'
  <2>1. AbsentIsEmpty'
    BY <1>6 DEF IInv, Delete, TypeOK, Row, NoRow, AbsentIsEmpty
  <2>2. RemembersEveryToken'
    BY <1>6 DEF IInv, Delete, TypeOK, Row, NoRow, AbsentIsEmpty, RemembersEveryToken
  <2>3. ExchangedIsSettled'
    BY <1>6
    DEF IInv, Delete, TypeOK, Row, NoRow, RemembersEveryToken, ExchangedIsSettled
  <2>4. RotatedAtMostOnce'
    BY <1>6 DEF IInv, Delete, TypeOK, ExchangedIsSettled, RotatedAtMostOnce
  <2>5. ReusedWasOpened'
    BY <1>6
    DEF IInv, Delete, TypeOK, NoRow, AbsentIsEmpty, RemembersEveryToken, ReusedWasOpened
  <2>6. ReuseEndsFamily'
    BY <1>6
    DEF IInv, Delete, TypeOK, Row, NoRow, AbsentIsEmpty, RemembersEveryToken,
        ReusedWasOpened, ReuseEndsFamily
  <2>7. ExpiryBounded'
    BY <1>6
    DEF IInv, Delete, TypeOK, Row, Time, NoRow, Pending, RequestsKnow, ExpiryBounded
  <2>8. RequestsKnow'
    BY <1>6
    DEF IInv, Delete, TypeOK, Row, Pending, Idle, NoRow, RequestsKnow, CheckedRow
  <2> QED
    BY <1>0, <2>1, <2>2, <2>3, <2>4, <2>5, <2>6, <2>7, <2>8 DEF IInv
<1>7. ASSUME Crash PROVE IInv'
  <2>1. AbsentIsEmpty'
    BY <1>7 DEF IInv, Crash, TypeOK, Row, NoRow, AbsentIsEmpty
  <2>2. RemembersEveryToken'
    BY <1>7 DEF IInv, Crash, TypeOK, Row, NoRow, AbsentIsEmpty, RemembersEveryToken
  <2>3. ExchangedIsSettled'
    BY <1>7 DEF IInv, Crash, TypeOK, Row, NoRow, RemembersEveryToken, ExchangedIsSettled
  <2>4. RotatedAtMostOnce'
    BY <1>7 DEF IInv, Crash, TypeOK, ExchangedIsSettled, RotatedAtMostOnce
  <2>5. ReusedWasOpened'
    BY <1>7
    DEF IInv, Crash, TypeOK, NoRow, AbsentIsEmpty, RemembersEveryToken, ReusedWasOpened
  <2>6. ReuseEndsFamily'
    BY <1>7
    DEF IInv, Crash, TypeOK, Row, NoRow, AbsentIsEmpty, RemembersEveryToken,
        ReusedWasOpened, ReuseEndsFamily
  <2>7. ExpiryBounded'
    BY <1>7
    DEF IInv, Crash, TypeOK, Row, Time, NoRow, Pending, RequestsKnow, ExpiryBounded
  <2>8. RequestsKnow'
    BY <1>7 DEF IInv, Crash, TypeOK, Row, Pending, Idle, NoRow, RequestsKnow, CheckedRow
  <2> QED
    BY <1>0, <2>1, <2>2, <2>3, <2>4, <2>5, <2>6, <2>7, <2>8 DEF IInv
<1>8. ASSUME Tick PROVE IInv'
  <2>1. AbsentIsEmpty'
    BY <1>8 DEF IInv, Tick, TypeOK, Row, NoRow, AbsentIsEmpty
  <2>2. RemembersEveryToken'
    BY <1>8 DEF IInv, Tick, TypeOK, Row, NoRow, AbsentIsEmpty, RemembersEveryToken
  <2>3. ExchangedIsSettled'
    BY <1>8 DEF IInv, Tick, TypeOK, Row, NoRow, RemembersEveryToken, ExchangedIsSettled
  <2>4. RotatedAtMostOnce'
    BY <1>8 DEF IInv, Tick, TypeOK, ExchangedIsSettled, RotatedAtMostOnce
  <2>5. ReusedWasOpened'
    BY <1>8
    DEF IInv, Tick, TypeOK, NoRow, AbsentIsEmpty, RemembersEveryToken, ReusedWasOpened
  <2>6. ReuseEndsFamily'
    BY <1>8
    DEF IInv, Tick, TypeOK, Row, NoRow, AbsentIsEmpty, RemembersEveryToken,
        ReusedWasOpened, ReuseEndsFamily
  <2>7. ExpiryBounded'
    BY <1>8
    DEF IInv, Tick, TypeOK, Row, Time, NoRow, Pending, RequestsKnow, ExpiryBounded
  <2>8. RequestsKnow'
    BY <1>8 DEF IInv, Tick, TypeOK, Row, Pending, Idle, NoRow, RequestsKnow, CheckedRow
  <2> QED
    BY <1>0, <2>1, <2>2, <2>3, <2>4, <2>5, <2>6, <2>7, <2>8 DEF IInv
<1>9. CASE UNCHANGED vars
  BY <1>0, <1>9
  DEF vars, IInv, AbsentIsEmpty, RemembersEveryToken, ExchangedIsSettled,
      RotatedAtMostOnce, ReusedWasOpened, ReuseEndsFamily, ExpiryBounded, RequestsKnow,
      CheckedRow
<1> QED
  BY <1>1, <1>2, <1>3, <1>4, <1>5, <1>6, <1>7, <1>8, <1>9
  DEF Next, Grant, Revocation, RevokeToken, RevokeFamily, DeleteForUser,
      DeleteForUserClient, DeleteForClient

\* The inductive invariant holds in every reachable state of the token endpoint: the
\* safety theorems below are read off it.
THEOREM Invariant == Spec => []IInv
BY InvInit, InvNext, PTL DEF Spec

\* Every stored family remembers every token handed out for it.
THEOREM FamiliesRememberTokens == Spec => []RemembersEveryToken
BY Invariant, PTL DEF IInv

\* However requests interleave, a refresh token is exchanged at most once.
THEOREM NoTokenRotatesTwice == Spec => []RotatedAtMostOnce
BY Invariant, PTL DEF IInv

\* A family in which a consumed token was presented is never honoured again.
THEOREM ReuseIsFatal == Spec => []ReuseEndsFamily
BY Invariant, PTL DEF IInv

\* The row a request was checked against still justifies the exchange it makes.
THEOREM ChecksOutliveAwaits == Spec => []StaleRowStillHolds
<1>1. IInv => StaleRowStillHolds
  BY DEF IInv, TypeOK, RequestsKnow, CheckedRow, RemembersEveryToken,
         StaleRowStillHolds, HoldsActive, Active
<1> QED
  BY <1>1, Invariant, PTL

------------------------------------------------------------------------------
(* What a step may never do.                                               *)

NoShrink == \A f \in Family : Active(f) /\ Active(f)' =>
                families'[f].expiresAt >= families[f].expiresAt

\* No single step moves the expiry of a family that stays active backwards: the
\* re-check of exchangeRefreshToken compares the new expiry with the locked row's.
LEMMA StepNeverShrinks == IInv /\ [Next]_vars => NoShrink
<1> SUFFICES ASSUME IInv, [Next]_vars, NEW f \in Family, Active(f), Active(f)'
             PROVE  families'[f].expiresAt >= families[f].expiresAt
  BY DEF NoShrink
<1> USE ConstantsAssumption
<1>0. /\ families[f] \in Row /\ families[f].expiresAt \in Nat
      /\ TypeOK /\ AbsentIsEmpty
  BY DEF IInv, TypeOK, Row, Time
<1>1. ASSUME families'[f] = families[f]
      PROVE  families'[f].expiresAt >= families[f].expiresAt
  BY <1>0, <1>1
<1>2. ASSUME NEW t \in Token, families' = RevokedByReuse(t)
      PROVE  families'[f].expiresAt >= families[f].expiresAt
  BY <1>0, <1>2, RevokedRow
<1>3. ASSUME NEW g \in Family, NEW t \in Token, NEW c \in Client, NEW u \in User,
             NEW k \in Key, OpenFamily(g, t, c, u, k)
      PROVE  families'[f] = families[f]
  <2>1. families[g].state # "active"
    BY <1>3 DEF OpenFamily, Unused, IInv, TypeOK, Row, RemembersEveryToken
  <2> QED
    BY <1>3, <2>1 DEF OpenFamily, Active, IInv, TypeOK
<1>4. ASSUME NEW r \in Request, NEW t \in Token, RotateToken(r, t)
      PROVE  families'[f].expiresAt >= families[f].expiresAt
  <2>0. requests[r].pc = "rotate" /\ Fresh(t) /\ requests[r].token \in Token
    BY <1>4 DEF RotateToken, IInv, RequestsKnow
  <2>1. ASSUME NEW g \in Family, Exchangeable(r, g),
               families' = [families EXCEPT ![g] = Exchanged(@, requests[r], t)]
        PROVE  families'[f].expiresAt >= families[f].expiresAt
    <3>1. CASE f = g
      <4>1. families'[f] = Exchanged(families[g], requests[r], t)
        BY <2>1, <3>1, <1>0 DEF TypeOK
      <4>2. /\ Exchanged(families[g], requests[r], t).expiresAt = requests[r].at + Ttl
            /\ requests[r].at \in Nat /\ families[g].expiresAt <= requests[r].at + Ttl
        BY <2>0, <2>1, ExchangedRow
      <4> QED
        BY <1>0, <3>1, <4>1, <4>2
    <3>2. CASE f # g
      BY <1>0, <1>1, <2>1, <3>2 DEF TypeOK
    <3> QED
      BY <3>1, <3>2
  <2> QED
    BY <1>2, <1>4, <2>0, <2>1 DEF RotateToken
<1>5. ASSUME NEW r \in Request, RevokeByConsumedToken(r)
      PROVE  families'[f].expiresAt >= families[f].expiresAt
  BY <1>2, <1>5 DEF RevokeByConsumedToken, IInv, RequestsKnow
<1>6. ASSUME NEW fs, Delete(fs) PROVE families'[f] = families[f]
  BY <1>6 DEF Delete, Active, NoRow
<1>7. CASE Crash
  <2>1. families'[f] = families[f]
    BY <1>7 DEF Crash, Active, NoRow
  <2> QED
    BY <1>1, <2>1
<1> QED
  BY <1>1, <1>3, <1>4, <1>5, <1>6, <1>7
  DEF Next, Grant, Revocation, PresentToken, LookupToken, Tick, vars, RevokeToken,
      RevokeFamily, DeleteForUser, DeleteForUserClient, DeleteForClient

\* A slow request never shortens the life of a family extended meanwhile.
THEOREM ExpiryOnlyGrows == Spec => ExpiryNeverShrinks
<1>1. IInv /\ [Next]_vars => [NoShrink]_vars
  BY StepNeverShrinks
<1>2. Spec => [][NoShrink]_vars
  BY <1>1, Invariant, PTL DEF Spec
<1> QED
  BY <1>2 DEF ExpiryNeverShrinks, NoShrink

------------------------------------------------------------------------------
(* The families implement GrantLineage.                                    *)

\* A row that can be exchanged remembers a token, so its family has been granted.
LEMMA ActiveIsUsed == IInv => \A f \in Family : Active(f) => ~Unused(f)
BY DEF IInv, TypeOK, Row, Active, Unused, RemembersEveryToken

\* The empty table is a lineage in which no family has started.
LEMMA RefinesInit == Init => Lineage!LineageInit
BY ConstantsAssumption
DEF Init, Lineage!LineageInit, Phase, Head, Spent, Unused, Active, Fresh, NoRow

\* A step that generates no token and deactivates exactly the families fs.
LEMMA EndsOnly ==
    ASSUME IInv, NEW fs \in SUBSET Family, UNCHANGED mintedFor,
           \A f \in fs : Active(f) /\ ~Active(f)',
           \A f \in Family \ fs : /\ Active(f)' <=> Active(f)
                                  /\ Active(f) => families'[f].token = families[f].token
    PROVE  Lineage!End(fs)
<1>1. \A f \in Family : Unused(f)' <=> Unused(f)
  BY DEF Unused
<1>2. \A f \in fs : Phase[f] = "live"
  BY ActiveIsUsed DEF Phase
<1>3. Phase' = [f \in Family |-> IF f \in fs THEN "ended" ELSE Phase[f]]
  <2>1. \A f \in Family :
          (IF Unused(f)' THEN "unborn" ELSE IF Active(f)' THEN "live" ELSE "ended")
          = IF f \in fs THEN "ended" ELSE Phase[f]
    BY <1>1, ActiveIsUsed DEF Phase
  <2> QED
    BY <2>1 DEF Phase
<1>4. Head' = [f \in Family |-> IF f \in fs THEN None ELSE Head[f]]
  <2>1. \A f \in Family : (IF Active(f)' THEN families'[f].token ELSE None)
                          = IF f \in fs THEN None ELSE Head[f]
    BY DEF Head
  <2> QED
    BY <2>1 DEF Head
<1>5. Spent' = Spent
  BY DEF Spent, Fresh
<1> QED
  BY <1>2, <1>3, <1>4, <1>5 DEF Lineage!End

\* Revoking what a replayed token names is, for the lineage, the end of one family or
\* nothing at all.
LEMMA RevocationEnds ==
    ASSUME IInv, NEW t \in Token, families' = RevokedByReuse(t), UNCHANGED mintedFor
    PROVE  Lineage!LineageNext
<1> DEFINE fs == {f \in Family : Active(f) /\ t \in families[f].consumed}
<1>1. \A f \in Family :
        /\ families'[f].token = families[f].token
        /\ families'[f].state = IF t \in families[f].consumed THEN "revoked"
                                ELSE families[f].state
  BY RevokedRow DEF IInv
<1>2. Lineage!End(fs)
  BY <1>1, EndsOnly DEF Active
<1> QED
  BY <1>2 DEF Lineage!LineageNext

\* Every step of the token endpoint is a step of GrantLineage or leaves it unchanged.
LEMMA RefinesNext == IInv /\ [Next]_vars => [Lineage!LineageNext]_(Lineage!lineageVars)
<1> SUFFICES ASSUME IInv, [Next]_vars
             PROVE  [Lineage!LineageNext]_(Lineage!lineageVars)
  OBVIOUS
<1> USE ConstantsAssumption
<1>1. ASSUME UNCHANGED <<families, mintedFor>> PROVE UNCHANGED Lineage!lineageVars
  BY <1>1 DEF Lineage!lineageVars, Phase, Head, Spent, Unused, Active, Fresh
<1>2. ASSUME NEW f \in Family, NEW t \in Token, NEW c \in Client, NEW u \in User,
             NEW k \in Key, OpenFamily(f, t, c, u, k)
      PROVE  Lineage!Born(f, t)
  <2>1. /\ Unused(f) /\ Fresh(t)
        /\ families'[f].state = "active" /\ families'[f].token = t
        /\ \A g \in Family : g # f => families'[g] = families[g]
        /\ mintedFor'[t] = f
        /\ \A s \in Token : s # t => mintedFor'[s] = mintedFor[s]
    BY <1>2 DEF OpenFamily, IInv, TypeOK
  <2>2. ~Unused(f)' /\ \A g \in Family : g # f => (Unused(g)' <=> Unused(g))
    BY <2>1 DEF Unused, Fresh
  <2>3. Phase' = [Phase EXCEPT ![f] = "live"] /\ Phase[f] = "unborn"
    <3>1. \A g \in Family : g # f => (Active(g)' <=> Active(g))
      BY <2>1 DEF Active
    <3>2. Active(f)'
      BY <2>1 DEF Active
    <3>3. \A g \in Family :
            (IF Unused(g)' THEN "unborn" ELSE IF Active(g)' THEN "live" ELSE "ended")
            = IF g = f THEN "live" ELSE Phase[g]
      BY <2>2, <3>1, <3>2 DEF Phase
    <3>4. Phase' = [g \in Family |-> IF g = f THEN "live" ELSE Phase[g]]
      BY <3>3 DEF Phase
    <3> QED
      BY <2>1, <3>4 DEF Phase
  <2>4. Head' = [Head EXCEPT ![f] = t]
    BY <2>1 DEF Head, Active
  <2>5. Spent' = Spent \cup {t} /\ t \notin Spent
    BY <2>1 DEF Spent, Fresh
  <2> QED
    BY <2>3, <2>4, <2>5 DEF Lineage!Born
<1>3. ASSUME NEW r \in Request, NEW t \in Token, RotateToken(r, t)
      PROVE  Lineage!LineageNext
  <2>0. requests[r].pc = "rotate" /\ Fresh(t) /\ requests[r].token \in Token
    BY <1>3 DEF RotateToken, IInv, RequestsKnow
  <2>1. ASSUME NEW f \in Family, Exchangeable(r, f),
               families' = [families EXCEPT ![f] = Exchanged(@, requests[r], t)],
               mintedFor' = [mintedFor EXCEPT ![t] = requests[r].family]
        PROVE  Lineage!Advance(f, t)
    <3>1. /\ Active(f) /\ families'[f].state = "active" /\ families'[f].token = t
          /\ \A g \in Family : g # f => families'[g] = families[g]
          /\ mintedFor'[t] = f
          /\ \A s \in Token : s # t => mintedFor'[s] = mintedFor[s]
      BY <2>0, <2>1, ExchangedRow DEF IInv, TypeOK, Active
    <3>2. ~Unused(f) /\ \A g \in Family : Unused(g)' <=> Unused(g)
      BY <2>0, <3>1, ActiveIsUsed DEF Unused, Fresh
    <3>3. Phase' = Phase /\ Phase[f] = "live"
      BY <3>1, <3>2 DEF Phase, Active
    <3>4. Head' = [Head EXCEPT ![f] = t]
      BY <3>1 DEF Head, Active
    <3>5. Spent' = Spent \cup {t} /\ t \notin Spent
      BY <2>0, <3>1 DEF Spent, Fresh
    <3> QED
      BY <3>3, <3>4, <3>5 DEF Lineage!Advance
  <2> QED
    BY <1>3, <2>0, <2>1, RevocationEnds DEF RotateToken, Lineage!LineageNext
<1>4. ASSUME NEW r \in Request, RevokeByConsumedToken(r) PROVE Lineage!LineageNext
  BY <1>4, RevocationEnds DEF RevokeByConsumedToken, IInv, RequestsKnow
<1>5. ASSUME NEW fs, UNCHANGED mintedFor,
             families' = [f \in Family |-> IF f \in fs THEN NoRow ELSE families[f]]
      PROVE  Lineage!LineageNext
  <2> DEFINE ended == {f \in Family : f \in fs /\ Active(f)}
  <2>1. Lineage!End(ended)
    BY <1>5, EndsOnly DEF Active, NoRow
  <2> QED
    BY <2>1 DEF Lineage!LineageNext
<1>6. CASE Crash
  <2>1. CASE Postgres
    BY <1>1, <1>6, <2>1 DEF Crash
  <2>2. CASE ~Postgres
    <3>1. families' = [f \in Family |-> IF f \in Family THEN NoRow ELSE families[f]]
      BY <1>6, <2>2 DEF Crash
    <3> QED
      BY <1>5, <1>6, <3>1 DEF Crash
  <2> QED
    BY <2>1, <2>2
<1> QED
  BY <1>1, <1>2, <1>3, <1>4, <1>5, <1>6
  DEF Next, Grant, Revocation, PresentToken, LookupToken, Tick, vars, Delete,
      RevokeToken, RevokeFamily, DeleteForUser, DeleteForUserClient, DeleteForClient,
      Lineage!LineageNext

\* Families keep the promise of GrantLineage, whatever requests, revocations and
\* crashes interleave.
THEOREM FamiliesImplementLineage == Spec => KeepsLineage
BY RefinesInit, RefinesNext, Invariant, PTL DEF Spec, KeepsLineage, Lineage!LineageSpec
==============================================================================

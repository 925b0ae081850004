--------------------------- MODULE BackchannelGrant ---------------------------
(***************************************************************************)
(* Client-initiated backchannel authentication (CIBA): the client names a  *)
(* user, the user's phone is asked, the user approves or denies, and the   *)
(* client polls the token endpoint.  A poll reads the record, enforces the *)
(* poll rate on what it read, records the poll, decides on what it read,   *)
(* deletes the record and mints; each of these store calls is an action of *)
(* its own, and a decision is a read and a write.                          *)
(***************************************************************************)
EXTENDS Naturals, Sequences

CONSTANTS
    AuthReq,    \* auth_req_ids, each issued at most once
    Client,
    User,
    Decider,    \* slots for approve/deny calls in flight together
    Poller,     \* slots for token requests in flight together
    None,       \* neither a user, a client nor a time
    Ttl,        \* backchannelAuthTtlMs, in clock ticks
    Interval,   \* backchannelPollIntervalSeconds, in clock ticks, positive
    MaxTime     \* bound of the clock

VARIABLES
    now,        \* Date.now()
    requests,   \* the backchannel store, by auth_req_id
    decisions,  \* decisions between findByAuthReqId and updateStatus
    polls,      \* polls between findByAuthReqId and their last call
    approvals,  \* history: <<request, user>> for each approval that was written
    minted,     \* history: the users token sets were issued for, in order
    honoured,   \* history: when the last two polls of a request that got through began
    rushed      \* history: requests for which two polls were in flight together

vars == <<now, requests, decisions, polls, approvals, minted, honoured, rushed>>

AuthRequest ==
    [status : {"unissued", "pending", "approved", "denied", "deleted"},
     client : Client \cup {None}, userSub : User \cup {None},
     expiresAt : 0 .. MaxTime + Ttl, interval : {Interval},
     lastPolledAt : (0 .. MaxTime) \cup {None}]

Decision == [request : AuthReq, status : {"approved", "denied"}, userSub : User]

\* A poll keeps the record it read and the time it began at.
ReadPoll == [pc : {"expire", "record", "delete", "mint"}, request : AuthReq,
             read : AuthRequest, at : 0 .. MaxTime]

TypeOK ==
    /\ now \in 0 .. MaxTime
    /\ requests \in [AuthReq -> AuthRequest]
    /\ decisions \in [Decider -> Decision \cup {None}]
    /\ polls \in [Poller -> ReadPoll \cup {None}]
    /\ approvals \subseteq AuthReq \X User
    /\ minted \in [AuthReq -> Seq(User)]
    /\ honoured \in [AuthReq -> Seq(0 .. MaxTime)]
    /\ rushed \subseteq AuthReq

Init ==
    /\ now = 0
    /\ requests = [a \in AuthReq |-> [status |-> "unissued", client |-> None,
            userSub |-> None, expiresAt |-> 0, interval |-> Interval,
            lastPolledAt |-> None]]
    /\ decisions = [q \in Decider |-> None]
    /\ polls = [p \in Poller |-> None]
    /\ approvals = {}
    /\ minted = [a \in AuthReq |-> <<>>]
    /\ honoured = [a \in AuthReq |-> <<>>]
    /\ rushed = {}

histories == <<approvals, minted, honoured, rushed>>

Stored(a) == requests[a].status \notin {"unissued", "deleted"}

------------------------------------------------------------------------------
ExpiresAtInSeconds == (now + Ttl) * 1000                \* defect: units mixed
ExpiresAt == now + Ttl

\* issueBackchannelAuth for the user resolveBackchannelUser found.
Issue(a, c, u) ==
    /\ requests[a].status = "unissued"
    /\ requests' = [requests EXCEPT ![a] =
            [@ EXCEPT !.status = "pending", !.client = c, !.userSub = u,
                      !.expiresAt = ExpiresAt]]
    /\ UNCHANGED <<now, decisions, polls, histories>>

\* decideBackchannel up to its await.  A caller may name the approving user;
\* otherwise the request keeps the user it was issued for.
ReadForDecision(q, a, status, u) ==
    /\ decisions[q] = None
    /\ Stored(a) /\ ~(requests[a].expiresAt < now) /\ requests[a].status = "pending"
    /\ decisions' = [decisions EXCEPT ![q] =
            [request |-> a, status |-> status, userSub |-> u]]
    /\ UNCHANGED <<now, requests, polls, histories>>

Approve(q, a, u) == ReadForDecision(q, a, "approved", u)
Deny(q, a) == ReadForDecision(q, a, "denied", requests[a].userSub)

UpdateStatus(q) ==
    LET d == decisions[q] IN
    /\ d # None
    /\ IF Stored(d.request)
       THEN /\ requests' = [requests EXCEPT
                    ![d.request].status = d.status, ![d.request].userSub = d.userSub]
            /\ approvals' = IF d.status = "approved"
                            THEN approvals \cup {<<d.request, d.userSub>>} ELSE approvals
       ELSE UNCHANGED <<requests, approvals>>
    /\ decisions' = [decisions EXCEPT ![q] = None]
    /\ UNCHANGED <<now, polls, minted, honoured, rushed>>

------------------------------------------------------------------------------
TooFastAfterLast(row) ==                                \* defect: interval ignored
    row.lastPolledAt # None /\ now <= row.lastPolledAt
TooFast(row) == row.lastPolledAt # None /\ now - row.lastPolledAt < row.interval

\* findByAuthReqId and the checks before recordPoll.  A poll that comes too soon is
\* answered slow_down and leaves the record alone, its interval included.
Poll(p, a, c) ==
    LET row == requests[a]
        Next(pc) == polls' = [polls EXCEPT ![p] =
                        [pc |-> pc, request |-> a, read |-> row, at |-> now]] IN
    /\ polls[p] = None
    /\ Stored(a) /\ row.client = c
    /\ \/ row.expiresAt < now /\ Next("expire")
       \/ ~(row.expiresAt < now) /\ ~TooFast(row) /\ Next("record")
    /\ rushed' = IF \E o \in Poller : polls[o] # None /\ polls[o].request = a
                 THEN rushed \cup {a} ELSE rushed
    /\ UNCHANGED <<now, requests, decisions, approvals, minted, honoured>>

Answered(p) == polls' = [polls EXCEPT ![p] = None]

ApprovedUnlessPending(row) == row.status # "pending"    \* defect: denial forgotten
Approved(row) == row.status = "approved"

\* recordPoll, then the decision on the status read before it.
Recorded(a, at) == IF Stored(a) THEN [requests EXCEPT ![a].lastPolledAt = at] ELSE requests
RecordPoll(p) ==
    /\ polls[p] # None /\ polls[p].pc = "record"
    /\ requests' = Recorded(polls[p].request, polls[p].at)
    /\ honoured' = [honoured EXCEPT ![polls[p].request] =
            IF @ = <<>> THEN <<polls[p].at>> ELSE <<@[Len(@)], polls[p].at>>]
    /\ IF Approved(polls[p].read) THEN polls' = [polls EXCEPT ![p].pc = "delete"]
                                  ELSE Answered(p)
    /\ UNCHANGED <<now, decisions, approvals, minted, rushed>>

KeptRow(a) == requests                                  \* defect: record not dropped
DeletedRow(a) == IF Stored(a) THEN [requests EXCEPT ![a].status = "deleted"] ELSE requests

\* deleteByAuthReqId of an expired record, or before minting.
DeleteRow(p) ==
    /\ polls[p] # None /\ polls[p].pc \in {"expire", "delete"}
    /\ requests' = DeletedRow(polls[p].request)
    /\ IF polls[p].pc = "expire" THEN Answered(p)
                                 ELSE polls' = [polls EXCEPT ![p].pc = "mint"]
    /\ UNCHANGED <<now, decisions, histories>>

\* issueTokenSet for the user of the record that was read.
Mint(p) ==
    /\ polls[p] # None /\ polls[p].pc = "mint"
    /\ minted' = [minted EXCEPT ![polls[p].request] = Append(@, polls[p].read.userSub)]
    /\ Answered(p)
    /\ UNCHANGED <<now, requests, decisions, approvals, honoured, rushed>>

\* The process dies; the Postgres store survives.
Crash ==
    /\ decisions' = [q \in Decider |-> None]
    /\ polls' = [p \in Poller |-> None]
    /\ UNCHANGED <<now, requests, histories>>

Tick ==
    /\ now < MaxTime
    /\ now' = now + 1
    /\ UNCHANGED <<requests, decisions, polls, histories>>

Decide ==
    \/ \E q \in Decider, a \in AuthReq, u \in User : Approve(q, a, u)
    \/ \E q \in Decider, a \in AuthReq : Deny(q, a)
    \/ \E q \in Decider : UpdateStatus(q)

Serve(p) ==
    \/ \E a \in AuthReq, c \in Client : Poll(p, a, c)
    \/ RecordPoll(p) \/ DeleteRow(p) \/ Mint(p)

Next ==
    \/ \E a \in AuthReq, c \in Client, u \in User : Issue(a, c, u)
    \/ Decide
    \/ \E p \in Poller : Serve(p)
    \/ Crash
    \/ Tick

Spec == Init /\ [][Next]_vars

------------------------------------------------------------------------------
\* Tokens are minted only for a user whose approval of that request was written.
MintsForApprover ==
    \A a \in AuthReq : \A i \in DOMAIN minted[a] : <<a, minted[a][i]>> \in approvals

\* A replay that begins after the first exchange was answered, or after the server
\* died in the middle of it, is refused ("drop the record before minting so a replay
\* can't double-issue"); only polls in flight together get past.
ReplaysAreRefused == \A a \in AuthReq \ rushed : Len(minted[a]) <= 1

\* "Poll-rate enforcement": polls of one request that are let through one after the
\* other lie at least its interval apart.
PollRate ==
    \A a \in AuthReq \ rushed :
        Len(honoured[a]) = 2 => honoured[a][2] - honoured[a][1] >= Interval
==============================================================================

----------------------------- MODULE DeviceGrant -----------------------------
(***************************************************************************)
(* The device authorization grant (RFC 8628) of the OIDC provider: a       *)
(* device is given a device code and a user code, a signed-in user         *)
(* approves or denies the user code on another screen, and the device      *)
(* polls the token endpoint until it may exchange the device code.         *)
(*                                                                         *)
(* Decisions and polls read the record, await, and then write: those two   *)
(* steps of one request are two actions.  A device stands for its device   *)
(* code together with its user code (both random and unique); scopes and   *)
(* audience are copied unchanged and left out.                             *)
(***************************************************************************)
EXTENDS Naturals, Sequences

CONSTANTS
    Device,     \* device codes, each issued at most once
    Client,
    User,
    Decider,    \* slots for approve/deny requests in flight together
    Poller,     \* slots for token requests in flight together
    None,       \* neither a user nor a device code
    Ttl,        \* deviceCodeTtlMs, in clock ticks
    MaxTime     \* bound of the clock

VARIABLES
    now,        \* Date.now()
    devices,    \* the device authorization store, by device code
    decisions,  \* approve/deny requests between findByUserCode and updateStatus
    polls,      \* token requests between findByDeviceCodeHash and their last call
    approvals,  \* history: <<device, user>> for each approval that was written
    denials,    \* history: devices for which a denial was written
    minted,     \* history: the token sets issued for each device code, in order
    contested,  \* history: devices on which two decisions were in flight together
    rushed      \* history: devices for which two redeeming polls were in flight together

vars == <<now, devices, decisions, polls, approvals, denials, minted, contested, rushed>>
races == <<contested, rushed>>

Status == {"unissued", "pending", "approved", "denied", "deleted"}

Authorization == [status : Status, client : Client \cup {None},
                  userSub : User \cup {None}, expiresAt : 0 .. MaxTime + Ttl]

Decision == [device : Device, status : {"approved", "denied"},
             userSub : User \cup {None}]

Exchange == [pc : {"expire", "redeem", "mint"}, device : Device,
             client : Client, userSub : User \cup {None}]

TokenSet == [client : Client, userSub : User]

TypeOK ==
    /\ now \in 0 .. MaxTime
    /\ devices \in [Device -> Authorization]
    /\ decisions \in [Decider -> Decision \cup {None}]
    /\ polls \in [Poller -> Exchange \cup {None}]
    /\ approvals \subseteq Device \X User
    /\ denials \subseteq Device
    /\ minted \in [Device -> Seq(TokenSet)]
    /\ contested \subseteq Device /\ rushed \subseteq Device

Init ==
    /\ now = 0
    /\ devices = [d \in Device |-> [status |-> "unissued", client |-> None,
                                    userSub |-> None, expiresAt |-> 0]]
    /\ decisions = [q \in Decider |-> None]
    /\ polls = [p \in Poller |-> None]
    /\ approvals = {} /\ denials = {}
    /\ minted = [d \in Device |-> <<>>]
    /\ contested = {} /\ rushed = {}

Stored(d) == devices[d].status \notin {"unissued", "deleted"}
Expired(d) == devices[d].expiresAt < now

------------------------------------------------------------------------------
\* issueDeviceAuthorization
Issue(d, c) ==
    /\ devices[d].status = "unissued"
    /\ devices' = [devices EXCEPT ![d] =
            [status |-> "pending", client |-> c, userSub |-> None,
             expiresAt |-> now + Ttl]]
    /\ UNCHANGED <<now, decisions, polls, approvals, denials, minted, races>>

\* decideDeviceAuthorization up to its await: the user code must be known,
\* unexpired and undecided.
DecidableAlways(d) == Stored(d) /\ ~Expired(d)          \* defect: decided codes too
Decidable(d) == Stored(d) /\ ~Expired(d) /\ devices[d].status = "pending"

ReadForDecision(q, decision) ==
    /\ decisions[q] = None
    /\ Decidable(decision.device)
    /\ decisions' = [decisions EXCEPT ![q] = decision]
    /\ contested' = IF \E o \in Decider : decisions[o] # None /\
                          decisions[o].device = decision.device
                    THEN contested \cup {decision.device} ELSE contested
    /\ UNCHANGED <<now, devices, polls, approvals, denials, minted, rushed>>

Approve(q, d, u) ==
    ReadForDecision(q, [device |-> d, status |-> "approved", userSub |-> u])
Deny(q, d) ==
    ReadForDecision(q, [device |-> d, status |-> "denied", userSub |-> None])

\* updateStatus writes whatever the status has become; a deleted row stays deleted.
Decided(authorization, decision) ==
    [authorization EXCEPT !.status = decision.status, !.userSub = decision.userSub]

UpdateStatus(q) ==
    LET decision == decisions[q]
        d == decision.device IN
    /\ decision # None
    /\ IF Stored(d)
       THEN /\ devices' = [devices EXCEPT ![d] = Decided(@, decision)]
            /\ approvals' = approvals \cup
                   (IF decision.status = "approved" THEN {<<d, decision.userSub>>} ELSE {})
            /\ denials' = denials \cup
                   (IF decision.status = "denied" THEN {d} ELSE {})
       ELSE UNCHANGED <<devices, approvals, denials>>
    /\ decisions' = [decisions EXCEPT ![q] = None]
    /\ UNCHANGED <<now, polls, minted, races>>

------------------------------------------------------------------------------
\* exchangeDeviceCode up to its await: of the answers only two go on to write.
RedeemableUnlessPending(d) == devices[d].status # "pending"  \* defect: denial forgotten
Redeemable(d) == devices[d].status = "approved" /\ devices[d].userSub # None

PollOutcome(d) ==
    IF Expired(d) THEN "expire" ELSE IF Redeemable(d) THEN "redeem" ELSE "refused"

PollStoredByAnyone(d, c) == Stored(d)                   \* defect: client unchecked
PollStoredBy(d, c) == Stored(d) /\ devices[d].client = c

Poll(p, d, c) ==
    /\ polls[p] = None
    /\ PollStoredBy(d, c)
    /\ PollOutcome(d) # "refused"
    /\ polls' = [polls EXCEPT ![p] =
            [pc |-> PollOutcome(d), device |-> d, client |-> c,
             userSub |-> devices[d].userSub]]
    /\ rushed' = IF \E o \in Poller : polls[o] # None /\ polls[o].device = d
                 THEN rushed \cup {d} ELSE rushed
    /\ UNCHANGED <<now, devices, decisions, approvals, denials, minted, contested>>

\* deleteByDeviceCodeHash deletes the row if it is still there and does not say
\* whether it was.
KeepRow(d) == devices                                   \* defect: code not dropped
DeleteRow(d) ==
    [devices EXCEPT ![d].status = IF Stored(d) THEN "deleted" ELSE @]

DeleteExpired(p) ==
    /\ polls[p] # None /\ polls[p].pc = "expire"
    /\ devices' = DeleteRow(polls[p].device)
    /\ polls' = [polls EXCEPT ![p] = None]
    /\ UNCHANGED <<now, decisions, approvals, denials, minted, races>>

DeleteBeforeMint(p) ==
    /\ polls[p] # None /\ polls[p].pc = "redeem"
    /\ devices' = DeleteRow(polls[p].device)
    /\ polls' = [polls EXCEPT ![p].pc = "mint"]
    /\ UNCHANGED <<now, decisions, approvals, denials, minted, races>>

\* issueTokenSet for the user and client of the record that was read.
Mint(p) ==
    /\ polls[p] # None /\ polls[p].pc = "mint"
    /\ minted' = [minted EXCEPT ![polls[p].device] =
            Append(@, [client |-> polls[p].client, userSub |-> polls[p].userSub])]
    /\ polls' = [polls EXCEPT ![p] = None]
    /\ UNCHANGED <<now, devices, decisions, approvals, denials, races>>

\* The stored records among ds are deleted, in one statement.
DeleteAll(ds) ==
    /\ devices' = [d \in Device |-> IF d \in ds /\ Stored(d)
                                    THEN [devices[d] EXCEPT !.status = "deleted"]
                                    ELSE devices[d]]
    /\ UNCHANGED <<now, decisions, polls, approvals, denials, minted, races>>

\* deleteForUserClient finds decided records only (a pending one has no user yet);
\* deleteForClient finds all of them.
DeleteForUserClient(u, c) ==
    DeleteAll({d \in Device : devices[d].userSub = u /\ devices[d].client = c})
DeleteForClient(c) == DeleteAll({d \in Device : devices[d].client = c})

\* The process dies between two store calls of its requests; the store survives.
Crash ==
    /\ decisions' = [q \in Decider |-> None]
    /\ polls' = [p \in Poller |-> None]
    /\ UNCHANGED <<now, devices, approvals, denials, minted, races>>

Tick ==
    /\ now < MaxTime
    /\ now' = now + 1
    /\ UNCHANGED <<devices, decisions, polls, approvals, denials, minted, races>>

Next ==
    \/ \E d \in Device, c \in Client : Issue(d, c)
    \/ \E q \in Decider, d \in Device :
            Deny(q, d) \/ \E u \in User : Approve(q, d, u)
    \/ \E q \in Decider : UpdateStatus(q)
    \/ \E p \in Poller, d \in Device, c \in Client : Poll(p, d, c)
    \/ \E p \in Poller : DeleteExpired(p) \/ DeleteBeforeMint(p) \/ Mint(p)
    \/ \E u \in User, c \in Client : DeleteForUserClient(u, c)
    \/ \E c \in Client : DeleteForClient(c)
    \/ Crash
    \/ Tick

Spec == Init /\ [][Next]_vars

------------------------------------------------------------------------------
\* Tokens are minted only for a user who approved that very code, and only to the
\* client the code was issued to (exchangeDeviceCode uses the record it read, not
\* the one it deletes).
MintsWhatWasApproved ==
    \A d \in Device : \A i \in DOMAIN minted[d] :
        /\ <<d, minted[d][i].userSub>> \in approvals
        /\ minted[d][i].client = devices[d].client

\* A code the user denied yields no tokens, now or later.  updateStatus is
\* unconditional, so this is promised only where decisions did not overlap.
DeniedNeverMints == \A d \in denials \ contested : minted[d] = <<>>

\* "drop the record before minting so a replay can't double-issue"
SingleUse == \A d \in Device : Len(minted[d]) <= 1

\* A replay that begins after the first exchange was answered, or after the server
\* died in the middle of it, is refused; only polls in flight together get past.
ReplaysAreRefused == \A d \in Device \ rushed : Len(minted[d]) <= 1
==============================================================================

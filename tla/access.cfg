SPECIFICATION Spec
CONSTANTS
    None = none
    Request = {r1, r2}
    Pair = {p1, p2}
    One = {x}
    viewer = viewer editor = editor folder = folder parent = parent team = team member = member
    MaxInvitation = 1
    MaxCodeAttempts = 1 MaxVersion = 3 MaxAttempt = 1
    Ttl = 1 KeyLife = 1 MaxApiToken = 1 MaxApiNow = 3
    MaxToken = 3
    Checker = {c1} Node <- Nodes Query <- Queries Subject <- Members
    Computed <- Inherits Via <- Links Space <- Tuples Depths = {2, 5} MaxWrites = 1
    MaxClock = 2 MaxFlow = 1 MaxSession = 1 Signs = TRUE
    ProofExpiry = 2 Skew = 1 MaxNow = 4
    Client = {p1, p2} User = {p1, p2} Decider = {r1, r2} Poller = {r1, r2}
    Device = {d1} CodeTtl = 1 MaxTime = 3
    AuthReq = {a1} RequestTtl = 3 Interval = 2 MaxPollTime = 4
SYMMETRY Symmetry
INVARIANTS TypesOK WithdrawnStaysOut KeepsWhatWasAsked ClaimRetiresTokens ConfiguredIsServed CacheFollowsWrites SecretsPassOnce PolledMintsWhatWasApproved PolledReplaysAreRefused PollRateHolds
CHECK_DEADLOCK FALSE

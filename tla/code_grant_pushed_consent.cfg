SPECIFICATION FairSpec
CONSTANTS
    f1 = f1 f2 = f2 c1 = c1 c2 = c2 u1 = u1 f3 = f3 u2 = u2
    Flow = {f1, f2}
    Client = {c1, c2}
    User = {u1}
    FlowClient <- TwoClients
    FlowUser <- OneUser
    Pushes = {c1}
    AsksConsent = {c1}
    Exchange = {x1}
    None = none
    ParTtl = 1
    CodeTtl = 1
    MaxTime = 3
    MaxSignOuts = 1
    MaxCrashes = 0
PROPERTIES AgreeingUserGetsCode

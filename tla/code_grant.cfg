SPECIFICATION FairSpec
CONSTANTS
    f1 = f1 f2 = f2 c1 = c1 c2 = c2 u1 = u1 f3 = f3 u2 = u2
    Flow = {f1, f2, f3}
    Client = {c1, c2}
    User = {u1, u2}
    FlowClient <- ThreeClients
    FlowUser <- TwoUsers
    Pushes = {c1}
    AsksConsent = {c1, c2}
    Exchange = {x1, x2}
    None = none
    ParTtl = 1
    CodeTtl = 1
    MaxTime = 2
    MaxSignOuts = 1
    MaxCrashes = 1
INVARIANTS NoCodeWithoutConsent OnlyInFlightEscapes
PROPERTIES CodesAndUrisPassOnce UnpushedConsentGetsCode

SPECIFICATION Spec
CONSTANTS
    None = none
    Request = {r1, r2}
    Pair = {p1, p2}
    Setups <- CredentialSetups MaxMailed = 2
    MaxAttempts = 2 WindowTicks = 1 LockoutTicks = 2 MaxNow = 3
    CodeMaxAttempts = 1 BackupCodeCount = 1 MaxCode = 1 MaxLogin = 1
    PhoneChallenge = {challenge}
    SmsMaxAttempts = 1 SmsSendMaxAttempts = 2 MaxChallenge = 2
    Passkey = {passkey} Account = {account} MaxSession = 3 MaxCounter = 2
    MaxSignIn = 2 MaxGeneration = 2 MaxLoss = 1
    SeedScanLimit = 1 MaxEvent = 4
    Grant = {grant} Deployments <- LinkedDeployments MaxToken = 2 MaxLinks = 2
SYMMETRY Symmetry
INVARIANTS TypesOK NothingSpentPasses GuessesAreBounded KeepsOneWayIn NoSelfInflictedReuse UntamperedVerifies
CHECK_DEADLOCK FALSE
PROPERTIES LinksItsStarter ActiveMeansHonoured

SPECIFICATION Spec
CONSTANTS
    None = none
    Receiver = {c1, c2}
    Runner = {a1, a2}
    Block = {"a", "b"}
    Count <- CountAB
    RetryAttempts = 2
    MaxNotice = 2
    MaxFaults = 1
    MaxSelected = 2
    MaxCrash = 1
INVARIANTS TypesOK FailuresRecorded JournaledWasRun
PROPERTIES WorkEnds
CHECK_DEADLOCK FALSE

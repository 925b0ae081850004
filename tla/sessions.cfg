SPECIFICATION Spec
CONSTANTS
    SessionId = {s1, s2}
    User = {u1, u2}
    Browser = {b1}
    Task = {k1, k2}
    None = none
    Deployments <- PasswordsOrPasskeys
    Duration = 1
    MaxTime = 2
    MaxVersion = 1
    MaxSessions = 1
SYMMETRY Symmetry
PROPERTIES EndedStaysEnded LiveSessionsSurvive RowsStayTheirUsers

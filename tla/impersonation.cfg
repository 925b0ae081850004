SPECIFICATION Spec
CONSTANTS
    b1 = b1 admin = admin
    SessionId = {s1, s2, s3}
    User = {admin, u1}
    Browser = {b1}
    BrowserUser <- OneAdmin
    Mode = {ghost, live}
    Task = {k1, k2}
    None = none
    Duration = 2
    MaxTime = 2
    KeepsStamp = TRUE
SYMMETRY Symmetry
INVARIANTS NeverNested ViewsAreMarked NeverOutlivesActor ModesAreAudited
CHECK_DEADLOCK FALSE

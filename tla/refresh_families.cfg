SPECIFICATION Spec
CONSTANTS
    Token = {t1, t2, t3}
    Family = {f1, f2}
    Client = {c1, c2}
    User = {u1}
    Unbound = unbound
    Key = {unbound, k1}
    Request = {r1, r2}
    None = none
    Ttl = 1
    MaxTime = 2
    Postgres = TRUE
SYMMETRY Symmetry
INVARIANTS TypeOK RemembersEveryToken RotatedAtMostOnce ReuseEndsFamily StaleRowStillHolds
PROPERTIES ExpiryNeverShrinks KeepsLineage

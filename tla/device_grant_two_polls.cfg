SPECIFICATION Spec
CONSTANTS
    Device = {d1, d2}
    Client = {c1, c2}
    User = {u1, u2}
    Decider = {q1}
    Poller = {p1, p2}
    None = none
    Ttl = 1
    MaxTime = 2
INVARIANTS SingleUse
SYMMETRY Symmetry

SPECIFICATION Spec
CONSTANTS
    Request = {r1, r2}
    None = none
    Nonce = {n1}
INVARIANTS ServedCanBeAnswered
SYMMETRY Symmetry
CHECK_DEADLOCK FALSE

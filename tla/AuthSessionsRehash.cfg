SPECIFICATION Spec
CONSTANTS
    Users = {u1}
    Passwords = {p1, p2}
    Requests = {r1, r2, r3}
    MaxAttempts = 2
    None = None
SYMMETRY Symmetry
PROPERTIES RehashingKeepsThePassword
CHECK_DEADLOCK FALSE

SPECIFICATION Spec
CONSTANTS
    Requests = {r1, r2, r3}
    a = a
    b = b
    Atts = {a, b}
    OldAtt = old
    First = first
    Second = second
    MaxTime = 1
    MaxId = 9
    MaxAttempts = 2
    PageLimit = 1
    MaxPages = 2
    None = None
SYMMETRY Symmetry
INVARIANTS HistoryIsAChain OneActiveKey FailuresAreExplained VerdictsAreTrue AppendsAreTrue
PROPERTIES PastIsKept
CHECK_DEADLOCK FALSE

SPECIFICATION Spec
CONSTANTS
    Clients = {c1, c2}
    Origins = {o1, o2}
    Requests = {r1, r2, r3, r4}
    ClientAttempts = 2
    ClientBytes = 3
    OriginAttempts = 3
    OriginBytes = 4
    MaxBuckets = 3
    MaxTotal = 2
    MaxPerClient = 2
    MaxPerOrigin = 1
    Caps = {1, 2}
    MaxClock = 1
    None = None
SYMMETRY Symmetry
INVARIANTS
    PermitsAreExact
    IdleIsTrue
    ChargesAreCovered
PROPERTIES
    SpentScopesArePinned
    LateEndsChangeNothing
CHECK_DEADLOCK FALSE

SPECIFICATION Spec
CONSTANTS
    Slugs = {home, news}
    SourceSlugs = {home, news}
    Requests = {r1, r2}
    RevIds = {a1, a2, a3}
    None = None
    Faults = TRUE
SYMMETRY Symmetry
INVARIANTS DriversOwnTheirRuns PushedWasPublicTogether HostShowsItsPages
CHECK_DEADLOCK FALSE

SPECIFICATION FairSpec
CONSTANTS
    Slugs = {home}
    SourceSlugs = {home}
    Requests = {r1, r2, r3}
    RevIds = {a1}
    None = None
    Faults = FALSE
INVARIANTS StatusesAreTrue ActiveRowsAreDriven
PROPERTIES RunsSettle
CHECK_DEADLOCK FALSE

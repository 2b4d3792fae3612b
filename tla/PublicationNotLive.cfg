SPECIFICATION Spec
CONSTANTS
    Slugs = {home, news}
    SourceSlugs = {home, news}
    Requests = {r1, r2, r3}
    RevIds = {a1, a2}
    None = None
    Faults = FALSE
SYMMETRY Symmetry
CONSTRAINT OneAtATime
PROPERTIES PublishedIsLive
CHECK_DEADLOCK FALSE

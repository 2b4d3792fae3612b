SPECIFICATION Spec
CONSTANTS
    Slugs = {home}
    LegacyDraftSlugs = {}
    Actors = {alice, bob}
    RevIds = {r1, r2, r3, r4}
    PubIds = {p1, p2}
    ImportNos = {1, 3}
    None = None
SYMMETRY Symmetry
INVARIANTS HistoryIsAChain PublicHeadIsLastApproved
PROPERTIES NoLostUpdate HeadOnlyMovesForward PendingProposalPinsHead ImplementsPublicPages
CHECK_DEADLOCK FALSE

SPECIFICATION FairSpec
CONSTANTS
    Requests = {r1, r2, r3, r4, r5}
    RawLimit = 2
    RawQueueMax = 2
INVARIANTS MemoryIsBounded NoSlotIsWasted AnswersAreTrue
PROPERTIES FirstComeFirstServed PlacesImprove WaitersAreServed
CHECK_DEADLOCK FALSE

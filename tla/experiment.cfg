SPECIFICATION FairSpec
CONSTANT MaxCalls = 3
CHECK_DEADLOCK FALSE
INVARIANTS
    LiveChangeAnnounced
    BlockedLeavesLive
PROPERTIES
    LiveIsPromoted
    StatusOfResult
    KeepsPromise
    FinalizedIsLive
    CallEnds

SPECIFICATION Spec
CONSTANTS
    Leader = Leader
    Descendants = {d1, d2}
    MaxInterrupts = 2
INVARIANTS
    SuccessIsGenuine
    AbortLeavesNothing
    TimeoutSurvivors
PROPERTY
    CallEnds

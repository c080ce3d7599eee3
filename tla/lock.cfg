SPECIFICATION Spec
CONSTANTS
    Runners = {r1, r2}
    Operators = {o1}
    NoOne = NoOne
    NoInode = NoInode
    Crashes = TRUE
    WriteFaults = TRUE
INVARIANTS
    ExclusionUnlessRaced
    ChildCovered
    ReleaseLeavesOnlyEmptied
PROPERTIES
    KeepsLock
    AttemptTerminates

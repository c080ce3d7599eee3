SPECIFICATION Spec
CONSTANTS
    Finalizers = {f1, f2}
    Splitters = {s1}
    Runs = {r1, r2}
    Pending = Pending
    NotRequired = NotRequired
    NoHandle = NoHandle
    TailEntries = 1
    Crashes = TRUE
    Faults = TRUE
SYMMETRY Symmetry
INVARIANTS
    EntryRecorded
    LostOnlyToOverlap
    RefusalExplained
PROPERTIES
    FailureRestoresRun

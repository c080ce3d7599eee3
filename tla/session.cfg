SPECIFICATION Spec
CONSTANTS
    p1 = p1
    p2 = p2
    p3 = p3
    Proposals = {p1, p2, p3}
    Repairs = {p1}
    FailBudget = 2
    Target = 2
    Interval = 1
    Cycles = 2
    MaxBudget = 3
    MaxCalls = 3
SYMMETRY Symmetry
INVARIANTS
    StopIsGenuine
PROPERTIES
    RunsAllowed
    HistoryKept
    GrowthIsUsed

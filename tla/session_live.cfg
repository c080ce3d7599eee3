SPECIFICATION FairSpec
CONSTANTS
    p1 = p1
    p2 = p2
    Proposals = {p1, p2}
    Repairs = {p1}
    FailBudget = 2
    Target = 3
    Interval = 1
    Cycles = 3
    MaxBudget = 2
    MaxCalls = 2
PROPERTY SessionEnds

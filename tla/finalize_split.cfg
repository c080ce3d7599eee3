SPECIFICATION Spec
CONSTANTS
    Finalizers = {f1, f2}
    Splitters = {s1}
    Runs = {r1, r2}
    Pending = Pending
    NotRequired = NotRequired
    NoHandle = NoHandle
    TailEntries = 0
    Crashes = FALSE
    Faults = FALSE
INVARIANT CompleteRunResolvable

SPECIFICATION Spec
CONSTANTS
    Runners = {r1, r2, r3}
    Operators = {}
    NoOne = NoOne
    NoInode = NoInode
    Crashes = FALSE
    WriteFaults = FALSE
SYMMETRY Symmetry
INVARIANT MutualExclusion

SPECIFICATION Spec
CONSTANTS
    N = 3
    Faults = TRUE
    Crashes = TRUE
    Interrupts = TRUE
INVARIANTS
    AllOrNothing
    OriginalsKept
PROPERTIES
    ImplementsInstallation

SPECIFICATION Spec
CONSTANTS
    Leader = Leader
    Descendants = {d1}
    MaxInterrupts = 0
INVARIANT CompletionRaceSucceeds

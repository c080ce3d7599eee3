SPECIFICATION FairSpec
CONSTANTS
    NumCheckpoints = 2
    DueAfter <- FirstThenSecond
    Retry = 1
    Timeout = 2
    Finals = {"completed"}
    MaxClock = 4
    MaxLaunches = 2
    MaxRefreshes = 1
INVARIANTS
    CompletedIsGenuine
    PeriodicIsOfLaunch
    NoForeignCommand
    LocksSettled
PROPERTIES
    TerminalKept
    KeepsLock
    LaunchEnds
CHECK_DEADLOCK FALSE

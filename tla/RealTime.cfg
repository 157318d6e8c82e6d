SPECIFICATION FairSpec
CONSTANTS
    Scenarios <- SequentialFirstScenarios
    Volumes = {1, 2}
    StartTime = 0
    EndTime = 3
    Interval = 2
    RealTime = TRUE
    ExitAfterEnd = TRUE
    ExitTimeouts = {TRUE, FALSE}
INVARIANTS
    IInv
    LogCountExact
    CardinalityTrackedOnce
PROPERTIES
    ShutdownReturns
    ExitReported

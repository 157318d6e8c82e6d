SPECIFICATION Spec
CONSTANTS
    Scenarios <- SequentialLastScenarios
    Volumes = {1}
    StartTime = 0
    EndTime = 2
    Interval = 2
    RealTime = FALSE
    ExitAfterEnd = FALSE
    ExitTimeouts = {FALSE}
INVARIANT
    LogCountExact

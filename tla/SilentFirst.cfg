SPECIFICATION Spec
CONSTANTS
    Scenarios <- SilentFirstScenarios
    Volumes = {1}
    StartTime = 0
    EndTime = 2
    Interval = 2
    RealTime = FALSE
    ExitAfterEnd = FALSE
    ExitTimeouts = {FALSE}
INVARIANT
    CardinalityTrackedOnce

SPECIFICATION Spec
CONSTANTS
    Scenarios <- MixedScenarios
    Volumes = {1}
    StartTime = 0
    EndTime = 3
    Interval = 2
    RealTime = FALSE
    ExitAfterEnd = TRUE
    ExitTimeouts = {TRUE}
INVARIANTS
    ShardExclusive
    SummaryComplete
    NoGoroutineOutlives
PROPERTY
    StreamSpec

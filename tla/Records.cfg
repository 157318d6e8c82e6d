SPECIFICATION Spec
CONSTANTS
    g1 = g1
    g2 = g2
    Nil = Nil
    Goroutines = {g1, g2}
    Instances <- TwoPodsAndOne
    LogsPerInstance = 1
    Profile <- WebProfile
    EmitTrace = TRUE
    Needles <- TwoNeedles
    Tracking = {g1}
    MaxFieldCardinality = 1
    CurrentTime = 0
    Interval = 2
    Rolls = {49, 50, 99}
    Jitters = {1, 2}
INVARIANTS
    TypeOK
    SummaryDescribesDelivered
    NeedleCountsExact
    OwnAttributesOnly
    DrawsByTemplate
    FieldCardinalityExact
    WithinInterval

SPECIFICATION Spec
CONSTANTS
    Calls <- ProfilePools
    Lengths <- ShortestAndLongest
INVARIANTS
    CommasSeparate
    TargetReached
    WithinReserve

CONSTANTS
    Scale = 2
    FileSets <- MCFileSets
    MaxLoops = 6
SPECIFICATION FairSpec
INVARIANT
    RangesCount
PROPERTY ConstructorReturns

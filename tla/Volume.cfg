SPECIFICATION Spec
CONSTANTS
    LogsPerInterval = 2
    Scale = 3
    StartTime <- Start
    EndTime = 48
    Interval = 1
    TicksPerHour = 2
    Diurnal <- AfternoonPeak
    VolumeProfile <- BurstsAndQuiet
    Rolls = {9, 10, 19, 20}
    Draws = {1, 2, 7}
    Wave <- CosineWave
    Nil = Nil
INVARIANTS
    TypeOK
    NoInstanceSilent
    VolumeNearlyPreserved
    SpellLasts
    DiurnalShape
    CronBurstsPeriodic

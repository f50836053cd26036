SPECIFICATION FairSpec
CONSTANTS
    MaintenanceEvery = 3
    Levels <- TwoLevels
    Commands <- Mix
    CycleSteps <- MonitorScan
    MaintenanceSteps <- FreshOnly
    MaxNumber = 2
    MaxHistory = 2
INVARIANTS
    SkippedCycleIsEmpty
    CountedCyclesAreAudited
    StoppedCycleRecordsNothing
    ArmFollowsReadiness
PROPERTY
    CycleEnds
CHECK_DEADLOCK FALSE

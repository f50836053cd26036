SPECIFICATION FairSpec
CONSTANTS
    Callers = {c1}
    CrashAt <- OutsideLaunch
    NoPid = NoPid
    MaxLaunch = 3
    MaxWindow = 3
INVARIANTS
    ReportedStopIsReal
    WorkerIsManaged
PROPERTIES
    RefusedOnlyWhileAlive
    WindowKept
    StopIsObeyed

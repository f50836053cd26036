SPECIFICATION FairSpec
CONSTANTS
    Job = {j1, j2}
    Caller = {c1}
    Steps <- Plan
    Long = j1
    Overlap = FALSE
    BlindStart = FALSE
    Breakable <- BeforeLaunch
INVARIANTS
    RunningJobIsNotOver
    ShownResultIsReal
    OneStepAfterCancel
PROPERTIES
    StartsAlone
    CancelFreesTheQueue

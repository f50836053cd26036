SPECIFICATION Spec
CONSTANTS
    history = history
    decisions = decisions
    ledger = ledger
    File <- AllFiles
    Kept <- StateFiles
    Walked <- Directories
    Limit = 1
    MaxJobs = 4
    None = None
    Torn = Torn
INVARIANTS
    NextJobSeesWhatAGreenJobLeft
PROPERTIES
    OnlyAnUnrestoredJobLosesRecords
CHECK_DEADLOCK FALSE

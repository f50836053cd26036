SPECIFICATION Spec
CONSTANTS
    history = history
    decisions = decisions
    ledger = ledger
    File <- AllFiles
    Kept <- StateFiles
    Walked <- Directories
    Limit = 1
    MaxJobs = 2
    None = None
    Torn = Torn
INVARIANTS
    OpenTradesRemainVisible
CHECK_DEADLOCK FALSE

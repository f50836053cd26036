SPECIFICATION LockFairSpec
CONSTANTS
    Pid = {p1, p2, p3}
    NoPid = NoPid
    NoFile = NoFile
    Overlap = TRUE
    PidReuse = FALSE
PROPERTIES
    SettledLockStays
    LaunchIsAnswered
CHECK_DEADLOCK FALSE

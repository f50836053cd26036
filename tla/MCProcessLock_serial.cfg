SPECIFICATION LockSpec
CONSTANTS
    Pid = {p1, p2, p3}
    NoPid = NoPid
    NoFile = NoFile
    Overlap = FALSE
    PidReuse = TRUE
SYMMETRY PidSymmetry
PROPERTY
    OneOrchestratorAtATime

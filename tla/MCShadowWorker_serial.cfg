SPECIFICATION Spec
CONSTANTS
    Worker = {w1, w2, w3, o1, o2}
    Exact = {w1, w2, w3}
    Controller = {c1, c2}
    NoPid = NoPid
    NoFile = NoFile
    Overlap = FALSE
    Slow = FALSE
    Readable = TRUE
SYMMETRY Alike
INVARIANTS
    RunningWorkerIsFound
PROPERTIES
    OneWorkerAtATime
    StoppedIsStopped
    TurnedAwayOnlyByAWorker

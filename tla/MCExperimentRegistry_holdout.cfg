SPECIFICATION Spec
CONSTANTS
    c1 = c1
    c2 = c2
    h1 = h1
    h2 = h2
    i1 = i1
    i2 = i2
    Calibration = {c1, c2}
    Enforced = {c1, c2}
    Challenger = {h1, h2}
    Id = {i1, i2}
    MaxReplay = 2
    NoRow = NoRow
SYMMETRY Symmetry
INVARIANTS
    HoldoutUsedOnce
PROPERTIES
    FinishedRunStays
    ReadinessIsLostOnlyByARepeat
CHECK_DEADLOCK FALSE

SPECIFICATION Spec
CONSTANTS
    Signals <- LimitSignals
    Portfolio <- LimitPortfolio
    SymbolOf <- LimitSymbol
    Born <- LimitBorn
    Scanners = {s1}
    Recorders = {r1}
    MaxOpen = 4
    MaxPerSymbol = 1
    MaxRisk = 2
    MaxAge = 2
    Window = 3
    Touches <- Moving
    Answers <- AnyAnswer
    Overlap = FALSE
    NoFile = NoFile
    Horizon = 4
INVARIANTS
    LimitsHold
    NoDuplicateRows
    TypeOK
    NoEarlyClose
PROPERTIES
    RowsStay
    ResultIsFinal
CHECK_DEADLOCK FALSE

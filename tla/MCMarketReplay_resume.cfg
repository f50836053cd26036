SPECIFICATION ReplaySpec
CONSTANTS
    s1 = s1
    s2 = s2
    Symbol = {s1, s2}
    Last = 3
    Decision <- OneNeutral
    Cap = 2
    Every = 2
    MaxLaunch = 4
    NoSymbol = NoSymbol
INVARIANTS
    OnlyTornRowsAreLost
PROPERTIES
    NoDecisionIsRepeated
CHECK_DEADLOCK FALSE

SPECIFICATION Spec
CONSTANTS
    Worker = {w1}
    Overlap = FALSE
    Core = {btc}
    Growth = {}
    Meme = {doge, pepe}
    MaxPositions = 2
    MaxMeme = 1
    CoreNeeded = 1
    TotalNeeded = 1
    Targets = 2
    MaxCandle = 2
SYMMETRY MemeSymmetry
INVARIANTS
    EntryOncePerDecision
    LimitsHold
    RolloutIsEarned
    DamageIsLocal
PROPERTY
    PlanOutlivesPosition

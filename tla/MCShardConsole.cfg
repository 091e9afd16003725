SPECIFICATION FairSpec
CONSTANTS
    Role = "master"
    Parasite = TRUE
    MaxLife = 2
    PipeCap = 1
    Waits = {1, 8}
    Word = 8
    Period = 1
    Talkative = FALSE
INVARIANTS
    TypeOK
    OrdersOfThisLife
    AckHonest
PROPERTIES
    LifeEnds
    ScriptReturns
CHECK_DEADLOCK FALSE

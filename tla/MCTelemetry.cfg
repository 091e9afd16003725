SPECIFICATION Spec
CONSTANTS
    Shards = {"master", "caves"}
    States <- MCStates
    PipeCap = 2
    RemoteCaves = TRUE
INVARIANTS
    
    BossesFaithful
    WellFramed

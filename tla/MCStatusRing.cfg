SPECIFICATION FairSpec
CONSTANTS
    Depth = 3
    Watchers = {"w1"}
    Pollers = {"p1"}
    MaxSnaps = 5
INVARIANTS
    TypeOK
    SlotStable
    NothingMissed
PROPERTIES
    WatchersCatchUp
CHECK_DEADLOCK FALSE

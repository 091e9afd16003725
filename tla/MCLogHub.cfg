SPECIFICATION FairSpec
CONSTANTS
    Streamers = {"out"}
    Clients = {"c1", "c2"}
    Blocks = {"b1", "b2"}
    HubCap = 1
    ChanCap = 1
    SubCap = 1
    ListenerFails = TRUE
INVARIANTS
    TypeOK
    RefExact
    HubSurvives
PROPERTIES
    NoLeak
    HandlersEnd
CHECK_DEADLOCK FALSE

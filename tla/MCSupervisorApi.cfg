SPECIFICATION FairSpec
CONSTANTS
    Shards = {"master"}
    Clients = {"c1"}
    ApiOps = {"start", "stop", "restart"}
    Monitors = {}
    CrashReboot = TRUE
    AutoStart = TRUE
    Interrupts = TRUE
INVARIANTS
    BinariesIdle
PROPERTIES
    StopTakesEffect
    RestartRecycles
    ShutdownCompletes
CHECK_DEADLOCK FALSE

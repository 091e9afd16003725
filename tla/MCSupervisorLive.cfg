SPECIFICATION FairSpec
CONSTANTS
    Shards = {"master", "caves"}
    Clients = {}
    ApiOps = {}
    Monitors = {}
    CrashReboot = TRUE
    AutoStart = TRUE
    Interrupts = FALSE
PROPERTIES
    FateShared
    CrashRecovered
CHECK_DEADLOCK FALSE

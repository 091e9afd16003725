SPECIFICATION Spec
CONSTANTS
    Shards = {"master", "caves"}
    Clients = {}
    ApiOps = {}
    Monitors = {"m1"}
    CrashReboot = TRUE
    AutoStart = TRUE
    Interrupts = FALSE
INVARIANTS
    TypeOK
    NeverWedged
    ModTablesExclusive
PROPERTIES
    BinariesImplemented
CHECK_DEADLOCK FALSE

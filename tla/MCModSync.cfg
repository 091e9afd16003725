SPECIFICATION FairSpec
CONSTANTS
    Mods = {1, 2}
    Removable = {1}
    Configs <- MCConfigs
    Setups <- MCSetups
    MaxTime = 2
    MaxLines = 2
    Faults = {"file", "query", "kill"}
INVARIANTS
    ProbeSound
PROPERTIES
    ListExact
    PatchSettles
    PlanCovers
    ModsCatchUp
CHECK_DEADLOCK FALSE

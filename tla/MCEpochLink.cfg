SPECIFICATION FairLinkSpec
CONSTANTS
    Listeners = {r1}
    MaxStores = 3
    MaxLife = 1
    NetCap = 1
PROPERTIES
    NeverBack
    LastShown
CHECK_DEADLOCK FALSE

SPECIFICATION FairLinkSpec
CONSTANTS
    Listeners = {r1}
    MaxStores = 3
    MaxLife = 1
    NetCap = 2
PROPERTIES
    RestartFollowed
CHECK_DEADLOCK FALSE

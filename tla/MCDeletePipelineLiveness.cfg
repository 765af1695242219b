SPECIFICATION FairSpec
CONSTANTS
    a1 = a1
    a2 = a2
    a3 = a3
    private = private
    shared = shared
    Assets = {a1, a2}
    Zones = {shared}
    ZoneOf <- AllShared
    MaxPerScan = 2
    WindowSize = 2
    MaxAge = 1
    MaxFaults = 2
    MaxEdits = 1
PROPERTIES
    RemoteDeletionIsRecorded

SPECIFICATION Spec
CONSTANTS
    a1 = a1
    a2 = a2
    a3 = a3
    private = private
    shared = shared
    Assets = {a1, a2, a3}
    Zones = {private, shared}
    ZoneOf <- TwoZones
    MaxPerScan = 2
    WindowSize = 2
    MaxAge = 1
    MaxFaults = 1
    MaxEdits = 1
SYMMETRY Symmetry
INVARIANTS
    MemoryMatchesStore
    ApprovedFitInOneScan
PROPERTIES
    RawSeenRecently
    ImplementsSafeDeletion

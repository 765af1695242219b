SPECIFICATION FairSpec
CONSTANTS
    N = 3
    Captured <- Captures
    Absent = Absent
    Unclear = Unclear
    Limit = 2
    MaxConversions = 1
    ConvertSlots = 1
    ResolverWindow = 1
    ResolverBatches = 1
    Blockable = {1, 2}
    WithHeic = {2}
    Older = {3}
    MaxFaults = 1
INVARIANTS
    OriginalHasOneRaw
    DeletesFitInScan
PROPERTIES
    AssetsAreDecided

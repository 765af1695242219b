SPECIFICATION FairSpec
CONSTANTS
    Workers = {w1, w2, w3}
    Assets = {a1, a2, a3}
    NoAsset = NoAsset
    CpuSlots = 2
    ConvertSlots = 1
    MirrorSlots = 1
    MaxConversions = 1
    MaxPasses = 3
    MaxFailures = 1
INVARIANTS
    SlotsAccounted
    NoLostWakeup
    ConversionBudget
    ClaimsSucceed
    NoStaleReservation
PROPERTIES
    ScanEnds

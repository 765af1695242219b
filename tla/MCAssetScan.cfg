SPECIFICATION FairSpec
CONSTANTS
    Monitors = {p1, p2}
    LockFiles = {f1, f2, f3}
    NoFile = NoFile
    Nobody = Nobody
    Dead = Dead
    Faults = {"crash", "sleep", "lock", "power", "error"}
    MaxFaults = 2
    Bytes = {b1, b2}
    Part = Part
    None = None
    Kids = {k1, k2}
INVARIANTS
    UploadIsProven
    AdjustedSourceKept
PROPERTIES
    ProvenHeicKept
    AssetIsDecided

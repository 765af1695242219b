SPECIFICATION Spec
CONSTANTS
    Handles = {h1, h2}
    Owners = {o1, o2}
    Assets = {a1}
    Bodies = {b1}
    NoOwner = NoOwner
    Absent = Absent
    NoHandle = NoHandle
    ClockSetBack = TRUE
    Ttl = 1
    MaxTime = 2
    MaxEpoch = 2
SYMMETRY Symmetry
INVARIANTS
    EpochHasOneOwner
    TransactionIsFenced
PROPERTIES
    SuccessMeansStored
    ImportedAtMostOnce
    SupersededForEver
    RowsOnlyAdvance
    ImplementsFencedStore

\* The clock stops at MaxTime and an empty legacy database can be neither
\* opened nor migrated, so the model may stop.
SPECIFICATION FairSpec
CONSTANTS
    Handles = {h1, h2}
    Owners = {o1, o2}
    Assets = {a1}
    Bodies = {b1}
    NoOwner = NoOwner
    Absent = Absent
    NoHandle = NoHandle
    ClockSetBack = FALSE
    Ttl = 1
    MaxTime = 2
    MaxEpoch = 2
CHECK_DEADLOCK FALSE
PROPERTIES
    AbandonedLeaseIsTakenOver

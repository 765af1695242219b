\* A migration that was interrupted for good has nothing left to do.
SPECIFICATION FairSpec
CHECK_DEADLOCK FALSE
CONSTANTS
    References = {r1}
    Layouts = {TRUE, FALSE}
    MaxFaults = 3
    MaxMounts = 2
    RootCount = 2
    i1 = i1
    Identities = {i1}
    Absent = Absent
    MaxAttempts = 2
    Residues <- LeftBehind
INVARIANTS
    ProofsAreBacked
    UploadedOnce
    SuccessMeansDone
    ProgressExplainsDirectories
PROPERTIES
    ImplementsCohortMigration
    CompletesUnlessInterrupted

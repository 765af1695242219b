\* A search stops when it has its answer.
SPECIFICATION FairSpec
CHECK_DEADLOCK FALSE
CONSTANTS
    x = x
    y = y
    z = z
    h = h
    None = None
    RawFiles = {x, y, z}
    Heics = {h}
    SizeOf <- Sizes
    MaxPhotos = 6
    Dates = {0, 2, 3, 6}
    Libraries <- SmallLibraries
    Requests <- SmallRequests
    StartRanks = {0, 3}
    PageSize = 2
    MaxPages = 6
    Tolerance = 1
    MaxFaults = 1
INVARIANTS
    AnswersAreTrue
PROPERTIES
    SearchConcludes

SPECIFICATION FairSpec
CONSTANTS
    Assets = {a1, a2}
    Modes = {TRUE}
    MaxLifecycle = 1
    MaxConversions = 1
    ConversionReserve = 0
    MaxAdmissions = 1
    MaxResolverRetries = 1
    RetryMinAge = 1
    AdjustedMinAge = 1
    ResolverMinAge = 1
    Occurring = {"output", "preview", "adjusted"}
    SideEffects = {}
    Initial <- OnlyFresh
    MaxFails = 1
    MaxLost = 0
    MaxFaults = 1
PROPERTIES AdmissionFitsBudget FailuresAreDecided DiscoveryGoesOn

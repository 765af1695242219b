SPECIFICATION Spec
CONSTANTS
    Assets = {a1}
    Modes = {TRUE, FALSE}
    MaxLifecycle = 2
    MaxConversions = 1
    ConversionReserve = 1
    MaxAdmissions = 1
    MaxResolverRetries = 1
    RetryMinAge = 1
    AdjustedMinAge = 1
    ResolverMinAge = 1
    Occurring = {"visual", "metadata", "content", "output", "timeout", "preview", "adjusted", "resolve", "other"}
    SideEffects = {a1}
    Initial <- FreshOrOld
    MaxFails = 2
    MaxLost = 1
    MaxFaults = 2
INVARIANTS LineageIsReadable MarkedNeedsAdjusted
PROPERTIES ImplementsBoundedRetries

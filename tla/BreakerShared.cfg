SPECIFICATION BusySpec
CONSTANTS
    Calls = {c1, c2, c3}
    MaxFailures = 2
    Reset = 2
    AllowedRetries = 1
    AttemptLimit = 3
    MaxBackoff = 3
INVARIANTS
    TypeOK
    ClaimHasOwner
    NothingStartsWhileOpen
    ClosedIffBelowThreshold
PROPERTIES
    EveryRunEnds
    RecoversWhenHealthy

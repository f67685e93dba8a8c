SPECIFICATION TraceSpec
CONSTANTS
    Tasks = {main, a, b}
    Main = main
    MaxScopes = 2
    AllowedRetries = 1
    MaxRedirects = 1
SYMMETRY TaskSymmetry

INVARIANTS
    TraceInv

PROPERTIES
    EnvelopeKept

SPECIFICATION TestSpec
CONSTANTS
    Destinations = {d1, d2, d3}
    Requests = {r1, r2}
    Maximum = 2
    AttemptLimit = 0
    MaxFailures = 2
    Reset = 1
    Watched = d1
SYMMETRY Symmetry

INVARIANTS
    RegistryInv

PROPERTIES
    ImplementsBreaker

SPECIFICATION Spec
CONSTANTS
    Calls = {c1, c2, c3}
    MaxFailures = 2
    Reset = 2
    AllowedRetries = 1
    AttemptLimit = 1
    MaxBackoff = 2
SYMMETRY CallSymmetry
INVARIANT AtMostOneTrial

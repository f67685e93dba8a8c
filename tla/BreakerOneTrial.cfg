SPECIFICATION Spec
CONSTANTS
    Calls = {c1, c2, c3}
    MaxFailures = 2
    Reset = 3
    AllowedRetries = 2
    AttemptLimit = 2
    MaxBackoff = 2
SYMMETRY CallSymmetry
INVARIANT AtMostOneTrial
PROPERTY OnlyTrialDecides

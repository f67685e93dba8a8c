SPECIFICATION FairSpec
CONSTANTS
    Requests = {r1, r2}
    MaxLeases = 1
    AllowedRetries = 1
    MaxCancels = 2

INVARIANTS
    LeaseInv
    LeaseCoversWork
    CancellationHonoured
    OneUploadWins

PROPERTIES
    LeasesEnd

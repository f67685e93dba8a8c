SPECIFICATION FairSpec
CONSTANTS
    Attempts = 2
    MaxCancels = 3
CHECK_DEADLOCK FALSE

INVARIANTS
    CleanupInv
    OutcomeInv

PROPERTIES
    EveryCallEnds

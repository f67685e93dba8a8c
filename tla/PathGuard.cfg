SPECIFICATION Spec
CONSTANTS
    Blocks = 3
    Limit = 2
    MaxMoves = 3
    MaxCancels = 2

INVARIANTS
    GuardInv
    CleanupInv

PROPERTIES
    ExistingKept

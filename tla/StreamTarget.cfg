SPECIFICATION FairSpec
CONSTANTS
    Overwriting = {o1}
    Exclusive = {e1, e2}
    Chunks = 1
    MaxCancels = 1
CHECK_DEADLOCK FALSE

INVARIANTS
    TargetInv
    OutcomeHonest
    NothingLeft

PROPERTIES
    ExistingKept
    EveryStreamEnds

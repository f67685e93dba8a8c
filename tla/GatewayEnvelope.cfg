SPECIFICATION Spec
CHECK_DEADLOCK FALSE

INVARIANTS
    EnvelopeInv
    PeerJudged
    MaskedOnlyInEcho
    ArgumentsDecide

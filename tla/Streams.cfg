SPECIFICATION Spec
CONSTANTS
    Routes <- Pairs
    Counts = {0, 5}
    InputTokens = 2
    MaxFrames = 4
    None = None
    Omitted = Omitted
INVARIANTS
    RelayIsFaithful
    BilledAsRelayed
    ClosedBeforePaid
CHECK_DEADLOCK FALSE

SPECIFICATION Spec
CONSTANTS
    r1 = r1
    r2 = r2
    r3 = r3
    b1 = b1
    b2 = b2
    b3 = b3
    Requests = {r1, r2, r3}
    IdemKeys = {"k"}
    Sessions = {"s"}
    Bodies = {b1, b2, b3}
    Ask <- Asks
    Inputs <- Requested
    Snapshots <- TwoSnapshots
    Unrestricted = Unrestricted
    None = None
    MaxLosses = 1
    MaxDeaths = 1
INVARIANTS
    AnswersFit
    BilledOnce
    ServedAsAsked
PROPERTIES
    SessionStays
SYMMETRY Symmetry
CHECK_DEADLOCK FALSE

SPECIFICATION FairSpec
CONSTANTS
    k1 = k1
    r1 = r1
    r2 = r2
    w1 = w1
    w2 = w2
    Keys = {k1}
    Requests = {r1, r2}
    Workers = {w1, w2}
    KeyOf <- OneKey
    Estimates = {1}
    Costs = {2}
    Limits = {2, NoLimit}
    NoLimit = NoLimit
    Absent = Absent
    NoWorker = NoWorker
    NoRequest = NoRequest
    MaxFaults = 1
INVARIANTS
    SpendIsLedger
    ReservedIsHeld
    CounterNeverAhead
    ProcessedIsFreed
    MissingOnlyByOverlap
PROPERTIES
    LedgerSpec
    SettlementsAreCarried
CHECK_DEADLOCK FALSE

SPECIFICATION FairSpec
CONSTANTS
    w1 = w1
    w2 = w2
    b1 = b1
    t1 = t1
    q1 = q1
    MaxVersion = 2
    MaxOpen = 1
    Workers = {w1}
    Rebuilders = {b1}
    Tools = {}
    Requests = {q1}
    Retention = 2
    ValidTables <- BrokenThenRepaired
    None = None
    Refused = Refused
    MaxFaults = 1
    MaxLosses = 1
INVARIANTS
    RequestsSeeValid
PROPERTIES
    OutboxDrains
    ServiceRecovers
CHECK_DEADLOCK FALSE

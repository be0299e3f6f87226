SPECIFICATION Spec
CONSTANTS
    w1 = w1
    w2 = w2
    b1 = b1
    t1 = t1
    q1 = q1
    MaxVersion = 2
    MaxOpen = 2
    Workers = {w1, w2}
    Rebuilders = {b1}
    Tools = {t1}
    Requests = {}
    Retention = 1
    ValidTables <- AlwaysValid
    None = None
    Refused = Refused
    MaxFaults = 1
    MaxLosses = 0
SYMMETRY WorkerSymmetry
INVARIANTS
    ActiveIsReady
    PublishedIsActivated
    PublishedIsServedUnlessLate
PROPERTIES
    ConfigSpec
CHECK_DEADLOCK FALSE

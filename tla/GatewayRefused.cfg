SPECIFICATION Spec
CONSTANTS
    r1 = r1
    r2 = r2
    r3 = r3
    c1 = c1
    c2 = c2
    Requests = {r1, r2}
    Connections = {c1, c2}
    Kinds = {"response"}
    Offers <- BothOffered
    Rankings <- FirstThenSecond
    SlotLimit <- OneSlot
    CallQuota <- NoCalls
    TokenLimit = 5
    RequestLimit = 2
    Threshold = 1
    Absent = Absent
    Reports = {1, 5}
    MaxFaults = 0
    MaxLosses = 0
SYMMETRY RequestSymmetry
PROPERTIES
    RefusedOnlyWhenBusy
CHECK_DEADLOCK FALSE

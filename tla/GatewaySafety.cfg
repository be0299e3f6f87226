SPECIFICATION Spec
CONSTANTS
    r1 = r1
    r2 = r2
    r3 = r3
    c1 = c1
    c2 = c2
    Requests = {r1, r2}
    Connections = {c1, c2}
    Kinds = {"structured", "embedding", "stream"}
    Offers <- BothOffered
    Rankings <- FirstThenSecond
    SlotLimit <- OneSlot
    CallQuota <- TwoCalls
    TokenLimit = 5
    RequestLimit = 2
    Threshold = 1
    Absent = Absent
    Reports = {1, 5}
    MaxFaults = 1
    MaxLosses = 1
SYMMETRY RequestSymmetry
INVARIANTS
    ActiveWithinLimit
    TokensWithinLimit
    TokensAreCounted
    AnswersAreCovered
    EndedIsBalanced
CHECK_DEADLOCK FALSE

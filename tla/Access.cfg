SPECIFICATION FairSpec
CONSTANTS
    k1 = k1
    k2 = k2
    m1 = m1
    m2 = m2
    r1 = r1
    r2 = r2
    a1 = a1
    a2 = a2
    Keys = {k1}
    Models = {m1, m2}
    Resolvers = {r1}
    Admins = {a1, a2}
    Allowlists <- OneOrAll
    Objectives = {"lowest-cost"}
    Unset = Unset
    Unrestricted = Unrestricted
    None = None
    TTL = 2
    MaxChanges = 2
    MaxFaults = 1
INVARIANTS
    StaleOnlyByOverlap
    DropsMissOnlyOverlaps
    GrantsWerePermitted
PROPERTIES
    ChangesAreKept
    RevocationTakesHold
CHECK_DEADLOCK FALSE

\* Every pair of requests on every consistent content of small tables.
CONSTANTS
    Admins = {a1, a2}
    Providers = {p1, p2}
    Models = {m1, m2}
    Candidates = {c1, c2}
    Aliases = {}
    Protocols = {openai, gemini}
    MaxRequests = 2
    MaxFailures = 1
    Absent = Absent
SPECIFICATION AdminSpec
SYMMETRY Symmetry
INVARIANTS
    OrphanedOnlyByOverlap
    LoadsAreWhole
PROPERTIES
    PatchesKeepOthers
    HalvesOnlyByOverlap
CHECK_DEADLOCK FALSE

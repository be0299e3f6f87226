\* Two requests that overlap, without failures: is the last candidate protected?
CONSTANTS
    Admins = {a1, a2}
    Providers = {p1, p2}
    Models = {m1, m2}
    Candidates = {c1, c2}
    Aliases = {}
    Protocols = {openai, gemini}
    MaxRequests = 2
    MaxFailures = 0
    Absent = Absent
SPECIFICATION AdminSpec
SYMMETRY Symmetry
PROPERTIES
    LastIsProtected
CHECK_DEADLOCK FALSE

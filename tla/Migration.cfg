SPECIFICATION Spec
CONSTANTS
    p1 = p1
    p2 = p2
    Migrators = {p1, p2}
    Sql <- SqlEntity
    Redis <- RedisEntities
    Count <- Source
    Circuits = {"circuit_states"}
    Versioned = {"usage_events"}
    Totalled = {"usage_events"}
    Serial = {"usage_events"}
    Live = {"idempotency_records", "circuit_states"}
    BatchSize <- Sizes
    AllowDisabled = {p2}
    Absent = Absent
    Foreign = Foreign
    None = None
    MaxVersions = 2
    MaxFaults = 2
    MaxExpiries = 1
    MaxLive = 1
INVARIANTS
    CheckpointedIsImported
    CompletedIsWhole
    OneVersion
PROPERTIES
    NeverOverwrites
CHECK_DEADLOCK FALSE

SPECIFICATION PurgesSpec
CONSTANTS
    r1 = r1
    r2 = r2
    r3 = r3
    k1 = k1
    Requests = {r1, r2, r3}
    Keys = {k1}
    KeyOf <- AllOneKey
    MaxPurges = 2
    None = None
    Handlers = {h1, h2}
    Rows = {s1, s2, s3}
    OldRows = {s1, s2, s3}
    TableOf <- AllSpans
    BatchSize = 2
    LruKeys = {e1, e2, e3, e4}
    Values = {v1, v2}
    MaxSize = 2
    DayLength = 4
    Night = {1}
    MaxAge = 4
    LargeAt = 2
    MaxFailures = 1
    MaxStops = 1
INVARIANTS EntryHasOwner OwnerKeepsEntry StaleOnlyByOverlap LockHolds MaintenanceHolds LruHolds
PROPERTIES WaitsAndPassesEnd ImplementsMap
CHECK_DEADLOCK FALSE

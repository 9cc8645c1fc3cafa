SPECIFICATION AnalyticsSpec
CONSTANTS
    s1 = s1
    s2 = s2
    m1 = m1
    m2 = m2
    NoProject = NoProject
    NoRow = NoRow
    NoInstant = NoInstant
    NoModel = NoModel
    Unknown = Unknown
    Absent = Absent
    NoInput = NoInput
    Sessions = {s1, s2}
    Subagents = {s2}
    Kinds = {"input", "cost"}
    Projects = {m1}
    Spends = {0, 1, 2}
    Sources = {"codex", "claude", "request"}
    MaxTime = 3
    BucketLength = 2
    MaxReports = 4
    MaxLate = 1
    MaxRestarts = 1
    MaxMarkers = 2
    MaxTurns = 1
    DayLength = 3
    LastDay = 4
    Offsets = {0, 1, 2}
    DayTicks = 2
    MonthLengths = {3, 4, 5}
    SeriesDays = 4
    RateDays = 2
    Models = {m1}
    MaxCalls = 2
INVARIANT SessionsAddUp
CHECK_DEADLOCK FALSE

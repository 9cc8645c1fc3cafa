SPECIFICATION FairSpec
CONSTANTS
    Exports = {logs, spans}
    SpanExports = {spans}
    Rows = 2
    MaxAttempts = 2
    MaxCrashes = 1
    None = None
INVARIANTS AckedStored FailuresLeaveNothing
PROPERTIES EveryAttemptAnswered StoreSpec
CHECK_DEADLOCK FALSE

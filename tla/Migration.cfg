SPECIFICATION FairSpec
CONSTANTS
    Processes = {daemon, cli}
    Daemon = daemon
    Spans = {s1}
    MaxLogs = 2
    MaxStops = 2
INVARIANTS SearchFollowsLogs MigratedOnce
PROPERTIES EndsUpMigrated

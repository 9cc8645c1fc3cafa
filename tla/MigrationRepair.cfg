SPECIFICATION Spec
CONSTANTS
    Processes = {daemon, cli}
    Daemon = daemon
    Spans = {s1}
    MaxLogs = 2
    MaxStops = 1
INVARIANTS RepairedOnceStarted

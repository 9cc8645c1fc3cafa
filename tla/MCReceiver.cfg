SPECIFICATION ReceiverFairSpec
CONSTANTS
    g1 = g1
    g2 = g2
    w1 = w1
    Handlers = {g1, g2, w1}
    Threshold = 3
    MaxFailures = 4
    Transports = {"logs", "http"}
    TransportOf <- LogsAndHttp
    Limit = 1
    MaxOrphans = 1
INVARIANTS AgreesUnlessOverlapped ServersHold
PROPERTIES ReceiverEnds
CHECK_DEADLOCK FALSE

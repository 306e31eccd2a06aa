CONSTANTS
    Aggregator = agg
    OtherClients = {cli}
    Streams = {s1, s2}
    NoStream = none
    UpdatesCap = 2
    WireCap = 1
    MockMode = FALSE
    MaxTop = 3
    MaxCuts = 0
SPECIFICATION FairSpec
PROPERTIES LatestQuoteMaintained
CHECK_DEADLOCK FALSE

CONSTANTS
    Aggregator = agg
    OtherClients = {cli}
    Streams = {s1, s2}
    NoStream = none
    UpdatesCap = 2
    WireCap = 2
    MockMode = TRUE
    MaxTop = 5
    MaxCuts = 2
SPECIFICATION FairSpec
INVARIANTS MockKeepsAll
CHECK_DEADLOCK FALSE
PROPERTIES DeliveredToOnlyStream

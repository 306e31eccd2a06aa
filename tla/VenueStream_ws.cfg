CONSTANTS
    Aggregator = agg
    OtherClients = {cli}
    Streams = {s1, s2}
    NoStream = none
    UpdatesCap = 2
    WireCap = 2
    MockMode = FALSE
    MaxTop = 5
    MaxCuts = 2
SPECIFICATION Spec
INVARIANTS TypeOK ChannelOrder WireOrder
PROPERTIES QuoteNeverRegresses ImplementsLossyFeed
CHECK_DEADLOCK FALSE

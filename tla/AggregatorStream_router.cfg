CONSTANTS
    m1 = m1
    m2 = m2
    all = all
    router = router
    cli = cli
    Markets = {m1, m2}
    AllMarkets = all
    Clients = {router}
    Wants <- MCWants
    Calls = {h1, h2}
    NoCall = none
    NoBook = nobook
    ChanCap = 2
    WireCap = 1
    MaxRev <- MCMaxRev
    MaxCuts = 1
SPECIFICATION FairSpec
INVARIANTS ChannelOrder NoGap FloorKept
CHECK_DEADLOCK FALSE
PROPERTIES EventuallyCurrent CallsEnd

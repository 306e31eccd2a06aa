CONSTANTS
    m1 = m1
    m2 = m2
    all = all
    router = router
    cli = cli
    Markets = {m1, m2}
    AllMarkets = all
    Clients = {router, cli}
    Wants <- MCWants
    Calls = {h1, h2}
    NoCall = none
    NoBook = nobook
    ChanCap = 1
    WireCap = 1
    MaxRev <- MCMaxRevSmall
    MaxCuts = 1
SPECIFICATION Spec
INVARIANTS TypeOK CallsExclusive
PROPERTIES ImplementsResyncFeed
CHECK_DEADLOCK FALSE

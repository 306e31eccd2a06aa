CONSTANTS
    o1 = o1
    o2 = o2
    m1 = m1
    m2 = m2
    Opps = {o1, o2}
    MarketOf <- MCMarketOf
    Markets <- MCMarkets
    AllMarkets = all
    NoOpp = noopp
    Calls = {h1}
    DedupeWindow = 2
    ChanCap = 2
SPECIFICATION FairSpec
INVARIANTS TypeOK CallsOK OncePerWindow
PROPERTIES StandingAnnounced CallsEnd

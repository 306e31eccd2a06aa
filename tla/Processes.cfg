CONSTANTS
    u1 = u1
    Nodes = {n1}
    Aggregator = aggregator
    Router = router
    Markets = {m1, m2}
    Users = {u1}
    UserOf <- MCUserOf
SPECIFICATION FairSpec
INVARIANTS Joined StreamsOwned ReportsFit
PROPERTIES RunOnceReturns StreamsReopen ShutdownEnds

CONSTANTS
    hip4 = hip4
    kalshi = kalshi
    Venues = {hip4, kalshi}
    Skew <- MCSkew
    QuoteStaleAfter = 1
    FeeBps = 0
    SlippageBps = 0
    MinNetEdgeBps = 1
    NoQuote = noquote
    Tops <- MCTops
    NoBook = nobook
    PipeCap = 1
    AgeCap = 3
    MaxLag = 2
SPECIFICATION FairSpec
INVARIANTS TypeOK StalenessBounded
PROPERTIES DeadVenueAvoided

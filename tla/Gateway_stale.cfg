CONSTANTS
    hip4 = hip4
    kalshi = kalshi
    Venues = {hip4, kalshi}
    Skew <- NoSkew
    QuoteStaleAfter = 1
    FeeBps = 0
    SlippageBps = 0
    MinNetEdgeBps = 1
    NoQuote = noquote
    Tops <- MCTops
    NoBook = nobook
    PipeCap = 1
    AgeCap = 3
    MaxLag = 2
SPECIFICATION Spec
INVARIANTS RouterAvoidsStaleQuotes

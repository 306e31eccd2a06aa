CONSTANTS
    Venues = {hip4, polymarket, kalshi}
    Skew <- MCSkew
    QuoteStaleAfter = 3
    FeeBps = 1
    SlippageBps = 1
    MinNetEdgeBps = 1
    NoQuote = noquote
    Prices = {1, 4, 5}
    NoBook = nobook
SPECIFICATION Spec
INVARIANTS RouteIsBest OpportunityIsBest OpportunityFound
CHECK_DEADLOCK FALSE

CONSTANTS
    MaxPrice = 2
    NoTop = notop
    Protocols = {"HIP4", "KALSHI", "POLYMARKET"}
    Assets = {yes}
    Yes = yes
    HyperliquidBps <- MCBps
    Quantities <- MCQuantities
    WireCap <- MCWireCap
    Depth <- MCDepth
    MaxChanges <- MCMaxChanges
    PerUnit = 3
    SnapshotDepth = 2
    Malformed = malformed
SPECIFICATION FairSpec
INVARIANTS TypeOK InSync SettledLevels PublishesBest SnapshotOrdered
PROPERTIES CatchesUp HealthHonest TopUncrossed

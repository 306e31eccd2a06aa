CONSTANTS
    MaxPrice = 2
    NoTop = notop
    Protocols = {"POLYMARKET"}
    Assets = {yes, no}
    Yes = yes
    HyperliquidBps <- MCBps
    Quantities <- MCQuantities
    WireCap <- MCWireCap
    Depth <- MCDepth
    MaxChanges <- MCMaxChanges
    PerUnit = 3
    SnapshotDepth = 2
    Malformed = malformed
SPECIFICATION Spec
INVARIANT MaintainsYesBook

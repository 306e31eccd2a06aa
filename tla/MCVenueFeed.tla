---------------------------- MODULE MCVenueFeed ----------------------------
(* Instances of VenueFeed for TLC: three prices, the lower two of which are *)
(* one in bps on Hyperliquid.  With three sizes of the exchange in a unit,  *)
(* quantity 1 is less than half a unit and 2 is not; Kalshi's are whole.    *)
EXTENDS VenueFeed

MCBps == [p \in Prices |-> IF p = 0 THEN 1 ELSE p]

MCQuantities == [v \in Protocols |-> [p \in Prices |->
    CASE v = "HIP4" -> IF p = 1 THEN {0, 1, 2} ELSE {0, 2}
      [] v = "KALSHI" -> IF p = 0 THEN {0, 1, 2} ELSE {0}
      [] v = "POLYMARKET" -> CASE p = 0 -> {0} [] p = 1 -> {0, 2} [] p = 2 -> {0, 1, 2}]]

MCDepth == [v \in Protocols |-> 2]
MCWireCap == [v \in Protocols |-> IF v = "KALSHI" THEN 2 ELSE 1]
MCMaxChanges == [v \in Protocols |-> IF v = "POLYMARKET" THEN 2 ELSE 1]
=============================================================================

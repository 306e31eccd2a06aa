-------------------------- MODULE MCOpportunities --------------------------
(* Instances of Opportunities for TLC: an opportunity in each of two        *)
(* markets.                                                                 *)
EXTENDS Opportunities

CONSTANTS o1, o2, m1, m2

MCMarkets == <<m1, m2>>
MCMarketOf == [o \in Opps |-> IF o = o1 THEN m1 ELSE m2]
=============================================================================

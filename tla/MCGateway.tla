----------------------------- MODULE MCGateway -----------------------------
(* Instances of Gateway for TLC: a cheap and a dear venue whose updates may *)
(* be as old as MaxLag when they reach the aggregator; the aggregator's     *)
(* clock is behind the one's and ahead of the other's, or they agree.       *)
EXTENDS Gateway

CONSTANTS hip4, kalshi, MaxLag

MCSkew == [v \in Venues |-> IF v = hip4 THEN -1 ELSE 1]

NoSkew == [v \in Venues |-> 0]

MCTops ==
    [v \in Venues |->
        LET ask == IF v = hip4 THEN 2 ELSE 4
        IN {[bid |-> ask - 1, bidQty |-> 5, ask |-> ask, askQty |-> 5, age |-> lag] :
              lag \in 0..MaxLag}]
=============================================================================

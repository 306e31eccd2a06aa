------------------------- MODULE MCAggregatorStream -------------------------
(* Instances of AggregatorStream for TLC: the router's client of market m1, *)
(* with or without a client that asks for every market, and enough calls    *)
(* for a handler to outlive its client.                                     *)
EXTENDS AggregatorStream

CONSTANTS m1, m2, all, router, cli

MCWants == [c \in Clients |-> IF c = router THEN m1 ELSE all]
MCMaxRev == [m \in Markets |-> IF m = m1 THEN 3 ELSE 1]
MCMaxRevSmall == [m \in Markets |-> IF m = m1 THEN 2 ELSE 1]
=============================================================================

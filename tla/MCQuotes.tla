------------------------------ MODULE MCQuotes ------------------------------
(* Every consolidated book that can be built from every combination of the  *)
(* venues' tops of book over a few prices, at both sides of the staleness   *)
(* limit, and what the router makes of it.                                  *)
EXTENDS Quotes

CONSTANTS Prices, NoBook

MCSkew == [v \in Venues |-> 0]

ASSUME PriceAssumption == Prices \subseteq Int

VARIABLES tops, book
vars == <<tops, book>>

Levels == [price : Prices, qty : {5}] \cup [price : {1}, qty : {0}]

TopOf(bid, ask, age) ==
    [bid |-> bid.price, bidQty |-> bid.qty, ask |-> ask.price, askQty |-> ask.qty,
     age |-> age]

Tops ==
    {TopOf(bid, ask, age) : bid \in Levels, ask \in Levels,
                            age \in {QuoteStaleAfter, QuoteStaleAfter + 1}}

Init ==
    /\ book = NoBook
    /\ \E quoting \in SUBSET Venues : tops \in [quoting -> Tops]

GetConsolidatedBook ==
    /\ book = NoBook
    /\ book' \in Books(tops)
    /\ UNCHANGED tops

Next == GetConsolidatedBook

Spec == Init /\ [][Next]_vars

\* A route takes the best price among fresh quotes, whatever the order of ties
\* and of stale quotes in between, and fails only if no quote is fresh.
RouteIsBest == book # NoBook => RoutesToBest(tops, book)

\* An announced opportunity is real: it meets the conditions on the venues'
\* own quotes, and no pair of venues has a better edge.
OpportunityIsBest == book # NoBook => ScanIsSound(tops, book)

\* The scanner, which only looks at the best ask and the best bid, overlooks
\* no cross-venue dislocation as long as no venue's own book is crossed.
OpportunityFound == book # NoBook /\ Uncrossed(tops) => ScanFinds(tops, book)
=============================================================================

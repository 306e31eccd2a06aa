----------------------------- MODULE LocalBook -----------------------------
(***************************************************************************)
(* The order book a venue node keeps of its market (internal/book), as the *)
(* quantity at each price of each side.  Quantity 0 means that the price is *)
(* not in the map, which never holds another quantity below 1.             *)
(*                                                                         *)
(* An operator whose name starts with Bad is a faulty variant.             *)
(***************************************************************************)
EXTENDS Integers, FiniteSetsExt, Sequences

CONSTANTS
    MaxPrice,   \* MaxPriceBps: probability 1
    NoTop       \* the error of TopOfBook: no order on either side

Prices == 0..MaxPrice

ASSUME BookAssumption == MaxPrice \in Nat \ {0}

Sides == {"bid", "ask"}

\* NewBook.
EmptyBook == [side \in Sides |-> [p \in Prices |-> 0]]

\* The levels a snapshot's list leaves in the map: of two entries for one
\* price the later one, of a quantity that is not positive nothing.
LevelsOf(list) ==
    [p \in Prices |->
        LET at == {i \in DOMAIN list : list[i].price = p /\ list[i].qty > 0}
        IN IF at = {} THEN 0 ELSE list[Max(at)].qty]

\* Bad: the map is not made anew.
BadApplySnapshot(b, lists) ==
    [side \in Sides |->
        [p \in Prices |-> Max({b[side][p], LevelsOf(lists[side])[p]})]]

ApplySnapshot(b, lists) == [side \in Sides |-> LevelsOf(lists[side])]

\* Bad: only quantity 0 removes a level.
BadSetLevel(b, side, p, qty) == [b EXCEPT ![side][p] = qty]

SetLevel(b, side, p, qty) == [b EXCEPT ![side][p] = IF qty <= 0 THEN 0 ELSE qty]

ApplyQuantityDelta(b, side, p, delta) ==
    SetLevel(b, side, p, b[side][p] + delta)

Listed(b, side) == {p \in Prices : b[side][p] > 0}

\* bestBid and bestAsk; the zero price if there is none.
Best(b, side) ==
    LET prices == Listed(b, side)
    IN IF prices = {} THEN 0 ELSE IF side = "bid" THEN Max(prices) ELSE Min(prices)

TopOfBook(b) ==
    IF \A side \in Sides : Listed(b, side) = {} THEN NoTop
    ELSE [side \in Sides |->
             [price |-> Best(b, side), qty |-> b[side][Best(b, side)]]]

\* Bad: both sides are sorted the way bids are.
BadBetter(side, p, q) == p > q

Better(side, p, q) == IF side = "bid" THEN p > q ELSE p < q

\* sortedBids and sortedAsks: the best price first, cut off at depth, where 0
\* stands for no limit.
Sorted(b, side, depth) ==
    LET prices == Listed(b, side)
        rank(p) == 1 + Cardinality({q \in prices : Better(side, q, p)})
        all == [i \in 1..Cardinality(prices) |->
                   LET p == CHOOSE q \in prices : rank(q) = i
                   IN [price |-> p, qty |-> b[side][p]]]
    IN IF depth > 0 /\ Len(all) > depth THEN SubSeq(all, 1, depth) ELSE all

Snapshot(b, depth) == [side \in Sides |-> Sorted(b, side, depth)]
=============================================================================

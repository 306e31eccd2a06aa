------------------------------- MODULE Quotes -------------------------------
(***************************************************************************)
(* How venues' quotes become a consolidated book, and what the router      *)
(* makes of such a book: a route for an intent, or an arbitrage            *)
(* opportunity.                                                            *)
(*                                                                         *)
(* `tops` maps the venues the aggregator has a quote from to their tops of *)
(* book.  The age of a quote is the time since the venue node received it, *)
(* which the aggregator reads off its own clock.                           *)
(*                                                                         *)
(* An operator whose name starts with Bad is not part of the model: it is  *)
(* the operator below it with a plausible bug, for the runs to reject.     *)
(***************************************************************************)
EXTENDS Integers, SequencesExt

CONSTANTS
    Venues,          \* HIP4, POLYMARKET, KALSHI
    Skew,            \* how far its clock is ahead of each venue node's
    QuoteStaleAfter, \* quote_stale_after_ms
    FeeBps,          \* default_fee_bps
    SlippageBps,     \* default_slippage_bps
    MinNetEdgeBps,   \* min_net_edge_bps
    NoQuote          \* "no healthy quote": the nil of firstHealthyAsk and -Bid

\* A venue's top of book in the store, and a quote in a consolidated book.
TopRecords == [bid : Int, bidQty : Int, ask : Int, askQty : Int, age : Int]

QuoteRecords == [venue : Venues, price : Int, qty : Int, stale : BOOLEAN, age : Int]

ASSUME QuotesAssumption ==
    /\ IsFiniteSet(Venues) /\ Skew \in [Venues -> Int]
    /\ QuoteStaleAfter \in Nat \ {0}
    /\ FeeBps \in Nat /\ SlippageBps \in Nat /\ MinNetEdgeBps \in Int
    /\ NoQuote \notin QuoteRecords

\* What the aggregator's store can hold.
TopsOK(tops) == DOMAIN tops \subseteq Venues /\ \A v \in DOMAIN tops : tops[v] \in TopRecords

Sides == {"BUY_YES", "SELL_YES"}

-----------------------------------------------------------------------------
(* The consolidated book *)

\* Bad: the age of a quote is not looked at.
BadIsStale(v, top) == FALSE

\* A quote's age as the aggregator measures it: now.Sub(ReceiveTs).
Measured(v, age) == age + Skew[v]

\* What buildConsolidatedBookLocked calls isStale.  The Stale flag of an
\* update is FALSE: a node computes it right after it received the message.
IsStale(v, top) == Measured(v, top.age) > QuoteStaleAfter

Quote(v, top, price, qty) ==
    [venue |-> v, price |-> price, qty |-> qty, stale |-> IsStale(v, top), age |-> top.age]

BidQuotes(tops) ==
    {Quote(v, tops[v], tops[v].bid, tops[v].bidQty) :
        v \in {u \in DOMAIN tops : tops[u].bidQty > 0}}

AskQuotes(tops) ==
    {Quote(v, tops[v], tops[v].ask, tops[v].askQty) :
        v \in {u \in DOMAIN tops : tops[u].askQty > 0}}

\* Bad: asks are sorted like bids.
BadBooks(tops) ==
    {b \in [bids : SetToSeqs(BidQuotes(tops)), asks : SetToSeqs(AskQuotes(tops)),
            age : {0}] :
        /\ \A i, j \in DOMAIN b.bids : i < j => b.bids[i].price >= b.bids[j].price
        /\ \A i, j \in DOMAIN b.asks : i < j => b.asks[i].price >= b.asks[j].price}

\* The books that can be built from tops.  Quotes of equal price come in any
\* order: that of the map's iteration, which the unstable sort may change.
Books(tops) ==
    {b \in [bids : SetToSeqs(BidQuotes(tops)), asks : SetToSeqs(AskQuotes(tops)),
            age : {0}] :
        /\ \A i, j \in DOMAIN b.bids : i < j => b.bids[i].price >= b.bids[j].price
        /\ \A i, j \in DOMAIN b.asks : i < j => b.asks[i].price <= b.asks[j].price}

-----------------------------------------------------------------------------
(* Routes and opportunities *)

Healthy(q) == ~q.stale /\ q.qty > 0

\* Bad: only the first quote is looked at.
BadFirstHealthy(s) == IF s # << >> /\ Healthy(s[1]) THEN s[1] ELSE NoQuote

FirstHealthy(s) ==
    LET i == SelectInSeq(s, Healthy) IN IF i = 0 THEN NoQuote ELSE s[i]

\* SelectRoute: the quote a route uses, or NoQuote for its error.  The
\* quantity of the route is the smaller of the one asked for and the quote's.
RouteQuote(book, side) ==
    FirstHealthy(IF side = "BUY_YES" THEN book.asks ELSE book.bids)

\* Bad: the fee is charged for one leg only.
BadNetEdge(ask, bid) == bid.price - ask.price - (FeeBps + SlippageBps)

NetEdge(ask, bid) == bid.price - ask.price - (FeeBps * 2 + SlippageBps)

Opportunity(ask, bid) ==
    [buy |-> ask.venue, sell |-> bid.venue, buyPrice |-> ask.price,
     sellPrice |-> bid.price, net |-> NetEdge(ask, bid)]

\* Scan: the opportunity between the best healthy ask and the best healthy bid.
Scan(book) ==
    LET ask == FirstHealthy(book.asks)
        bid == FirstHealthy(book.bids)
    IN IF /\ ask # NoQuote /\ bid # NoQuote
          /\ ask.venue # bid.venue
          /\ bid.price > ask.price
          /\ NetEdge(ask, bid) >= MinNetEdgeBps
       THEN {Opportunity(ask, bid)} ELSE {}

-----------------------------------------------------------------------------
(* What they should be, said of the venues' tops of book *)

\* The prices at which a venue can be traded.
FreshAsks(tops) == {q \in AskQuotes(tops) : Measured(q.venue, q.age) <= QuoteStaleAfter}
FreshBids(tops) == {q \in BidQuotes(tops) : Measured(q.venue, q.age) <= QuoteStaleAfter}

\* The venues' pairs of quotes that are worth an opportunity, as
\* docs/architecture.md lists the conditions.
Dislocations(tops) ==
    {p \in FreshAsks(tops) \X FreshBids(tops) :
        LET ask == p[1] bid == p[2] IN
        /\ ask.venue # bid.venue
        /\ bid.price > ask.price
        /\ bid.price - ask.price - 2 * FeeBps - SlippageBps >= MinNetEdgeBps}

\* No venue bids as much as it asks for.
Uncrossed(tops) ==
    \A v \in DOMAIN tops :
        tops[v].bidQty > 0 /\ tops[v].askQty > 0 => tops[v].bid < tops[v].ask

\* "Route BUY_YES to lowest healthy ask", "SELL_YES to highest healthy bid".
RoutesToBest(tops, book) ==
    LET buy == RouteQuote(book, "BUY_YES")
        sell == RouteQuote(book, "SELL_YES")
    IN /\ IF FreshAsks(tops) = {} THEN buy = NoQuote
          ELSE buy \in FreshAsks(tops) /\ \A q \in FreshAsks(tops) : buy.price <= q.price
       /\ IF FreshBids(tops) = {} THEN sell = NoQuote
          ELSE sell \in FreshBids(tops) /\ \A q \in FreshBids(tops) : sell.price >= q.price

\* Every opportunity found is a dislocation, and the best one there is.
ScanIsSound(tops, book) ==
    \A o \in Scan(book) :
        /\ \E p \in Dislocations(tops) : o = Opportunity(p[1], p[2])
        /\ \A p \in Dislocations(tops) :
              o.net >= p[2].price - p[1].price - 2 * FeeBps - SlippageBps

\* A dislocation between venues is not overlooked.
ScanFinds(tops, book) == Dislocations(tops) # {} => Scan(book) # {}
=============================================================================

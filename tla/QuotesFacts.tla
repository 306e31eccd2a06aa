---------------------------- MODULE QuotesFacts ----------------------------
(***************************************************************************)
(* What a consolidated book is worth, for all venues, prices, ages and     *)
(* costs: a route takes the best fresh price, an opportunity is real and   *)
(* the best there is, and none is overlooked while no venue is crossed.    *)
(*                                                                         *)
(* The argument: a side of a book is the set of its quotes in order of     *)
(* price, so the first healthy quote is a best one of the healthy quotes,  *)
(* which are those of fresh tops of book.                                  *)
(***************************************************************************)
EXTENDS Quotes, FiniteSetTheorems, WellFoundedInduction, TLAPS

-----------------------------------------------------------------------------
(* The sides of a book *)

\* A sequence made of a finite set has its elements, and each of them.
LEMMA SeqsOfSet ==
    ASSUME NEW S, IsFiniteSet(S), NEW s \in SetToSeqs(S)
    PROVE  s \in Seq(S) /\ \A x \in S : \E i \in DOMAIN s : s[i] = x
<1> DEFINE n == Cardinality(S)
<1>1. n \in Nat
    BY FS_CardinalityType
<1>2. s \in [1..n -> S] /\ \A i, j \in 1..n : i # j => s[i] # s[j]
    BY DEF SetToSeqs
<1>3. Cardinality(1..n) = n
    BY <1>1, FS_Interval
<1>4. n = Cardinality(S)
    OBVIOUS
<1> HIDE DEF n
<1>5. s \in Injection(1..n, S)
    BY <1>2 DEF Injection, IsInjective
<1>6. s \in Surjection(1..n, S)
    BY <1>3, <1>4, <1>5, FS_Injection
<1> QED BY <1>1, <1>2, <1>6 DEF Surjection

\* A quote over the limit, by the aggregator's clock.
TooOld(q) == Measured(q.venue, q.age) > QuoteStaleAfter

LEMMA QuoteFacts ==
    ASSUME NEW v \in Venues, NEW top \in TopRecords, NEW p \in Int, NEW n \in Int
    PROVE  /\ Quote(v, top, p, n) \in QuoteRecords
           /\ Quote(v, top, p, n).stale = TooOld(Quote(v, top, p, n))
<1>1. top.age \in Int
    BY DEF TopRecords
<1>2. IsStale(v, top) \in BOOLEAN
    BY DEF IsStale
<1>3. Quote(v, top, p, n).venue = v /\ Quote(v, top, p, n).age = top.age
      /\ Quote(v, top, p, n).stale = IsStale(v, top)
    BY DEF Quote
<1>4. Quote(v, top, p, n).stale = TooOld(Quote(v, top, p, n))
    BY <1>3 DEF IsStale, TooOld
<1>5. Quote(v, top, p, n) \in QuoteRecords
    BY <1>1, <1>2 DEF Quote, QuoteRecords
<1> QED BY <1>4, <1>5

\* A set of quotes as the store's tops of book give it.
Quoting(S) ==
    /\ IsFiniteSet(S)
    /\ \A q \in S : q \in QuoteRecords /\ q.stale = TooOld(q) /\ q.qty > 0

LEMMA QuotesFacts ==
    ASSUME NEW t, TopsOK(t)
    PROVE  Quoting(BidQuotes(t)) /\ Quoting(AskQuotes(t))
<1>1. \A v \in DOMAIN t : v \in Venues /\ t[v] \in TopRecords
    BY DEF TopsOK
<1>2. \A v \in DOMAIN t : t[v].bid \in Int /\ t[v].bidQty \in Int
                            /\ t[v].ask \in Int /\ t[v].askQty \in Int
    BY <1>1 DEF TopRecords
<1> DEFINE BidOf(v) == Quote(v, t[v], t[v].bid, t[v].bidQty)
           AskOf(v) == Quote(v, t[v], t[v].ask, t[v].askQty)
           D == {u \in DOMAIN t : t[u].bidQty > 0}
           E == {u \in DOMAIN t : t[u].askQty > 0}
           OK(q) == q \in QuoteRecords /\ q.stale = TooOld(q) /\ q.qty > 0
<1>3. ASSUME NEW v \in DOMAIN t
      PROVE  /\ BidOf(v) \in QuoteRecords /\ AskOf(v) \in QuoteRecords
             /\ BidOf(v).stale = TooOld(BidOf(v))
             /\ AskOf(v).stale = TooOld(AskOf(v))
             /\ BidOf(v).qty = t[v].bidQty /\ AskOf(v).qty = t[v].askQty
    <2>1. BidOf(v).qty = t[v].bidQty /\ AskOf(v).qty = t[v].askQty
        BY DEF Quote
    <2> QED BY <1>1, <1>2, <2>1, QuoteFacts
<1>4. (\A v \in D : OK(BidOf(v))) /\ (\A v \in E : OK(AskOf(v)))
    BY <1>3
<1>5. BidQuotes(t) = {BidOf(v) : v \in D} /\ AskQuotes(t) = {AskOf(v) : v \in E}
    BY DEF BidQuotes, AskQuotes
<1>6. IsFiniteSet(D) /\ IsFiniteSet(E)
    <2>1. D \subseteq Venues /\ E \subseteq Venues
        BY <1>1
    <2> QED BY <2>1, FS_Subset, QuotesAssumption
<1> HIDE DEF BidOf, AskOf, D, E
<1>7. IsFiniteSet({BidOf(v) : v \in D})
    <2>1. [v \in D |-> BidOf(v)] \in Surjection(D, {BidOf(v) : v \in D})
        BY DEF Surjection
    <2> QED BY <2>1, <1>6, FS_Surjection
<1>8. IsFiniteSet({AskOf(v) : v \in E})
    <2>1. [v \in E |-> AskOf(v)] \in Surjection(E, {AskOf(v) : v \in E})
        BY DEF Surjection
    <2> QED BY <2>1, <1>6, FS_Surjection
<1>9. (\A q \in BidQuotes(t) : OK(q)) /\ (\A q \in AskQuotes(t) : OK(q))
    BY <1>4, <1>5
<1> QED BY <1>5, <1>7, <1>8, <1>9 DEF Quoting

\* The quotes of a side that can be traded on: fresh ones.
HealthyIn(S) == {q \in S : Measured(q.venue, q.age) <= QuoteStaleAfter}

LEMMA HealthyFacts ==
    ASSUME NEW S, Quoting(S), NEW q \in S
    PROVE  Healthy(q) <=> q \in HealthyIn(S)
<1>1. q \in QuoteRecords /\ q.stale = TooOld(q) /\ q.qty > 0
    BY DEF Quoting
<1> DEFINE n == Measured(q.venue, q.age)
<1>2. n \in Int /\ QuoteStaleAfter \in Int
    <2>1. q.age \in Int /\ q.venue \in Venues
        BY <1>1 DEF QuoteRecords
    <2>2. Skew[q.venue] \in Int
        BY <2>1, QuotesAssumption
    <2> QED BY <2>1, <2>2, QuotesAssumption DEF Measured
<1>3. ~q.stale <=> ~(n > QuoteStaleAfter)
    BY <1>1, Zenon DEF TooOld
<1> HIDE DEF n
<1>4. ~q.stale <=> n <= QuoteStaleAfter
    BY <1>2, <1>3
<1> QED BY <1>1, <1>4 DEF Healthy, HealthyIn, n

\* FirstHealthy finds the first healthy quote if there is any.
LEMMA FirstHealthyFacts ==
    ASSUME NEW S, NEW s \in Seq(S)
    PROVE  \/ /\ FirstHealthy(s) = NoQuote
              /\ \A i \in DOMAIN s : ~Healthy(s[i])
           \/ \E i \in DOMAIN s :
                 /\ FirstHealthy(s) = s[i] /\ Healthy(s[i])
                 /\ \A j \in DOMAIN s : Healthy(s[j]) => i <= j
<1> DEFINE I == {i \in 1..Len(s) : Healthy(s[i])}
<1>1. I \subseteq Nat /\ DOMAIN s = 1..Len(s)
    OBVIOUS
<1>2. FirstHealthy(s) = IF SelectInSeq(s, Healthy) = 0 THEN NoQuote
                        ELSE s[SelectInSeq(s, Healthy)]
    BY DEF FirstHealthy
<1>3. SelectInSeq(s, Healthy) = IF I # {} THEN Min(I) ELSE 0
    BY DEF SelectInSeq
<1>4. CASE I = {}
    BY <1>1, <1>2, <1>3, <1>4
<1>5. CASE I # {}
    <2> HIDE DEF I
    <2>1. PICK x \in I : \A y \in I : ~(<<y, x>> \in OpToRel(<, Nat))
        BY <1>1, <1>5, NatLessThanWellFounded, WFMin
    <2>2. ASSUME NEW y \in I PROVE x <= y
        <3>1. x \in Nat /\ y \in Nat
            BY <1>1
        <3>2. <<y, x>> \in Nat \X Nat /\ <<y, x>>[1] = y /\ <<y, x>>[2] = x
            BY <3>1
        <3>3. ~(y < x)
            BY <2>1, <3>2 DEF OpToRel
        <3> QED BY <3>1, <3>3
    <2>3. Min(I) \in I /\ \A y \in I : Min(I) <= y
        BY <2>2 DEF Min
    <2>4. Min(I) \in DOMAIN s /\ Healthy(s[Min(I)]) /\ Min(I) # 0
          /\ \A j \in DOMAIN s : Healthy(s[j]) => j \in I
        BY <1>1, <2>3 DEF I
    <2>5. FirstHealthy(s) = s[Min(I)]
        BY <1>2, <1>3, <1>5, <2>4
    <2> QED BY <2>3, <2>4, <2>5
<1> QED BY <1>4, <1>5

Ascending(s) == \A i, j \in DOMAIN s : i < j => s[i].price <= s[j].price
Descending(s) == \A i, j \in DOMAIN s : i < j => s[i].price >= s[j].price

\* Of a side in order of price, FirstHealthy is as good as any fresh quote.
LEMMA FirstIsBest ==
    ASSUME NEW S, Quoting(S), NEW s \in SetToSeqs(S)
    PROVE  /\ FirstHealthy(s) \in HealthyIn(S)
              \/ (FirstHealthy(s) = NoQuote /\ HealthyIn(S) = {})
           /\ Ascending(s) => \A q \in HealthyIn(S) : FirstHealthy(s).price <= q.price
           /\ Descending(s) => \A q \in HealthyIn(S) : FirstHealthy(s).price >= q.price
<1>1. s \in Seq(S) /\ \A x \in S : \E i \in DOMAIN s : s[i] = x
    BY SeqsOfSet DEF Quoting
<1>2. (\A i \in DOMAIN s : s[i] \in S) /\ DOMAIN s \subseteq Int
    BY <1>1
<1>3. \A q \in S : (Healthy(q) <=> q \in HealthyIn(S)) /\ q.price \in Int
    <2>1. \A q \in S : q.price \in Int
        BY DEF Quoting, QuoteRecords
    <2> QED BY <2>1, HealthyFacts
<1>4. HealthyIn(S) \subseteq S
    BY DEF HealthyIn
<1>5. CASE FirstHealthy(s) = NoQuote /\ \A i \in DOMAIN s : ~Healthy(s[i])
    <2>1. HealthyIn(S) = {}
        BY <1>1, <1>3, <1>4, <1>5
    <2> QED BY <1>5, <2>1
<1>6. CASE \E i \in DOMAIN s :
              /\ FirstHealthy(s) = s[i] /\ Healthy(s[i])
              /\ \A j \in DOMAIN s : Healthy(s[j]) => i <= j
    <2>1. PICK i \in DOMAIN s :
              /\ FirstHealthy(s) = s[i] /\ Healthy(s[i])
              /\ \A j \in DOMAIN s : Healthy(s[j]) => i <= j
        BY <1>6
    <2>2. FirstHealthy(s) \in HealthyIn(S)
        BY <1>2, <1>3, <2>1
    <2>3. ASSUME NEW q \in HealthyIn(S)
          PROVE  \E j \in DOMAIN s : q = s[j] /\ (i < j \/ i = j)
        <3>1. PICK j \in DOMAIN s : s[j] = q
            BY <1>1, <1>4
        <3>2. i <= j
            BY <1>3, <1>4, <2>1, <3>1
        <3> QED BY <1>2, <3>1, <3>2
    <2>4. s[i].price \in Int
        BY <1>2, <1>3
    <2>5. Ascending(s) => \A q \in HealthyIn(S) : FirstHealthy(s).price <= q.price
        BY <2>1, <2>3, <2>4 DEF Ascending
    <2>6. Descending(s) => \A q \in HealthyIn(S) : FirstHealthy(s).price >= q.price
        BY <2>1, <2>3, <2>4 DEF Descending
    <2> QED BY <2>2, <2>5, <2>6
<1>7. \/ /\ FirstHealthy(s) = NoQuote
         /\ \A i \in DOMAIN s : ~Healthy(s[i])
      \/ \E i \in DOMAIN s :
            /\ FirstHealthy(s) = s[i] /\ Healthy(s[i])
            /\ \A j \in DOMAIN s : Healthy(s[j]) => i <= j
    BY <1>1, FirstHealthyFacts
<1> QED BY <1>5, <1>6, <1>7

-----------------------------------------------------------------------------
(* Routes *)

\* The best ask and the best bid of a book, or NoQuote.
LEMMA BestOfBook ==
    ASSUME NEW t, TopsOK(t), NEW b \in Books(t)
    PROVE  /\ FirstHealthy(b.asks) \in FreshAsks(t)
              \/ (FirstHealthy(b.asks) = NoQuote /\ FreshAsks(t) = {})
           /\ FirstHealthy(b.bids) \in FreshBids(t)
              \/ (FirstHealthy(b.bids) = NoQuote /\ FreshBids(t) = {})
           /\ \A q \in FreshAsks(t) : FirstHealthy(b.asks).price <= q.price
           /\ \A q \in FreshBids(t) : FirstHealthy(b.bids).price >= q.price
<1>1. b.bids \in SetToSeqs(BidQuotes(t)) /\ b.asks \in SetToSeqs(AskQuotes(t))
    BY DEF Books
<1>2. Descending(b.bids) /\ Ascending(b.asks)
    BY DEF Books, Ascending, Descending
<1>3. Quoting(BidQuotes(t)) /\ Quoting(AskQuotes(t))
    BY QuotesFacts
<1>4. FreshAsks(t) = HealthyIn(AskQuotes(t)) /\ FreshBids(t) = HealthyIn(BidQuotes(t))
    BY DEF FreshAsks, FreshBids, HealthyIn
<1>5. /\ FirstHealthy(b.asks) \in FreshAsks(t)
         \/ (FirstHealthy(b.asks) = NoQuote /\ FreshAsks(t) = {})
      /\ \A q \in FreshAsks(t) : FirstHealthy(b.asks).price <= q.price
    BY <1>1, <1>2, <1>3, <1>4, FirstIsBest
<1>6. /\ FirstHealthy(b.bids) \in FreshBids(t)
         \/ (FirstHealthy(b.bids) = NoQuote /\ FreshBids(t) = {})
      /\ \A q \in FreshBids(t) : FirstHealthy(b.bids).price >= q.price
    BY <1>1, <1>2, <1>3, <1>4, FirstIsBest
<1> QED BY <1>5, <1>6

\* A route takes the best price among fresh quotes, whatever the order of ties
\* and of stale quotes in between, and fails only if no quote is fresh.
THEOREM BestRoute ==
    ASSUME NEW t, TopsOK(t), NEW b \in Books(t)
    PROVE  RoutesToBest(t, b)
<1>1. RouteQuote(b, "BUY_YES") = FirstHealthy(b.asks)
      /\ RouteQuote(b, "SELL_YES") = FirstHealthy(b.bids)
    BY DEF RouteQuote
<1>2. IF FreshAsks(t) = {} THEN FirstHealthy(b.asks) = NoQuote
      ELSE /\ FirstHealthy(b.asks) \in FreshAsks(t)
           /\ \A q \in FreshAsks(t) : FirstHealthy(b.asks).price <= q.price
    BY BestOfBook
<1>3. IF FreshBids(t) = {} THEN FirstHealthy(b.bids) = NoQuote
      ELSE /\ FirstHealthy(b.bids) \in FreshBids(t)
           /\ \A q \in FreshBids(t) : FirstHealthy(b.bids).price >= q.price
    BY BestOfBook
<1> QED BY <1>1, <1>2, <1>3 DEF RoutesToBest

-----------------------------------------------------------------------------
(* Opportunities *)

\* The prices that take part in an opportunity are integers, and quotes of
\* one venue have the sizes and prices of its top of book.
LEMMA FreshFacts ==
    ASSUME NEW t, TopsOK(t)
    PROVE  /\ \A q \in FreshAsks(t) : q # NoQuote /\ q.price \in Int /\ q.venue \in DOMAIN t
                 /\ t[q.venue].askQty > 0 /\ t[q.venue].ask = q.price
           /\ \A q \in FreshBids(t) : q # NoQuote /\ q.price \in Int /\ q.venue \in DOMAIN t
                 /\ t[q.venue].bidQty > 0 /\ t[q.venue].bid = q.price
<1>1. \A q \in FreshAsks(t) : q # NoQuote /\ q.price \in Int
    <2>1. \A q \in FreshAsks(t) : q \in QuoteRecords
        BY QuotesFacts DEF FreshAsks, Quoting
    <2> QED BY <2>1, QuotesAssumption DEF QuoteRecords
<1>2. \A q \in FreshBids(t) : q # NoQuote /\ q.price \in Int
    <2>1. \A q \in FreshBids(t) : q \in QuoteRecords
        BY QuotesFacts DEF FreshBids, Quoting
    <2> QED BY <2>1, QuotesAssumption DEF QuoteRecords
<1>3. ASSUME NEW q \in FreshAsks(t)
      PROVE  q.venue \in DOMAIN t /\ t[q.venue].askQty > 0 /\ t[q.venue].ask = q.price
    <2>1. PICK v \in {u \in DOMAIN t : t[u].askQty > 0} :
             q = Quote(v, t[v], t[v].ask, t[v].askQty)
        BY DEF FreshAsks, AskQuotes
    <2>2. q.venue = v /\ q.price = t[v].ask
        BY <2>1 DEF Quote
    <2> QED BY <2>1, <2>2
<1>4. ASSUME NEW q \in FreshBids(t)
      PROVE  q.venue \in DOMAIN t /\ t[q.venue].bidQty > 0 /\ t[q.venue].bid = q.price
    <2>1. PICK v \in {u \in DOMAIN t : t[u].bidQty > 0} :
             q = Quote(v, t[v], t[v].bid, t[v].bidQty)
        BY DEF FreshBids, BidQuotes
    <2>2. q.venue = v /\ q.price = t[v].bid
        BY <2>1 DEF Quote
    <2> QED BY <2>1, <2>2
<1> QED BY <1>1, <1>2, <1>3, <1>4

\* Fees and slippage cost every pair of quotes the same: a wider pair of prices
\* has the better edge.
LEMMA EdgeFacts ==
    ASSUME NEW a, NEW b, a.price \in Int, b.price \in Int
    PROVE  NetEdge(a, b) = b.price - a.price - 2 * FeeBps - SlippageBps
<1>1. FeeBps \in Int /\ SlippageBps \in Int
    BY QuotesAssumption
<1> QED BY <1>1 DEF NetEdge

LEMMA DislocationFacts ==
    ASSUME NEW t, NEW p
    PROVE  p \in Dislocations(t) <=>
              /\ p \in FreshAsks(t) \X FreshBids(t)
              /\ p[1].venue # p[2].venue
              /\ p[2].price > p[1].price
              /\ p[2].price - p[1].price - 2 * FeeBps - SlippageBps >= MinNetEdgeBps
    BY DEF Dislocations

\* An announced opportunity is real: it meets the conditions on the venues'
\* own quotes, and no pair of venues has a better edge.
THEOREM SoundScan ==
    ASSUME NEW t, TopsOK(t), NEW b \in Books(t)
    PROVE  ScanIsSound(t, b)
<1> DEFINE ask == FirstHealthy(b.asks)
           bid == FirstHealthy(b.bids)
<1>1. SUFFICES ASSUME NEW o \in Scan(b)
               PROVE  /\ \E p \in Dislocations(t) : o = Opportunity(p[1], p[2])
                      /\ \A p \in Dislocations(t) :
                            o.net >= p[2].price - p[1].price - 2 * FeeBps - SlippageBps
    BY DEF ScanIsSound
<1>2. /\ ask # NoQuote /\ bid # NoQuote /\ ask.venue # bid.venue
      /\ bid.price > ask.price /\ NetEdge(ask, bid) >= MinNetEdgeBps
      /\ o = Opportunity(ask, bid)
    BY <1>1 DEF Scan
<1>3. ask \in FreshAsks(t) /\ bid \in FreshBids(t)
      /\ (\A q \in FreshAsks(t) : ask.price <= q.price)
      /\ (\A q \in FreshBids(t) : bid.price >= q.price)
    BY <1>2, BestOfBook
<1> HIDE DEF ask, bid
<1>4. (\A q \in FreshAsks(t) : q.price \in Int) /\ (\A q \in FreshBids(t) : q.price \in Int)
    BY FreshFacts
<1>5. o.net = bid.price - ask.price - 2 * FeeBps - SlippageBps
    BY <1>2, <1>3, <1>4, EdgeFacts DEF Opportunity
<1>6. <<ask, bid>> \in Dislocations(t) /\ <<ask, bid>>[1] = ask /\ <<ask, bid>>[2] = bid
    <2>1. bid.price - ask.price - 2 * FeeBps - SlippageBps >= MinNetEdgeBps
        BY <1>2, <1>3, <1>4, EdgeFacts
    <2>2. <<ask, bid>> \in FreshAsks(t) \X FreshBids(t)
          /\ <<ask, bid>>[1] = ask /\ <<ask, bid>>[2] = bid
        BY <1>3
    <2> QED BY <1>2, <2>1, <2>2, DislocationFacts
<1>7. ASSUME NEW p \in Dislocations(t)
      PROVE  o.net >= p[2].price - p[1].price - 2 * FeeBps - SlippageBps
    <2>1. p[1] \in FreshAsks(t) /\ p[2] \in FreshBids(t)
        BY DislocationFacts
    <2>2. ask.price <= p[1].price /\ bid.price >= p[2].price
        BY <1>3, <2>1
    <2>3. ask.price \in Int /\ bid.price \in Int /\ p[1].price \in Int /\ p[2].price \in Int
          /\ FeeBps \in Int /\ SlippageBps \in Int
        BY <1>3, <1>4, <2>1, QuotesAssumption
    <2> QED BY <1>5, <2>2, <2>3
<1> QED BY <1>2, <1>6, <1>7

\* The scanner, which only looks at the best ask and the best bid, overlooks
\* no cross-venue dislocation as long as no venue's own book is crossed.
THEOREM CompleteScan ==
    ASSUME NEW t, TopsOK(t), Uncrossed(t), NEW b \in Books(t)
    PROVE  ScanFinds(t, b)
<1> DEFINE ask == FirstHealthy(b.asks)
           bid == FirstHealthy(b.bids)
<1>1. SUFFICES ASSUME NEW p \in Dislocations(t)
               PROVE  Scan(b) # {}
    BY DEF ScanFinds
<1>2. /\ p[1] \in FreshAsks(t) /\ p[2] \in FreshBids(t)
      /\ p[2].price > p[1].price
      /\ p[2].price - p[1].price - 2 * FeeBps - SlippageBps >= MinNetEdgeBps
    BY DislocationFacts
<1>3. ask \in FreshAsks(t) /\ bid \in FreshBids(t)
      /\ ask.price <= p[1].price /\ bid.price >= p[2].price
    BY <1>2, BestOfBook
<1>4. /\ ask # NoQuote /\ bid # NoQuote
      /\ ask.price \in Int /\ bid.price \in Int /\ p[1].price \in Int /\ p[2].price \in Int
    BY <1>2, <1>3, FreshFacts
<1>5. bid.price > ask.price
    BY <1>2, <1>3, <1>4
<1>6. ask.venue # bid.venue
    <2>1. SUFFICES ASSUME ask.venue = bid.venue PROVE FALSE
        OBVIOUS
    <2> DEFINE v == ask.venue
    <2>2. v \in DOMAIN t /\ t[v].askQty > 0 /\ t[v].ask = ask.price
        BY <1>3, FreshFacts
    <2>3. t[v].bidQty > 0 /\ t[v].bid = bid.price
        BY <1>3, <2>1, FreshFacts
    <2>4. t[v].bid < t[v].ask
        BY <2>2, <2>3 DEF Uncrossed
    <2> QED BY <1>4, <1>5, <2>2, <2>3, <2>4
<1>7. NetEdge(ask, bid) >= MinNetEdgeBps
    <2>1. NetEdge(ask, bid) = bid.price - ask.price - 2 * FeeBps - SlippageBps
        BY <1>4, EdgeFacts
    <2>2. FeeBps \in Int /\ SlippageBps \in Int /\ MinNetEdgeBps \in Int
        BY QuotesAssumption
    <2> HIDE DEF ask, bid
    <2> QED BY <1>2, <1>3, <1>4, <2>1, <2>2
<1>8. Scan(b) = {Opportunity(ask, bid)}
    BY <1>4, <1>5, <1>6, <1>7 DEF Scan
<1> QED BY <1>8
=============================================================================

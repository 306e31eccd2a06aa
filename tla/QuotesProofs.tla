---------------------------- MODULE QuotesProofs ----------------------------
(***************************************************************************)
(* The three invariants of MCQuotes, for all venues, prices, costs and     *)
(* limits: they follow from the theorems of QuotesFacts, as the book is    *)
(* always one that can be built from the venues' tops of book.             *)
(***************************************************************************)
EXTENDS MCQuotes, QuotesFacts

\* What a run starts from, and what it builds from it.
Built == TopsOK(tops) /\ (book = NoBook \/ book \in Books(tops))

LEMMA LevelFacts == Levels \subseteq [price : Int, qty : Int]
<1>1. [price : Prices, qty : {5}] \subseteq [price : Int, qty : Int]
    <2> SUFFICES ASSUME NEW x \in [price : Prices, qty : {5}]
                 PROVE  x \in [price : Int, qty : Int]
        OBVIOUS
    <2>1. PICK p \in Prices : x = [price |-> p, qty |-> 5]
        OBVIOUS
    <2>2. p \in Int
        BY PriceAssumption
    <2> QED BY <2>1, <2>2
<1>2. [price : {1}, qty : {0}] \subseteq [price : Int, qty : Int]
    OBVIOUS
<1> QED BY <1>1, <1>2 DEF Levels

LEMMA TopsFacts == Tops \subseteq TopRecords
<1> SUFFICES ASSUME NEW bid \in Levels, NEW ask \in Levels,
                    NEW age \in {QuoteStaleAfter, QuoteStaleAfter + 1}
             PROVE  TopOf(bid, ask, age) \in TopRecords
    BY DEF Tops
<1>1. /\ bid.price \in Int /\ bid.qty \in Int
      /\ ask.price \in Int /\ ask.qty \in Int
    BY LevelFacts
<1>2. age \in Int
    BY QuotesAssumption
<1> QED BY <1>1, <1>2, QuotesAssumption DEF TopOf, TopRecords

LEMMA AlwaysBuilt == Spec => []Built
<1>1. Init => Built
    BY TopsFacts DEF Init, Built, TopsOK
<1>2. Built /\ [Next]_vars => Built'
    BY DEF Built, Next, GetConsolidatedBook, vars
<1> QED BY <1>1, <1>2, PTL DEF Spec

\* The selector (router/selector.go) routes to the best fresh quote, whatever
\* the order of ties and of stale quotes in the consolidated book.
THEOREM RoutesBest == Spec => []RouteIsBest
<1>1. Built => RouteIsBest
    BY BestRoute DEF Built, RouteIsBest
<1> QED BY <1>1, AlwaysBuilt, PTL

\* What the scanner (arbitrage/scanner.go) announces is real, and the best
\* pair of venues.
THEOREM OpportunitiesBest == Spec => []OpportunityIsBest
<1>1. Built => OpportunityIsBest
    BY SoundScan DEF Built, OpportunityIsBest
<1> QED BY <1>1, AlwaysBuilt, PTL

\* While no venue's own book is crossed the scanner overlooks nothing.
THEOREM OpportunitiesFound == Spec => []OpportunityFound
<1>1. Built => OpportunityFound
    BY CompleteScan DEF Built, OpportunityFound
<1> QED BY <1>1, AlwaysBuilt, PTL
=============================================================================

-------------------------- MODULE VenueFeedProofs --------------------------
(***************************************************************************)
(* That a node's local book, its published tops and the answers of         *)
(* GetSnapshot are well formed, for all venues, prices, bounds and depths, *)
(* whatever the exchange sends and however messages fail; and that the     *)
(* messages lead the local book to the exchange's.                         *)
(*                                                                         *)
(* A snapshot is right because the rank of a price, one more than the      *)
(* number of better ones, is an injection of the listed prices into as     *)
(* many numbers, and so every rank has its price.                          *)
(*                                                                         *)
(* The messages lead to the exchange's book because there is a chain of    *)
(* books the exchange has had, one for the message in hand and one for     *)
(* each on the wire, each message the way from one to the next: SyncInv.   *)
(***************************************************************************)
EXTENDS VenueFeed, FiniteSetTheorems, SequenceTheorems, WellFoundedInduction, TLAPS

LocalBooks == [Sides -> [Prices -> Nat]]

-----------------------------------------------------------------------------
(* Least and greatest elements *)

LEMMA MinOf ==
    ASSUME NEW S, S \subseteq Nat, S # {}
    PROVE  Min(S) \in S /\ \A y \in S : Min(S) <= y
<1>1. PICK x \in S : \A y \in S : ~(<<y, x>> \in OpToRel(<, Nat))
    BY NatLessThanWellFounded, WFMin
<1>2. ASSUME NEW y \in S
      PROVE  x <= y
    <2>1. <<y, x>> \in Nat \X Nat /\ <<y, x>>[1] = y /\ <<y, x>>[2] = x
        OBVIOUS
    <2>2. ~(y < x)
        BY <1>1, <2>1 DEF OpToRel
    <2> QED BY <2>2
<1> QED BY <1>2 DEF Min

LEMMA MaxOf ==
    ASSUME NEW n \in Nat, NEW S, S \subseteq 0..n, S # {}
    PROVE  Max(S) \in S /\ \A y \in S : Max(S) >= y
<1> DEFINE T == {n - x : x \in S}
<1>1. T \subseteq Nat /\ T # {}
    <2>1. \A x \in S : n - x \in Nat
        OBVIOUS
    <2> QED BY <2>1
<1>2. Min(T) \in T /\ \A y \in T : Min(T) <= y
    BY <1>1, MinOf
<1>3. PICK x \in S : Min(T) = n - x
    BY <1>2
<1>4. \A y \in S : n - y \in T
    OBVIOUS
<1>5. \A y \in S : x >= y
    BY <1>2, <1>3, <1>4
<1> QED BY <1>5 DEF Max

-----------------------------------------------------------------------------
(* The local book *)

LEMMA PriceFacts ==
    /\ Prices = 0..MaxPrice /\ IsFiniteSet(Prices) /\ 0 \in Prices
    /\ \A p \in Prices : p \in Nat /\ MaxPrice - p \in Prices
<1>1. MaxPrice \in Nat /\ IsFiniteSet(0..MaxPrice)
    BY BookAssumption, FS_Interval
<1> QED BY <1>1 DEF Prices

LEMMA ListedFacts ==
    ASSUME NEW b \in LocalBooks, NEW side \in Sides
    PROVE  /\ Listed(b, side) \subseteq Prices
           /\ \A p \in Prices : b[side][p] \in Nat
           /\ \A p \in Prices : p \in Listed(b, side) <=> b[side][p] # 0
<1>1. b[side] \in [Prices -> Nat]
    BY DEF LocalBooks
<1> QED BY <1>1 DEF Listed

\* The best price of a side is there, and no listed one is better.
LEMMA BestFacts ==
    ASSUME NEW b \in LocalBooks, NEW side \in Sides
    PROVE  /\ Best(b, side) \in Prices
           /\ Listed(b, side) # {} =>
                /\ Best(b, side) \in Listed(b, side)
                /\ \A p \in Listed(b, side) : ~Better(side, p, Best(b, side))
<1> DEFINE prices == Listed(b, side)
<1>1. prices \subseteq 0..MaxPrice /\ prices \subseteq Nat
    BY ListedFacts, PriceFacts
<1>2. CASE prices = {}
    BY <1>2, PriceFacts DEF Best
<1>3. CASE prices # {} /\ side = "bid"
    <2>1. Max(prices) \in prices /\ \A p \in prices : Max(prices) >= p
        BY <1>1, <1>3, MaxOf, BookAssumption
    <2>2. Best(b, side) = Max(prices)
        BY <1>3 DEF Best
    <2> HIDE DEF prices
    <2>3. \A p \in prices : ~(p > Max(prices))
        <3> DEFINE x == Max(prices)
        <3>1. x \in Nat /\ \A p \in prices : p \in Nat /\ x >= p
            BY <1>1, <2>1
        <3> HIDE DEF x
        <3>2. \A p \in prices : ~(p > x)
            BY <3>1
        <3> QED BY <3>2 DEF x
    <2>4. Max(prices) \in Prices
        BY <1>1, <2>1, PriceFacts
    <2> QED BY <1>3, <2>1, <2>2, <2>3, <2>4 DEF Better, prices
<1>4. CASE prices # {} /\ side # "bid"
    <2>1. Min(prices) \in prices /\ \A p \in prices : Min(prices) <= p
        BY <1>1, <1>4, MinOf
    <2>2. Best(b, side) = Min(prices)
        BY <1>4 DEF Best
    <2> HIDE DEF prices
    <2>3. \A p \in prices : ~(p < Min(prices))
        <3> DEFINE x == Min(prices)
        <3>1. x \in Nat /\ \A p \in prices : p \in Nat /\ x <= p
            BY <1>1, <2>1
        <3> HIDE DEF x
        <3>2. \A p \in prices : ~(p < x)
            BY <3>1
        <3> QED BY <3>2 DEF x
    <2>4. Min(prices) \in Prices
        BY <1>1, <2>1, PriceFacts
    <2> QED BY <1>4, <2>1, <2>2, <2>3, <2>4 DEF Better, prices
<1> QED BY <1>2, <1>3, <1>4

LEMMA TopType ==
    ASSUME NEW b \in LocalBooks
    PROVE  TopOfBook(b) \in [Sides -> Level] \cup {NoTop}
<1>1. \A side \in Sides : Best(b, side) \in Prices /\ b[side][Best(b, side)] \in Nat
    BY BestFacts, ListedFacts
<1> QED BY <1>1 DEF TopOfBook, Level

LEMMA LevelsType ==
    ASSUME NEW list \in Seq(Level)
    PROVE  LevelsOf(list) \in [Prices -> Nat]
<1> SUFFICES ASSUME NEW p \in Prices
             PROVE  LevelsOf(list)[p] \in Nat
    BY DEF LevelsOf
<1> DEFINE at == {i \in DOMAIN list : list[i].price = p /\ list[i].qty > 0}
<1>1. Len(list) \in Nat /\ DOMAIN list = 1..Len(list)
    OBVIOUS
<1>2. LevelsOf(list)[p] = IF at = {} THEN 0 ELSE list[Max(at)].qty
    BY DEF LevelsOf
<1>3. CASE at = {}
    BY <1>2, <1>3
<1>4. CASE at # {}
    <2>1. at \subseteq 0..Len(list)
        BY <1>1
    <2>2. Max(at) \in at
        BY <1>1, <1>4, <2>1, MaxOf
    <2>3. Max(at) \in DOMAIN list
        BY <2>2
    <2>4. list[Max(at)] \in Level
        BY <1>1, <2>3
    <2>5. list[Max(at)].qty \in Nat
        BY <2>4 DEF Level
    <2> QED BY <1>2, <1>4, <2>5
<1> QED BY <1>3, <1>4

LEMMA UpdateType ==
    ASSUME NEW b \in LocalBooks, NEW side \in Sides, NEW p \in Prices, NEW n \in Int
    PROVE  SetLevel(b, side, p, n) \in LocalBooks /\ ApplyQuantityDelta(b, side, p, n) \in LocalBooks
<1>1. ASSUME NEW k \in Int
      PROVE  SetLevel(b, side, p, k) \in LocalBooks
    <2>1. (IF k <= 0 THEN 0 ELSE k) \in Nat
        OBVIOUS
    <2> QED BY <2>1 DEF SetLevel, LocalBooks
<1>2. b[side][p] + n \in Int
    BY ListedFacts
<1> QED BY <1>1, <1>2 DEF ApplyQuantityDelta

-----------------------------------------------------------------------------
(* Snapshots *)

Rank(S, side, p) == 1 + Cardinality({q \in S : Better(side, q, p)})

LEMMA BetterFacts ==
    ASSUME NEW side, NEW p \in Nat, NEW q \in Nat
    PROVE  /\ ~Better(side, p, p)
           /\ p # q => Better(side, p, q) \/ Better(side, q, p)
           /\ Better(side, p, q) => ~Better(side, q, p)
           /\ \A r \in Nat : Better(side, r, p) /\ Better(side, p, q) => Better(side, r, q)
    BY DEF Better

\* Ranks follow the prices, and there is a price of every rank.
LEMMA RankFacts ==
    ASSUME NEW S, S \subseteq Nat, IsFiniteSet(S), NEW side
    PROVE  /\ Cardinality(S) \in Nat
           /\ \A p \in S : Rank(S, side, p) \in 1..Cardinality(S)
           /\ \A p, q \in S : Better(side, p, q) => Rank(S, side, p) < Rank(S, side, q)
           /\ \A i \in 1..Cardinality(S) : \E p \in S : Rank(S, side, p) = i
<1> DEFINE n == Cardinality(S)
           before(p) == {q \in S : Better(side, q, p)}
<1>1. n \in Nat
    BY FS_CardinalityType
<1>2. \A p \in S : before(p) \in SUBSET S /\ p \notin before(p)
    BY BetterFacts
<1>3. \A p \in S : IsFiniteSet(before(p)) /\ Cardinality(before(p)) \in Nat
    BY <1>2, FS_Subset, FS_CardinalityType
<1>4. \A p \in S : /\ IsFiniteSet(before(p) \cup {p})
                   /\ Cardinality(before(p) \cup {p}) = Cardinality(before(p)) + 1
    BY <1>2, <1>3, FS_AddElement
<1>5. \A p \in S : Rank(S, side, p) = Cardinality(before(p)) + 1
    BY <1>3 DEF Rank
<1>6. ASSUME NEW p \in S
      PROVE  Rank(S, side, p) \in 1..n
    <2> DEFINE c == Cardinality(before(p))
               d == Cardinality(before(p) \cup {p})
    <2>1. before(p) \cup {p} \in SUBSET S
        BY <1>2
    <2>2. d <= n
        BY <2>1, FS_Subset
    <2>3. c \in Nat /\ d = c + 1 /\ Rank(S, side, p) = c + 1
        BY <1>3, <1>4, <1>5
    <2> HIDE DEF c, d, n
    <2> QED BY <1>1, <2>2, <2>3
<1>7. ASSUME NEW p \in S, NEW q \in S, Better(side, p, q)
      PROVE  Rank(S, side, p) < Rank(S, side, q)
    <2> DEFINE c == Cardinality(before(p))
               d == Cardinality(before(p) \cup {p})
               e == Cardinality(before(q))
    <2>1. before(p) \cup {p} \in SUBSET before(q)
        BY <1>7, BetterFacts
    <2>2. d <= e
        BY <1>3, <2>1, FS_Subset
    <2>3. c \in Nat /\ d = c + 1 /\ Rank(S, side, p) = c + 1
        BY <1>3, <1>4, <1>5
    <2>4. e \in Nat /\ Rank(S, side, q) = e + 1
        BY <1>3, <1>5
    <2> HIDE DEF c, d, e
    <2> QED BY <2>2, <2>3, <2>4
<1>8. ASSUME NEW i \in 1..n
      PROVE  \E p \in S : Rank(S, side, p) = i
    <2> DEFINE f == [p \in S |-> Rank(S, side, p)]
    <2>1. f \in [S -> 1..n]
        BY <1>6
    <2>2. ASSUME NEW p \in S, NEW q \in S, f[p] = f[q], p # q
          PROVE  FALSE
        <3>1. Better(side, p, q) \/ Better(side, q, p)
            BY <2>2, BetterFacts
        <3>2. Rank(S, side, p) \in Int /\ Rank(S, side, q) \in Int
            BY <1>6
        <3> QED BY <1>7, <2>2, <3>1, <3>2
    <2>3. f \in Injection(S, 1..n)
        BY <2>1, <2>2 DEF Injection, IsInjective
    <2>4. IsFiniteSet(1..n) /\ Cardinality(1..n) = n
        BY <1>1, FS_Interval
    <2>5. n = Cardinality(S)
        OBVIOUS
    <2> HIDE DEF f, n
    <2>6. f \in Surjection(S, 1..n)
        BY <2>3, <2>4, <2>5, FS_Injection
    <2>7. \E p \in S : f[p] = i
        BY <2>6 DEF Surjection
    <2> QED BY <2>7 DEF f
<1> QED BY <1>1, <1>6, <1>7, <1>8

\* A sorted side has the price of rank i in place i.
LEMMA SortedFacts ==
    ASSUME NEW b \in LocalBooks, NEW side \in Sides, NEW depth \in Nat \ {0}
    PROVE  LET S == Listed(b, side)
               levels == Sorted(b, side, depth)
               n == Cardinality(S)
           IN /\ DOMAIN levels = 1..Len(levels) /\ n \in Nat
              /\ Len(levels) = IF n > depth THEN depth ELSE n
              /\ \A i \in DOMAIN levels : /\ levels[i].price \in S
                                         /\ Rank(S, side, levels[i].price) = i
                                         /\ levels[i].qty = b[side][levels[i].price]
<1> DEFINE S == Listed(b, side)
           n == Cardinality(S)
           level(i) == LET p == CHOOSE q \in S : Rank(S, side, q) = i
                       IN [price |-> p, qty |-> b[side][p]]
           all == [i \in 1..n |-> level(i)]
<1>1. S \subseteq Nat /\ IsFiniteSet(S)
    <2>1. S \in SUBSET Prices
        BY ListedFacts
    <2> QED BY <2>1, PriceFacts, FS_Subset
<1>2. n \in Nat /\ \A i \in 1..n : \E p \in S : Rank(S, side, p) = i
    BY <1>1, RankFacts
<1>3. \A i \in 1..n : /\ all[i].price \in S
                      /\ Rank(S, side, all[i].price) = i
                      /\ all[i].qty = b[side][all[i].price]
    BY <1>2
<1>4. Sorted(b, side, depth) =
            IF depth > 0 /\ Len(all) > depth THEN SubSeq(all, 1, depth) ELSE all
    BY DEF Sorted, Rank
<1> HIDE DEF S, level
<1>5. DOMAIN all = 1..n /\ Len(all) = n
    BY <1>2
<1>6. CASE n > depth
    <2>1. Sorted(b, side, depth) = SubSeq(all, 1, depth)
        BY <1>2, <1>4, <1>5, <1>6
    <2>2. SubSeq(all, 1, depth) = [i \in 1..depth |-> all[i]]
        BY <1>2, <1>5, <1>6 DEF SubSeq
    <2> HIDE DEF all
    <2>3. /\ DOMAIN Sorted(b, side, depth) = 1..depth
          /\ Len(Sorted(b, side, depth)) = depth
          /\ \A i \in 1..depth : Sorted(b, side, depth)[i] = all[i]
        BY <2>1, <2>2
    <2>4. \A i \in 1..depth : i \in 1..n
        BY <1>2, <1>6
    <2> QED BY <1>2, <1>3, <1>6, <2>3, <2>4 DEF S
<1>7. CASE ~(n > depth)
    <2>1. Sorted(b, side, depth) = all
        BY <1>2, <1>4, <1>5, <1>7
    <2> HIDE DEF all, n
    <2> QED BY <1>2, <1>3, <1>5, <1>7, <2>1 DEF S, n
<1> QED BY <1>6, <1>7

\* Two listed prices are in the order of their ranks.
LEMMA RankOrder ==
    ASSUME NEW S, S \subseteq Nat, IsFiniteSet(S), NEW side, NEW p \in S, NEW q \in S
    PROVE  /\ Rank(S, side, p) \in Nat /\ Rank(S, side, q) \in Nat
           /\ Rank(S, side, p) < Rank(S, side, q) => Better(side, p, q)
           /\ Rank(S, side, p) = Rank(S, side, q) => p = q
<1> DEFINE x == Rank(S, side, p)
           y == Rank(S, side, q)
<1>1. x \in Nat /\ y \in Nat
    <2>1. x \in 1..Cardinality(S) /\ y \in 1..Cardinality(S) /\ Cardinality(S) \in Nat
        BY RankFacts
    <2> HIDE DEF x, y
    <2> QED BY <2>1
<1>2. (Better(side, p, q) => x < y) /\ (Better(side, q, p) => y < x)
    BY RankFacts
<1>3. p = q \/ Better(side, p, q) \/ Better(side, q, p)
    BY BetterFacts
<1>4. p = q => x = y
    OBVIOUS
<1> HIDE DEF x, y
<1>5. (x < y => Better(side, p, q)) /\ (x = y => p = q)
    BY <1>1, <1>2, <1>3, <1>4
<1> QED BY <1>1, <1>5 DEF x, y

\* What GetSnapshot lists of a well-formed book.
LEMMA SnapshotFacts ==
    ASSUME book \in LocalBooks
    PROVE  SnapshotOrdered
<1> SUFFICES ASSUME NEW side \in Sides, NEW depth \in 1..SnapshotDepth
             PROVE  LET levels == GetSnapshot(depth).levels[side]
                        worse(p, q) == IF side = "bid" THEN p < q ELSE p > q
                    IN /\ \A i, j \in DOMAIN levels :
                             i < j => worse(levels[j].price, levels[i].price)
                       /\ \A i \in DOMAIN levels : book[side][levels[i].price] = levels[i].qty
                       /\ \A p \in Listed(book, side) :
                             \/ \E i \in DOMAIN levels : levels[i].price = p
                             \/ /\ Len(levels) = depth
                                /\ \A i \in DOMAIN levels : worse(p, levels[i].price)
    BY DEF SnapshotOrdered
<1> DEFINE levels == Sorted(book, side, depth)
           S == Listed(book, side)
           n == Cardinality(S)
           rank(p) == Rank(S, side, p)
           worse(p, q) == IF side = "bid" THEN p < q ELSE p > q
<1>1. GetSnapshot(depth).levels[side] = levels
    BY DEF GetSnapshot, Snapshot
<1>2. depth \in Nat \ {0}
    BY FeedAssumption
<1>3. /\ DOMAIN levels = 1..Len(levels) /\ n \in Nat
      /\ Len(levels) = IF n > depth THEN depth ELSE n
      /\ \A i \in DOMAIN levels : /\ levels[i].price \in S /\ rank(levels[i].price) = i
                                 /\ levels[i].qty = book[side][levels[i].price]
    BY <1>2, SortedFacts
<1>4. S \subseteq Nat /\ IsFiniteSet(S)
    <2>1. S \in SUBSET Prices
        BY ListedFacts
    <2> QED BY <2>1, PriceFacts, FS_Subset
<1>5. \A p \in S : rank(p) \in 1..n
    BY <1>4, RankFacts
<1>6. \A p, q \in S : (rank(p) < rank(q) => worse(q, p)) /\ (rank(p) = rank(q) => p = q)
    <2> SUFFICES ASSUME NEW p \in S, NEW q \in S
                 PROVE  (rank(p) < rank(q) => worse(q, p)) /\ (rank(p) = rank(q) => p = q)
        OBVIOUS
    <2>1. (rank(p) < rank(q) => Better(side, p, q)) /\ (rank(p) = rank(q) => p = q)
        BY <1>4, RankOrder
    <2>2. p \in Nat /\ q \in Nat
        BY <1>4
    <2>3. Better(side, p, q) => worse(q, p)
        BY <2>2 DEF Better
    <2> QED BY <2>1, <2>3
<1> HIDE DEF levels, S, n, rank, worse
<1>7. \A i, j \in DOMAIN levels : i < j => worse(levels[j].price, levels[i].price)
    BY <1>3, <1>6
<1>8. \A i \in DOMAIN levels : book[side][levels[i].price] = levels[i].qty
    BY <1>3
<1>9. ASSUME NEW p \in S
      PROVE  \/ \E i \in DOMAIN levels : levels[i].price = p
             \/ Len(levels) = depth /\ \A i \in DOMAIN levels : worse(p, levels[i].price)
    <2> DEFINE r == rank(p)
    <2>1. r \in 1..n
        BY <1>5
    <2>2. CASE r \in DOMAIN levels
        <3>1. levels[r].price \in S /\ rank(levels[r].price) = rank(p)
            BY <1>3, <2>2
        <3>2. levels[r].price = p
            BY <1>6, <3>1
        <3> QED BY <2>2, <3>2
    <2>3. CASE r \notin DOMAIN levels
        <3> HIDE DEF r
        <3>1. Len(levels) = depth /\ \A i \in DOMAIN levels : i < r
            BY <1>2, <1>3, <2>1, <2>3
        <3>2. \A i \in DOMAIN levels : levels[i].price \in S /\ rank(levels[i].price) < rank(p)
            BY <1>3, <3>1 DEF r
        <3> QED BY <1>6, <3>1, <3>2
    <2> QED BY <2>2, <2>3
<1> QED BY <1>1, <1>7, <1>8, <1>9 DEF S, worse

-----------------------------------------------------------------------------
(* The type invariant *)

Tops == [Sides -> Level] \cup {NoTop}

\* TypeOK, in parts.
ExchangeOK == exchange \in [Assets -> LocalBooks]
LinkOK == venue \in Protocols /\ link \in {"down", "up", "silent"}
WireOK == wire \in Seq(Seq(Parts)) /\ spoiled \in BOOLEAN
TodoOK == todo \in Seq(Parts)
LocalOK == book \in LocalBooks /\ fresh \in BOOLEAN /\ top \in Tops

LEMMA TypeParts == TypeOK <=> (LinkOK /\ ExchangeOK /\ WireOK /\ TodoOK /\ LocalOK)
    BY DEF TypeOK, LinkOK, ExchangeOK, WireOK, TodoOK, LocalOK, LocalBooks, Tops

LEMMA TypePartsNext == (LinkOK' /\ ExchangeOK' /\ WireOK' /\ TodoOK' /\ LocalOK') => TypeOK'
    BY DEF TypeOK, LinkOK, ExchangeOK, WireOK, TodoOK, LocalOK, LocalBooks, Tops

LEMMA EmptyBookType == EmptyBook \in LocalBooks
    BY DEF EmptyBook, LocalBooks

\* Conversion of a price.
LEMMA PriceType ==
    ASSUME LinkOK, NEW side \in Sides, NEW p \in Prices
    PROVE  PriceBps(side, p) \in Prices
<1>1. venue \in {"HIP4", "KALSHI", "POLYMARKET"} /\ HyperliquidBps[p] \in Prices
    BY FeedAssumption DEF LinkOK
<1>2. MaxPrice - p \in Prices
    BY PriceFacts
<1> QED BY <1>1, <1>2 DEF PriceBps

\* Conversion of a size.
LEMMA UnitsType ==
    ASSUME NEW n \in Int
    PROVE  Units(n) \in Int /\ (n \in Nat => Units(n) \in Nat) /\ Units(0) = 0
<1> DEFINE d == 2 * PerUnit
           x == 2 * n + PerUnit
<1>1. PerUnit \in Nat \ {0} /\ d \in Nat \ {0} /\ x \in Int /\ (n \in Nat => x \in Nat)
    BY FeedAssumption
<1>2. 2 * 0 + PerUnit = PerUnit /\ PerUnit < d
    BY <1>1
<1> HIDE DEF d, x
<1>3. x \div d \in Int /\ (x \in Nat => x \div d \in Nat)
    BY <1>1
<1>4. PerUnit \div d = 0
    BY <1>1, <1>2
<1>5. Units(n) = (IF venue = "KALSHI" THEN n ELSE x \div d)
    BY DEF Units, d, x
<1>6. Units(0) = (IF venue = "KALSHI" THEN 0 ELSE PerUnit \div d)
    BY <1>2 DEF Units, d
<1> QED BY <1>1, <1>3, <1>4, <1>5, <1>6

\* A book in units is one too, without the levels of less than half a unit.
LEMMA SizedFacts ==
    ASSUME NEW b \in LocalBooks
    PROVE  /\ Sized(b) \in LocalBooks
           /\ \A side \in Sides, p \in Prices : Sized(b)[side][p] = Units(b[side][p])
           /\ \A side \in Sides : Listed(Sized(b), side) \subseteq Listed(b, side)
<1>1. \A side \in Sides, p \in Prices : b[side][p] \in Nat
    BY ListedFacts
<1>2. \A side \in Sides, p \in Prices : Sized(b)[side][p] = Units(b[side][p])
    BY DEF Sized
<1>3. \A side \in Sides, p \in Prices : Units(b[side][p]) \in Nat
    BY <1>1, UnitsType
<1>4. Sized(b) \in LocalBooks
    BY <1>3 DEF Sized, LocalBooks
<1>5. ASSUME NEW side \in Sides, NEW p \in Listed(Sized(b), side)
      PROVE  p \in Listed(b, side)
    <2>1. p \in Prices /\ Units(b[side][p]) # 0
        BY <1>2, <1>4, ListedFacts
    <2>2. b[side][p] # 0
        BY <2>1, UnitsType
    <2> QED BY <2>1, <2>2, ListedFacts
<1> QED BY <1>2, <1>4, <1>5

LEMMA ConvertedType ==
    ASSUME LinkOK, NEW lists \in [Sides -> Seq(Level)], NEW side \in Sides
    PROVE  Converted(lists)[side] \in Seq(Level)
<1> DEFINE list == lists[side]
           to(i) == [price |-> PriceBps(side, list[i].price), qty |-> Units(list[i].qty)]
<1>1. list \in Seq(Level)
    OBVIOUS
<1>2. Converted(lists)[side] = [i \in DOMAIN list |-> to(i)]
    BY DEF Converted
<1> HIDE DEF list
<1>3. Len(list) \in Nat /\ DOMAIN list = 1..Len(list)
    BY <1>1
<1>4. ASSUME NEW i \in 1..Len(list)
      PROVE  to(i) \in Level
    <2>1. list[i] \in Level
        BY <1>1, <1>3, <1>4
    <2>2. PriceBps(side, list[i].price) \in Prices
        BY <2>1, PriceType DEF Level
    <2>3. Units(list[i].qty) \in Nat
        <3> DEFINE qty == list[i].qty
        <3>1. qty \in Nat /\ qty \in Int
            BY <2>1 DEF Level
        <3> HIDE DEF qty
        <3>2. Units(qty) \in Nat
            BY <3>1, UnitsType
        <3> QED BY <3>2 DEF qty
    <2> QED BY <2>2, <2>3 DEF Level
<1> HIDE DEF to
<1>5. [i \in 1..Len(list) |-> to(i)] \in Seq(Level)
    BY <1>3, <1>4
<1> QED BY <1>2, <1>3, <1>5

LEMMA SnapshotType ==
    ASSUME LinkOK, NEW b, NEW lists \in [Sides -> Seq(Level)]
    PROVE  ApplySnapshot(b, Converted(lists)) \in LocalBooks
<1>1. \A side \in Sides : LevelsOf(Converted(lists)[side]) \in [Prices -> Nat]
    BY ConvertedType, LevelsType
<1> QED BY <1>1 DEF ApplySnapshot, LocalBooks

Results == [book : LocalBooks, top : Tops, ok : BOOLEAN]

LEMMA PublishType ==
    ASSUME NEW st \in Results
    PROVE  Publish(st) \in Results
<1>1. TopOfBook(st.book) \in Tops
    BY TopType DEF Results, Tops
<1> QED BY <1>1 DEF Publish, Failed, Results

LEMMA PartType ==
    ASSUME LinkOK, NEW st \in Results, NEW part \in Parts
    PROVE  HandlePart(st, part) \in Results
<1>1. CASE part.kind = "book"
    <2>1. part.lists \in [Sides -> Seq(Level)]
        BY <1>1 DEF Parts
    <2>2. [st EXCEPT !.book = ApplySnapshot(@, Converted(part.lists))] \in Results
        BY <2>1, SnapshotType DEF Results
    <2>3. HandleBook(st, part) \in Results
        BY <2>2, PublishType DEF HandleBook, Failed, Results
    <2> QED BY <1>1, <2>3 DEF HandlePart
<1>2. CASE part.kind # "book"
    <2> DEFINE c == part.change
               done == [st EXCEPT !.book = ApplyChange(@, c)]
    <2>1. CASE c = Malformed
        <3>1. HandleChange(st, part) \in Results
            BY <2>1 DEF HandleChange, Failed, Results
        <3> QED BY <1>2, <3>1 DEF HandlePart
    <2>2. CASE c # Malformed
        <3>1. c.side \in Sides /\ c.price \in Prices /\ c.qty \in Int
            BY <1>2, <2>2 DEF Parts
        <3>2. PriceBps(c.side, c.price) \in Prices
            BY <3>1, PriceType
        <3>3. st.book \in LocalBooks
            BY DEF Results
        <3>4. ApplyChange(st.book, c) \in LocalBooks
            BY <3>1, <3>2, <3>3, UnitsType, UpdateType DEF ApplyChange
        <3>5. done \in Results
            BY <3>4 DEF Results
        <3>6. HandleChange(st, part) = IF part.last THEN Publish(done) ELSE done
            BY <2>2 DEF HandleChange
        <3> HIDE DEF done
        <3>7. HandleChange(st, part) \in Results
            BY <3>5, <3>6, PublishType
        <3> QED BY <1>2, <3>7 DEF HandlePart
    <2> QED BY <2>1, <2>2
<1> QED BY <1>1, <1>2

-----------------------------------------------------------------------------
(* What the exchange sends *)

LEMMA BooksType ==
    ASSUME LinkOK, NEW b \in Uncrossed(venue)
    PROVE  b \in LocalBooks
<1>1. venue \in Protocols
    BY DEF LinkOK
<1>2. \A p \in Prices : Quantities[venue][p] \subseteq Nat
    BY <1>1, FeedAssumption
<1>3. b \in [Sides -> Stack(venue)]
    BY DEF Uncrossed
<1>4. Stack(venue) \subseteq [Prices -> Nat]
    BY <1>2 DEF Stack
<1> QED BY <1>3, <1>4 DEF LocalBooks

\* An enumeration of a finite set is a sequence.
LEMMA OrderType ==
    ASSUME NEW S, IsFiniteSet(S), NEW order \in SetToSeqs(S)
    PROVE  order \in Seq(S) /\ DOMAIN order = 1..Len(order) /\ Len(order) \in Nat
<1>1. Cardinality(S) \in Nat
    BY FS_CardinalityType
<1>2. order \in [1..Cardinality(S) -> S]
    BY DEF SetToSeqs
<1> QED BY <1>1, <1>2

LEMMA LadderType ==
    ASSUME NEW b \in LocalBooks, NEW side \in Sides, NEW order \in BestFirst(b, side)
    PROVE  Ladder(b, side, order) \in Seq(Level)
<1>1. Listed(b, side) \in SUBSET Prices /\ IsFiniteSet(Prices)
    BY ListedFacts, PriceFacts
<1>2. IsFiniteSet(Listed(b, side))
    BY <1>1, FS_Subset
<1>3. order \in SetToSeqs(Listed(b, side))
    BY DEF BestFirst
<1>4. order \in Seq(Listed(b, side)) /\ DOMAIN order = 1..Len(order) /\ Len(order) \in Nat
    BY <1>2, <1>3, OrderType
<1>5. \A i \in 1..Len(order) : order[i] \in Prices /\ b[side][order[i]] \in Nat
    BY <1>1, <1>4, ListedFacts
<1>6. \A i \in 1..Len(order) : [price |-> order[i], qty |-> b[side][order[i]]] \in Level
    BY <1>5 DEF Level
<1> DEFINE level(i) == [price |-> order[i], qty |-> b[side][order[i]]]
<1>7. Ladder(b, side, order) = [i \in 1..Len(order) |-> level(i)]
    BY <1>4 DEF Ladder
<1>8. \A i \in 1..Len(order) : level(i) \in Level
    BY <1>6
<1> HIDE DEF level
<1> QED BY <1>4, <1>7, <1>8

LEMMA BookPartType ==
    ASSUME NEW a \in Assets, NEW b \in LocalBooks, NEW readable \in BOOLEAN,
           NEW part \in BookParts(a, b, readable)
    PROVE  part \in Parts
<1>1. PICK bids \in BestFirst(b, "bid"), asks \in BestFirst(b, "ask") :
            part = [kind |-> "book", asset |-> a, readable |-> readable,
                    lists |-> [side \in Sides |-> Ladder(b, side, IF side = "bid" THEN bids ELSE asks)]]
    BY DEF BookParts
<1>2. Ladder(b, "bid", bids) \in Seq(Level) /\ Ladder(b, "ask", asks) \in Seq(Level)
    BY LadderType DEF Sides
<1>3. part.lists \in [Sides -> Seq(Level)]
    BY <1>1, <1>2 DEF Sides
<1> QED BY <1>1, <1>3 DEF Parts

Changes == [side : Sides, price : Prices, qty : Int] \cup {Malformed}

LEMMA MessageType ==
    ASSUME NEW a \in Assets, NEW b \in LocalBooks, NEW changes \in Seq(Changes),
           NEW readable \in BOOLEAN, NEW m \in Messages(a, b, changes, readable)
    PROVE  m \in Seq(Parts)
<1>1. CASE venue = "HIP4"
    <2>1. PICK part \in BookParts(a, b, readable) : m = <<part>>
        BY <1>1 DEF Messages
    <2>2. part \in Parts
        BY BookPartType
    <2> QED BY <2>1, <2>2
<1>2. CASE venue # "HIP4"
    <2> DEFINE to(i) == ChangePart(changes[i], i = Len(changes))
    <2>1. m = [i \in 1..Len(changes) |-> to(i)] /\ Len(changes) \in Nat
        BY <1>2 DEF Messages
    <2>2. ASSUME NEW i \in 1..Len(changes)
          PROVE  to(i) \in Parts
        <3>1. changes[i] \in Changes
            OBVIOUS
        <3> QED BY <3>1 DEF ChangePart, Parts, Changes
    <2> HIDE DEF to
    <2> QED BY <2>1, <2>2
<1> QED BY <1>1, <1>2

LEMMA ChangesType ==
    ASSUME NEW old \in LocalBooks, NEW b \in LocalBooks, NEW order \in SetToSeqs(Moved(old, b))
    PROVE  /\ [i \in DOMAIN order |-> ChangeOf(old, b, order[i])] \in Seq(Changes)
           /\ \A garbled \in Garbled([i \in DOMAIN order |-> ChangeOf(old, b, order[i])]) :
                 garbled \in Seq(Changes)
<1> DEFINE to(i) == ChangeOf(old, b, order[i])
           changes == [i \in DOMAIN order |-> to(i)]
<1>1. IsFiniteSet(Sides) /\ IsFiniteSet(Prices)
    <2>1. IsFiniteSet({"bid"})
        BY FS_Singleton
    <2>2. IsFiniteSet({"bid"} \cup {"ask"})
        BY <2>1, FS_AddElement
    <2>3. Sides = {"bid"} \cup {"ask"}
        BY DEF Sides
    <2> QED BY <2>2, <2>3, PriceFacts
<1>2. IsFiniteSet(Sides \X Prices)
    BY <1>1, FS_Product
<1>3. Moved(old, b) \in SUBSET (Sides \X Prices)
    BY DEF Moved
<1>4. IsFiniteSet(Moved(old, b))
    BY <1>2, <1>3, FS_Subset
<1>5. order \in Seq(Moved(old, b)) /\ DOMAIN order = 1..Len(order) /\ Len(order) \in Nat
    BY <1>4, OrderType
<1>6. ASSUME NEW i \in 1..Len(order)
      PROVE  to(i) \in Changes
    <2> DEFINE l == order[i]
    <2>1. l \in Sides \X Prices
        BY <1>3, <1>5
    <2>2. l[1] \in Sides /\ l[2] \in Prices
        BY <2>1
    <2> HIDE DEF l
    <2>3. old[l[1]][l[2]] \in Nat /\ b[l[1]][l[2]] \in Nat
        BY <2>2, ListedFacts
    <2>4. ChangeOf(old, b, l) \in Changes
        BY <2>2, <2>3 DEF ChangeOf, Changes
    <2> QED BY <2>4 DEF l
<1> HIDE DEF to
<1>7. changes \in Seq(Changes)
    BY <1>5, <1>6
<1>8. ASSUME NEW garbled \in Garbled(changes)
      PROVE  garbled \in Seq(Changes)
    <2>1. Malformed \in Changes
        BY DEF Changes
    <2> HIDE DEF changes
    <2>2. PICK i \in DOMAIN changes : garbled = [changes EXCEPT ![i] = Malformed]
        BY DEF Garbled
    <2> QED BY <1>7, <2>1, <2>2
<1> QED BY <1>7, <1>8 DEF to

-----------------------------------------------------------------------------
(* Steps *)

LEMMA InitType == Init => TypeOK
<1> SUFFICES ASSUME Init PROVE TypeOK
    OBVIOUS
<1>1. LinkOK /\ LocalOK
    BY EmptyBookType DEF Init, LinkOK, LocalOK, Tops
<1>2. WireOK /\ TodoOK
    <2>1. << >> \in Seq(Seq(Parts)) /\ << >> \in Seq(Parts)
        OBVIOUS
    <2> QED BY <2>1 DEF Init, WireOK, TodoOK
<1>3. ExchangeOK
    BY EmptyBookType DEF Init, ExchangeOK
<1> QED BY <1>1, <1>2, <1>3, TypeParts

\* The book of an asset that changes becomes another of the exchange's.
LEMMA ChangeTo ==
    ASSUME NEW a \in Assets, Change(a)
    PROVE  \E b \in Uncrossed(venue) \ {exchange[a]} :
              LET old == exchange[a]
              IN /\ exchange' = [exchange EXCEPT ![a] = b]
                 /\ IF link = "up" /\ a \in Subscribed
                    THEN Room /\ \E order \in SetToSeqs(Moved(old, b)) :
                            Send(a, b, [i \in DOMAIN order |-> ChangeOf(old, b, order[i])])
                    ELSE UNCHANGED <<wire, spoiled>>
<1>1. PICK next \in Books :
          LET old == exchange[a]
              b == next[2]
          IN /\ next[1] = venue /\ b # old
             /\ exchange' = [exchange EXCEPT ![a] = b]
             /\ IF link = "up" /\ a \in Subscribed
                THEN Room /\ \E order \in SetToSeqs(Moved(old, b)) :
                        Send(a, b, [i \in DOMAIN order |-> ChangeOf(old, b, order[i])])
                ELSE UNCHANGED <<wire, spoiled>>
    BY DEF Change
<1>2. PICK v \in Protocols : next \in {<<v, b>> : b \in Uncrossed(v)}
    BY DEF Books
<1>3. next[2] \in Uncrossed(venue) \ {exchange[a]}
    BY <1>1, <1>2
<1> QED BY <1>1, <1>3

LEMMA ChangeType ==
    ASSUME TypeOK, NEW a \in Assets, Change(a)
    PROVE  ExchangeOK' /\ WireOK'
<1>1. LinkOK /\ ExchangeOK /\ WireOK
    BY TypeParts
<1>2. PICK b \in Uncrossed(venue) \ {exchange[a]} :
          LET old == exchange[a]
          IN /\ exchange' = [exchange EXCEPT ![a] = b]
             /\ IF link = "up" /\ a \in Subscribed
                THEN Room /\ \E order \in SetToSeqs(Moved(old, b)) :
                        Send(a, b, [i \in DOMAIN order |-> ChangeOf(old, b, order[i])])
                ELSE UNCHANGED <<wire, spoiled>>
    BY ChangeTo
<1>3. b \in LocalBooks /\ exchange[a] \in LocalBooks
    BY <1>1, BooksType DEF ExchangeOK
<1>4. ExchangeOK'
    BY <1>1, <1>2, <1>3 DEF ExchangeOK
<1>5. WireOK'
    <2>1. CASE UNCHANGED <<wire, spoiled>>
        BY <1>1, <2>1 DEF WireOK
    <2>2. ASSUME NEW order \in SetToSeqs(Moved(exchange[a], b)),
                 Send(a, b, [i \in DOMAIN order |-> ChangeOf(exchange[a], b, order[i])])
          PROVE  WireOK'
        <3> DEFINE changes == [i \in DOMAIN order |-> ChangeOf(exchange[a], b, order[i])]
        <3>1. changes \in Seq(Changes) /\ \A garbled \in Garbled(changes) : garbled \in Seq(Changes)
            BY <1>3, ChangesType
        <3>2. Send(a, b, changes)
            BY <2>2
        <3> HIDE DEF changes
        <3>3. PICK m \in Seq(Parts) : wire' = Append(wire, m)
            BY <1>3, <3>1, <3>2, MessageType DEF Send
        <3>4. spoiled' \in BOOLEAN
            BY <3>2 DEF Send
        <3>5. wire' \in Seq(Seq(Parts))
            BY <1>1, <3>3, AppendProperties DEF WireOK
        <3> QED BY <3>4, <3>5 DEF WireOK
    <2> QED BY <1>2, <2>1, <2>2
<1> QED BY <1>4, <1>5

LEMMA ConnectType ==
    ASSUME TypeOK, Connect
    PROVE  LinkOK' /\ WireOK'
<1>1. LinkOK /\ ExchangeOK
    BY TypeParts
<1>2. PICK order \in SetToSeqs(Subscribed) :
          \E message \in [DOMAIN order -> UNION {BookParts(a, exchange[a], TRUE) : a \in Subscribed}] :
              /\ \A i \in DOMAIN order : message[i].asset = order[i]
              /\ wire' = <<message>>
    BY DEF Connect
<1>3. PICK message \in [DOMAIN order -> UNION {BookParts(a, exchange[a], TRUE) : a \in Subscribed}] :
              wire' = <<message>>
    BY <1>2
<1>4. Subscribed \subseteq Assets /\ IsFiniteSet(Subscribed)
    <2>1. Assets \in SUBSET Assets /\ {Yes} \in SUBSET Assets /\ IsFiniteSet(Assets)
        BY FeedAssumption
    <2> QED BY <2>1, FS_Subset DEF Subscribed
<1>5. DOMAIN order = 1..Len(order) /\ Len(order) \in Nat
    BY <1>4, OrderType
<1>6. UNION {BookParts(a, exchange[a], TRUE) : a \in Subscribed} \subseteq Parts
    <2>1. ASSUME NEW a \in Subscribed, NEW part \in BookParts(a, exchange[a], TRUE)
          PROVE  part \in Parts
        <3>1. a \in Assets /\ exchange[a] \in LocalBooks
            BY <1>1, <1>4 DEF ExchangeOK
        <3> QED BY <3>1, BookPartType
    <2> QED BY <2>1
<1>7. message \in [1..Len(order) -> Parts]
    BY <1>5, <1>6
<1>8. message \in Seq(Parts)
    BY <1>5, <1>7
<1>9. wire' \in Seq(Seq(Parts))
    BY <1>3, <1>8
<1> QED BY <1>1, <1>9 DEF Connect, Dial, LinkOK, WireOK

LEMMA ReadType ==
    ASSUME TypeOK, Read
    PROVE  WireOK' /\ TodoOK'
<1>1. wire \in Seq(Seq(Parts)) /\ spoiled \in BOOLEAN
    BY TypeParts DEF WireOK
<1>2. wire # << >> /\ todo' = Head(wire) /\ wire' = Tail(wire) /\ spoiled' = spoiled
    BY DEF Read, ReadMessage
<1>3. Head(wire) \in Seq(Parts) /\ Tail(wire) \in Seq(Seq(Parts))
    BY <1>1, <1>2, HeadTailProperties
<1> QED BY <1>1, <1>2, <1>3 DEF WireOK, TodoOK

LEMMA HandleType ==
    ASSUME TypeOK, Handle
    PROVE  TodoOK' /\ LocalOK'
<1>1. LinkOK /\ LocalOK /\ todo \in Seq(Parts)
    BY TypeParts DEF TodoOK
<1>2. todo # << >>
    BY DEF Handle
<1>3. Head(todo) \in Parts /\ Tail(todo) \in Seq(Parts)
    BY <1>1, <1>2, HeadTailProperties
<1>4. Node \in Results
    BY <1>1 DEF Node, Results, LocalOK
<1> DEFINE done == HandlePart(Node, Head(todo))
<1>5. done \in Results
    BY <1>1, <1>3, <1>4, PartType
<1>6. HandleNext(done.ok) /\ book' = done.book /\ top' = done.top
    BY DEF Handle
<1> HIDE DEF done
<1>7. TodoOK'
    <2>1. << >> \in Seq(Parts)
        OBVIOUS
    <2> QED BY <1>3, <1>6, <2>1 DEF HandleNext, TodoOK
<1>8. book' \in LocalBooks /\ top' \in Tops
    BY <1>5, <1>6 DEF Results
<1>9. fresh' \in BOOLEAN
    <2>1. fresh' = (fresh \/ Applied(Head(todo)))
        BY DEF Handle
    <2> QED BY <2>1
<1> QED BY <1>7, <1>8, <1>9 DEF LocalOK

LEMMA NextType == TypeOK /\ [Next]_vars => TypeOK'
<1> SUFFICES ASSUME TypeOK, [Next]_vars
             PROVE  TypeOK'
    OBVIOUS
<1>0. LinkOK /\ ExchangeOK /\ WireOK /\ TodoOK /\ LocalOK
    BY TypeParts
<1>1. ASSUME NEW a \in Assets, Change(a)
      PROVE  TypeOK'
    <2>1. ExchangeOK' /\ WireOK'
        BY <1>1, ChangeType
    <2>2. LinkOK' /\ TodoOK' /\ LocalOK'
        BY <1>0, <1>1 DEF Change, localVars, LinkOK, TodoOK, LocalOK
    <2> QED BY <2>1, <2>2, TypePartsNext
<1>2. CASE Connect
    <2>1. LinkOK' /\ WireOK'
        BY <1>2, ConnectType
    <2>2. ExchangeOK' /\ TodoOK' /\ LocalOK'
        BY <1>0, <1>2 DEF Connect, localVars, ExchangeOK, TodoOK, LocalOK
    <2> QED BY <2>1, <2>2, TypePartsNext
<1>3. CASE Read
    <2>1. WireOK' /\ TodoOK'
        BY <1>3, ReadType
    <2>2. LinkOK' /\ ExchangeOK' /\ LocalOK'
        BY <1>0, <1>3 DEF Read, LinkOK, ExchangeOK, LocalOK
    <2> QED BY <2>1, <2>2, TypePartsNext
<1>4. CASE Handle
    <2>1. TodoOK' /\ LocalOK'
        BY <1>4, HandleType
    <2>2. LinkOK' /\ ExchangeOK' /\ WireOK'
        BY <1>0, <1>4 DEF Handle, LinkOK, ExchangeOK, WireOK
    <2> QED BY <2>1, <2>2, TypePartsNext
<1>5. CASE Age
    <2>1. LinkOK' /\ ExchangeOK' /\ WireOK' /\ TodoOK' /\ LocalOK'
        BY <1>0, <1>5 DEF Age, LinkOK, ExchangeOK, WireOK, TodoOK, LocalOK
    <2> QED BY <2>1, TypePartsNext
<1>6. CASE Break
    <2>1. << >> \in Seq(Seq(Parts))
        OBVIOUS
    <2>2. LinkOK' /\ ExchangeOK' /\ WireOK' /\ TodoOK' /\ LocalOK'
        BY <1>0, <1>6, <2>1 DEF Break, localVars, LinkOK, ExchangeOK, WireOK, TodoOK, LocalOK
    <2> QED BY <2>2, TypePartsNext
<1>7. CASE FallSilent \/ ReadDeadline
    <2>1. LinkOK' /\ ExchangeOK' /\ WireOK' /\ TodoOK' /\ LocalOK'
        BY <1>0, <1>7 DEF FallSilent, ReadDeadline, localVars, LinkOK, ExchangeOK, WireOK, TodoOK, LocalOK
    <2> QED BY <2>1, TypePartsNext
<1>8. CASE UNCHANGED vars
    <2>1. LinkOK' /\ ExchangeOK' /\ WireOK' /\ TodoOK' /\ LocalOK'
        BY <1>0, <1>8 DEF vars, localVars, LinkOK, ExchangeOK, WireOK, TodoOK, LocalOK
    <2> QED BY <2>1, TypePartsNext
<1> QED BY <1>1, <1>2, <1>3, <1>4, <1>5, <1>6, <1>7, <1>8 DEF Next

-----------------------------------------------------------------------------
(* Folds: what FoldLeft computes is the end of a run *)

LEMMA Steps ==
    ASSUME NEW n \in Nat, NEW T, 0 \in T, \A i \in 1..n : i - 1 \in T => i \in T
    PROVE  \A i \in 0..n : i \in T
<1> DEFINE Bad == {i \in 0..n : i \notin T}
<1> SUFFICES ASSUME Bad # {}
             PROVE  FALSE
    OBVIOUS
<1>1. Bad \subseteq Nat
    OBVIOUS
<1>2. Min(Bad) \in Bad /\ \A y \in Bad : Min(Bad) <= y
    BY <1>1, MinOf
<1> DEFINE m == Min(Bad)
<1> HIDE DEF m
<1>3. m \in 0..n /\ m \notin T /\ \A y \in Bad : m <= y
    BY <1>2 DEF m
<1>4. m \in 1..n /\ m - 1 \in 0..n /\ ~(m <= m - 1)
    BY <1>3
<1>5. m - 1 \in T
    BY <1>3, <1>4
<1> QED BY <1>3, <1>4, <1>5

\* FoldLeft takes the greatest index out of a set of indices.
LEMMA GreatestIndex ==
    ASSUME NEW n \in Nat
    PROVE  /\ \A k \in 1..n : 1..k # {} /\ Max(1..k) = k /\ (1..k) \ {k} = 1..(k - 1)
           /\ \A s \in SUBSET (1..n) : s # {} => Max(s) \in s /\ \A i \in s : Max(s) >= i
<1>1. ASSUME NEW s \in SUBSET (1..n), s # {}
      PROVE  Max(s) \in s /\ \A i \in s : Max(s) >= i
    <2>1. s \subseteq 0..n
        OBVIOUS
    <2> QED BY <1>1, <2>1, MaxOf
<1>2. ASSUME NEW k \in 1..n
      PROVE  1..k # {} /\ Max(1..k) = k /\ (1..k) \ {k} = 1..(k - 1)
    <2>1. k \in 1..k /\ 1..k \in SUBSET (1..n)
        OBVIOUS
    <2> DEFINE m == Max(1..k)
    <2>2. m \in 1..k /\ m >= k
        BY <1>1, <2>1
    <2> HIDE DEF m
    <2>3. m = k
        BY <2>2
    <2> QED BY <2>1, <2>3 DEF m
<1> QED BY <1>1, <1>2

\* What FoldLeft defines for each set of indices of q.
Folds(g, F, base, n, q) ==
    \A s \in SUBSET (1..n) :
        g[s] = IF s = {} THEN base ELSE F[<<g[s \ {Max(s)}], q[Max(s)]>>]

\* There is such a function.
LEMMA FoldExists ==
    ASSUME NEW S, NEW D, NEW F \in [S \X D -> S], NEW base \in S, NEW n \in Nat, NEW q \in [1..n -> D]
    PROVE  \E g \in [SUBSET (1..n) -> S] : Folds(g, F, base, n, q)
<1> DEFINE FoldsTo(g, k) ==
              /\ g \in [SUBSET (1..k) -> S]
              /\ \A s \in SUBSET (1..k) :
                    g[s] = IF s = {} THEN base ELSE F[<<g[s \ {Max(s)}], q[Max(s)]>>]
           T == {k \in 0..n : \E g : FoldsTo(g, k)}
<1>1. 0 \in T
    <2> DEFINE g == [s \in SUBSET (1..0) |-> base]
    <2>1. \A s \in SUBSET (1..0) : s = {}
        OBVIOUS
    <2>2. FoldsTo(g, 0)
        BY <2>1
    <2> HIDE DEF FoldsTo
    <2> QED BY <2>2
<1>2. ASSUME NEW k \in 1..n, k - 1 \in T
      PROVE  k \in T
    <2>1. PICK g : FoldsTo(g, k - 1)
        BY <1>2
    <2> DEFINE h == [s \in SUBSET (1..k) |->
                        IF k \in s THEN F[<<g[s \ {k}], q[k]>>] ELSE g[s]]
    <2>2. \A s \in SUBSET (1..k) : s \ {k} \in SUBSET (1..(k - 1))
        OBVIOUS
    <2>3. \A s \in SUBSET (1..k) : k \notin s => s \in SUBSET (1..(k - 1))
        OBVIOUS
    <2>4. q[k] \in D
        OBVIOUS
    <2>5. \A s \in SUBSET (1..k) : h[s] \in S
        BY <2>1, <2>2, <2>3, <2>4
    <2>6. ASSUME NEW s \in SUBSET (1..k)
          PROVE  h[s] = IF s = {} THEN base ELSE F[<<h[s \ {Max(s)}], q[Max(s)]>>]
        <3>1. s \in SUBSET (1..n)
            OBVIOUS
        <3>2. CASE k \in s
            <4> DEFINE m == Max(s)
            <4>1. m \in s /\ m >= k
                BY <3>1, <3>2, GreatestIndex
            <4> HIDE DEF m
            <4>2. m = k
                BY <4>1
            <4>3. s \ {k} \in SUBSET (1..k) /\ k \notin s \ {k}
                OBVIOUS
            <4>4. h[s \ {k}] = g[s \ {k}]
                BY <4>3
            <4> QED BY <3>2, <4>2, <4>4 DEF m
        <3>3. CASE k \notin s
            <4>1. s \in SUBSET (1..(k - 1)) /\ h[s] = g[s]
                BY <2>3, <3>3
            <4> DEFINE r == s \ {Max(s)}
            <4>2. r \in SUBSET (1..(k - 1)) /\ r \in SUBSET (1..k) /\ k \notin r
                BY <3>3, <4>1
            <4>3. h[r] = g[r]
                BY <4>2
            <4>4. g[s] = IF s = {} THEN base ELSE F[<<g[r], q[Max(s)]>>]
                BY <2>1, <4>1
            <4> QED BY <4>1, <4>3, <4>4
        <3> QED BY <3>2, <3>3
    <2>7. FoldsTo(h, k)
        BY <2>5, <2>6
    <2> HIDE DEF FoldsTo
    <2> QED BY <2>7
<1> HIDE DEF T
<1>3. \A k \in 0..n : k \in T
    <2>1. \A k \in 1..n : k - 1 \in T => k \in T
        BY <1>2
    <2> QED BY <1>1, <2>1, Steps
<1>4. n \in T
    BY <1>3
<1> QED BY <1>4 DEF T, Folds

\* One round of the loop over the parts of a message.
Round(st, part) == IF st.ok THEN HandlePart(st, part) ELSE st

LEMMA RoundType ==
    ASSUME LinkOK, NEW st \in Results, NEW part \in Parts
    PROVE  Round(st, part) \in Results
<1>1. HandlePart(st, part) \in Results
    BY PartType
<1> QED BY <1>1 DEF Round

\* Handled is the end of a run of rounds.
LEMMA PartByPart ==
    ASSUME LinkOK, NEW st \in Results, NEW parts \in Seq(Parts)
    PROVE  \E after \in [0..Len(parts) -> Results] :
              /\ after[0] = st
              /\ \A i \in 1..Len(parts) : after[i] = Round(after[i - 1], parts[i])
              /\ Handled(st, parts) = after[Len(parts)]
<1> DEFINE n == Len(parts)
           Recurs(h) == h = [s \in SUBSET DOMAIN parts |->
                               IF s = {} THEN st ELSE Round(h[s \ {Max(s)}], parts[Max(s)])]
           h == CHOOSE h : Recurs(h)
<1>1. n \in Nat /\ DOMAIN parts = 1..n /\ parts \in [1..n -> Parts]
    OBVIOUS
<1>2. Handled(st, parts) = h[DOMAIN parts]
    BY DEF Handled, FoldLeft, MapThenFoldSet, Round
<1>3. \E g : Recurs(g)
    <2> DEFINE F == [x \in Results \X Parts |-> Round(x[1], x[2])]
    <2>1. F \in [Results \X Parts -> Results]
        BY RoundType
    <2> HIDE DEF F
    <2>2. PICK g \in [SUBSET (1..n) -> Results] : Folds(g, F, st, n, parts)
        BY <1>1, <2>1, FoldExists
    <2>3. ASSUME NEW s \in SUBSET (1..n)
          PROVE  g[s] = IF s = {} THEN st ELSE Round(g[s \ {Max(s)}], parts[Max(s)])
        <3>1. CASE s = {}
            BY <2>2, <3>1 DEF Folds
        <3>2. CASE s # {}
            <4> DEFINE r == g[s \ {Max(s)}]
                       part == parts[Max(s)]
            <4>1. r \in Results /\ s \ {Max(s)} \in SUBSET (1..n)
                BY <2>2
            <4>2. part \in Parts
                BY <1>1, <3>2, GreatestIndex
            <4>3. g[s] = F[<<r, part>>]
                BY <2>2, <3>2 DEF Folds
            <4> HIDE DEF r, part
            <4>4. F[<<r, part>>] = Round(r, part)
                BY <4>1, <4>2 DEF F
            <4> QED BY <3>2, <4>3, <4>4 DEF r, part
        <3> QED BY <3>1, <3>2
    <2>4. g = [s \in SUBSET (1..n) |-> IF s = {} THEN st ELSE Round(g[s \ {Max(s)}], parts[Max(s)])]
        BY <2>3
    <2> QED BY <1>1, <2>4
<1> HIDE DEF Recurs
<1>4. Recurs(h)
    BY <1>3
<1> HIDE DEF h
<1>5. \A s \in SUBSET (1..n) : h[s] = IF s = {} THEN st ELSE Round(h[s \ {Max(s)}], parts[Max(s)])
    BY <1>1, <1>4 DEF Recurs
<1> DEFINE after == [i \in 0..n |-> h[1..i]]
<1>6. after[0] = st
    <2>1. 1..0 = {} /\ {} \in SUBSET (1..n) /\ 0 \in 0..n
        BY <1>1
    <2> QED BY <1>5, <2>1
<1>7. ASSUME NEW i \in 1..n
      PROVE  after[i] = Round(after[i - 1], parts[i])
    <2>1. 1..i # {} /\ Max(1..i) = i /\ (1..i) \ {i} = 1..(i - 1)
        BY <1>1, GreatestIndex
    <2>2. 1..i \in SUBSET (1..n) /\ i \in 0..n /\ i - 1 \in 0..n
        BY <1>1
    <2>3. h[1..i] = Round(h[1..(i - 1)], parts[i])
        BY <1>5, <2>1, <2>2
    <2> QED BY <2>2, <2>3
<1>8. Handled(st, parts) = after[n]
    BY <1>1, <1>2
<1> HIDE DEF after
<1>9. \A i \in 0..n : after[i] \in Results
    <2> DEFINE T == {i \in 0..n : after[i] \in Results}
    <2>1. 0 \in T
        BY <1>1, <1>6
    <2>2. ASSUME NEW i \in 1..n, i - 1 \in T
          PROVE  i \in T
        <3>1. after[i - 1] \in Results /\ parts[i] \in Parts
            BY <1>1, <2>2
        <3> QED BY <1>7, <3>1, RoundType
    <2> HIDE DEF T
    <2>3. \A i \in 1..n : i - 1 \in T => i \in T
        BY <2>2
    <2>4. \A i \in 0..n : i \in T
        BY <1>1, <2>1, <2>3, Steps
    <2> QED BY <2>4 DEF T
<1>10. after \in [0..n -> Results]
    BY <1>9 DEF after
<1> QED BY <1>6, <1>7, <1>8, <1>10

\* A message starts anew after the failure of the one before.
Ready(st) == [st EXCEPT !.ok = TRUE]

LEMMA HandledType ==
    ASSUME LinkOK, NEW st \in Results, NEW parts \in Seq(Parts)
    PROVE  Handled(st, parts) \in Results /\ Ready(st) \in Results
<1>1. Handled(st, parts) \in Results
    <2>1. Len(parts) \in 0..Len(parts)
        OBVIOUS
    <2> QED BY <2>1, PartByPart
<1>2. Ready(st) \in Results
    BY DEF Ready, Results
<1> QED BY <1>1, <1>2

\* Replayed is the end of a run over the messages on the wire.
LEMMA MessageByMessage ==
    ASSUME LinkOK, WireOK, TodoOK, LocalOK
    PROVE  \E after \in [0..Len(wire) -> Results] :
              /\ after[0] = Handled(Node, todo)
              /\ \A i \in 1..Len(wire) : after[i] = Handled(Ready(after[i - 1]), wire[i])
              /\ Replayed = after[Len(wire)]
<1> DEFINE n == Len(wire)
           st == Handled(Node, todo)
           Recurs(h) == h = [s \in SUBSET DOMAIN wire |->
                               IF s = {} THEN st ELSE Handled(Ready(h[s \ {Max(s)}]), wire[Max(s)])]
           h == CHOOSE h : Recurs(h)
<1>1. n \in Nat /\ DOMAIN wire = 1..n /\ wire \in [1..n -> Seq(Parts)]
    BY DEF WireOK
<1>2. Replayed = h[DOMAIN wire]
    BY DEF Replayed, FoldLeft, MapThenFoldSet, Ready
<1>0. st \in Results
    <2>1. Node \in Results
        BY DEF Node, Results, LocalOK
    <2> QED BY <2>1, HandledType DEF TodoOK
<1> HIDE DEF st
<1>3. \E g : Recurs(g)
    <2> DEFINE F == [x \in Results \X Seq(Parts) |-> Handled(Ready(x[1]), x[2])]
    <2>1. F \in [Results \X Seq(Parts) -> Results]
        BY HandledType
    <2> HIDE DEF F
    <2>2. PICK g \in [SUBSET (1..n) -> Results] : Folds(g, F, st, n, wire)
        BY <1>0, <1>1, <2>1, FoldExists
    <2>3. ASSUME NEW s \in SUBSET (1..n)
          PROVE  g[s] = IF s = {} THEN st ELSE Handled(Ready(g[s \ {Max(s)}]), wire[Max(s)])
        <3>1. CASE s = {}
            BY <2>2, <3>1 DEF Folds
        <3>2. CASE s # {}
            <4> DEFINE r == g[s \ {Max(s)}]
                       m == wire[Max(s)]
            <4>1. r \in Results /\ s \ {Max(s)} \in SUBSET (1..n)
                BY <2>2
            <4>2. m \in Seq(Parts)
                BY <1>1, <3>2, GreatestIndex
            <4>3. g[s] = F[<<r, m>>]
                BY <2>2, <3>2 DEF Folds
            <4> HIDE DEF r, m
            <4>4. F[<<r, m>>] = Handled(Ready(r), m)
                BY <4>1, <4>2 DEF F
            <4> QED BY <3>2, <4>3, <4>4 DEF r, m
        <3> QED BY <3>1, <3>2
    <2>4. g = [s \in SUBSET (1..n) |-> IF s = {} THEN st ELSE Handled(Ready(g[s \ {Max(s)}]), wire[Max(s)])]
        BY <2>3
    <2> QED BY <1>1, <2>4
<1> HIDE DEF Recurs
<1>4. Recurs(h)
    BY <1>3
<1> HIDE DEF h
<1>5. \A s \in SUBSET (1..n) : h[s] = IF s = {} THEN st ELSE Handled(Ready(h[s \ {Max(s)}]), wire[Max(s)])
    BY <1>1, <1>4 DEF Recurs
<1> DEFINE after == [i \in 0..n |-> h[1..i]]
<1>6. after[0] = st
    <2>1. 1..0 = {} /\ {} \in SUBSET (1..n) /\ 0 \in 0..n
        BY <1>1
    <2> QED BY <1>5, <2>1
<1>7. ASSUME NEW i \in 1..n
      PROVE  after[i] = Handled(Ready(after[i - 1]), wire[i])
    <2>1. 1..i # {} /\ Max(1..i) = i /\ (1..i) \ {i} = 1..(i - 1)
        BY <1>1, GreatestIndex
    <2>2. 1..i \in SUBSET (1..n) /\ i \in 0..n /\ i - 1 \in 0..n
        BY <1>1
    <2>3. h[1..i] = Handled(Ready(h[1..(i - 1)]), wire[i])
        BY <1>5, <2>1, <2>2
    <2> QED BY <2>2, <2>3
<1>8. Replayed = after[n]
    BY <1>1, <1>2
<1> HIDE DEF after
<1>9. \A i \in 0..n : after[i] \in Results
    <2> DEFINE T == {i \in 0..n : after[i] \in Results}
    <2>1. 0 \in T
        BY <1>0, <1>1, <1>6
    <2>2. ASSUME NEW i \in 1..n, i - 1 \in T
          PROVE  i \in T
        <3>1. after[i - 1] \in Results /\ wire[i] \in Seq(Parts)
            BY <1>1, <2>2
        <3>2. Ready(after[i - 1]) \in Results
            BY <3>1, HandledType
        <3>3. Handled(Ready(after[i - 1]), wire[i]) \in Results
            BY <3>1, <3>2, HandledType
        <3> QED BY <1>7, <3>3
    <2> HIDE DEF T
    <2>3. \A i \in 1..n : i - 1 \in T => i \in T
        BY <2>2
    <2>4. \A i \in 0..n : i \in T
        BY <1>1, <2>1, <2>3, Steps
    <2> QED BY <2>4 DEF T
<1>10. after \in [0..n -> Results]
    BY <1>9 DEF after
<1> QED BY <1>6, <1>7, <1>8, <1>10 DEF st

-----------------------------------------------------------------------------
(* One message: a snapshot mirrors its book, and each change one level more *)

\* The feeds' conversions agree with the probability of YES, and only
\* Hyperliquid's merges prices.
LEMMA OutcomeFacts ==
    ASSUME LinkOK, NEW side \in Sides, NEW p \in Prices
    PROVE  /\ PriceBps(side, p) = Outcome(side, p) /\ Outcome(side, p) \in Prices
           /\ venue # "HIP4" => \A q \in Prices : Outcome(side, p) = Outcome(side, q) => p = q
<1>1. venue \in {"HIP4", "KALSHI", "POLYMARKET"}
    BY FeedAssumption DEF LinkOK
<1>2. PriceBps(side, p) \in Prices
    BY PriceType
<1>3. p \in Nat /\ \A q \in Prices : q \in Nat
    BY PriceFacts
<1>4. MaxPrice \in Nat
    BY BookAssumption
<1>5. PriceBps(side, p) = Outcome(side, p)
    BY <1>1 DEF PriceBps, Outcome, YesPrice, Sides
<1>6. ASSUME venue # "HIP4", NEW q \in Prices, Outcome(side, p) = Outcome(side, q)
      PROVE  p = q
    BY <1>3, <1>4, <1>6 DEF Outcome, YesPrice
<1> QED BY <1>2, <1>5, <1>6

\* An enumeration has every element once.
LEMMA OrderFacts ==
    ASSUME NEW S, IsFiniteSet(S), NEW order \in SetToSeqs(S)
    PROVE  /\ order \in Seq(S) /\ Len(order) \in Nat /\ DOMAIN order = 1..Len(order)
           /\ Len(order) = Cardinality(S)
           /\ \A i, j \in 1..Len(order) : order[i] = order[j] => i = j
           /\ \A x \in S : \E i \in 1..Len(order) : order[i] = x
<1> DEFINE n == Cardinality(S)
<1>1. n \in Nat
    BY FS_CardinalityType
<1>2. order \in [1..n -> S] /\ \A i, j \in 1..n : i # j => order[i] # order[j]
    BY DEF SetToSeqs
<1>3. Len(order) = n /\ order \in Seq(S) /\ DOMAIN order = 1..n
    BY <1>1, <1>2
<1>4. order \in Injection(1..n, S)
    BY <1>2 DEF Injection, IsInjective
<1>5. IsFiniteSet(1..n) /\ Cardinality(1..n) = n
    BY <1>1, FS_Interval
<1>6. order \in Surjection(1..n, S)
    <2>1. Cardinality(1..n) = Cardinality(S)
        BY <1>5
    <2> HIDE DEF n
    <2> QED BY <1>4, <1>5, <2>1, FS_Injection
<1>7. \A x \in S : \E i \in 1..n : order[i] = x
    BY <1>6 DEF Surjection
<1> QED BY <1>1, <1>2, <1>3, <1>7

\* A snapshot makes any local book the exchange's.
LEMMA SnapshotMirrors ==
    ASSUME LinkOK, NEW a, NEW b \in LocalBooks, NEW part \in BookParts(a, b, TRUE), NEW local
    PROVE  Mirrors(ApplySnapshot(local, Converted(part.lists)), Sized(b))
<1>1. PICK bids \in BestFirst(b, "bid"), asks \in BestFirst(b, "ask") :
            part.lists = [side \in Sides |-> Ladder(b, side, IF side = "bid" THEN bids ELSE asks)]
    BY DEF BookParts
<1> SUFFICES ASSUME NEW side \in Sides, NEW p \in Prices
             PROVE  LET there == {q \in Listed(Sized(b), side) : Outcome(side, q) = p}
                        qty == ApplySnapshot(local, Converted(part.lists))[side][p]
                    IN IF there = {} THEN qty = 0 ELSE qty \in {Sized(b)[side][q] : q \in there}
    BY DEF Mirrors, MirrorsAt
<1> DEFINE order == IF side = "bid" THEN bids ELSE asks
           S == Listed(b, side)
           list == Converted(part.lists)[side]
           there == {q \in Listed(Sized(b), side) : Outcome(side, q) = p}
           at == {i \in DOMAIN list : list[i].price = p /\ list[i].qty > 0}
<1>2. order \in BestFirst(b, side)
    BY DEF Sides
<1>3. S \in SUBSET Prices /\ IsFiniteSet(S)
    BY ListedFacts, PriceFacts, FS_Subset
<1>4. /\ order \in Seq(S) /\ Len(order) \in Nat /\ DOMAIN order = 1..Len(order)
      /\ \A x \in S : \E i \in 1..Len(order) : order[i] = x
    <2>1. order \in SetToSeqs(S)
        BY <1>2 DEF BestFirst
    <2> HIDE DEF order, S
    <2> QED BY <1>3, <2>1, OrderFacts
<1>5. part.lists[side] = Ladder(b, side, order)
    BY <1>1
<1> HIDE DEF order
<1>6. DOMAIN list = 1..Len(order)
    BY <1>4, <1>5 DEF Converted, Ladder
<1>7. ASSUME NEW i \in 1..Len(order)
      PROVE  /\ order[i] \in S
             /\ list[i].price = Outcome(side, order[i])
             /\ list[i].qty = Sized(b)[side][order[i]] /\ list[i].qty \in Nat
    <2>1. order[i] \in S /\ order[i] \in Prices
        BY <1>3, <1>4
    <2>2. Ladder(b, side, order)[i] = [price |-> order[i], qty |-> b[side][order[i]]]
        BY <1>4 DEF Ladder
    <2>3. DOMAIN Ladder(b, side, order) = 1..Len(order)
        BY <1>4 DEF Ladder
    <2>4. list[i] = [price |-> PriceBps(side, Ladder(b, side, order)[i].price),
                     qty |-> Units(Ladder(b, side, order)[i].qty)]
        BY <1>5, <2>3 DEF Converted
    <2>5. list[i] = [price |-> PriceBps(side, order[i]), qty |-> Units(b[side][order[i]])]
        BY <2>2, <2>4
    <2>6. PriceBps(side, order[i]) = Outcome(side, order[i])
        BY <2>1, OutcomeFacts
    <2>7. Units(b[side][order[i]]) = Sized(b)[side][order[i]] /\ Sized(b)[side][order[i]] \in Nat
        BY <2>1, SizedFacts, ListedFacts
    <2> HIDE DEF list, S
    <2> QED BY <2>1, <2>5, <2>6, <2>7
<1>8. ApplySnapshot(local, Converted(part.lists))[side][p] =
            IF at = {} THEN 0 ELSE list[Max(at)].qty
    BY DEF ApplySnapshot, LevelsOf
<1> HIDE DEF list, S
<1>9. CASE at = {}
    <2>1. there = {}
        <3> SUFFICES ASSUME NEW q \in there
                     PROVE  FALSE
            OBVIOUS
        <3>1. q \in S /\ Outcome(side, q) = p /\ Sized(b)[side][q] # 0
            BY SizedFacts, ListedFacts DEF S
        <3>2. PICK i \in 1..Len(order) : order[i] = q
            BY <1>4, <3>1
        <3>3. i \in at
            BY <1>6, <1>7, <3>1, <3>2
        <3> QED BY <1>9, <3>3
    <2> QED BY <1>8, <1>9, <2>1
<1>10. CASE at # {}
    <2>1. at \subseteq 0..Len(order)
        BY <1>4, <1>6
    <2>2. Max(at) \in at
        BY <1>4, <1>10, <2>1, MaxOf
    <2> DEFINE i == Max(at)
    <2>3. i \in 1..Len(order) /\ list[i].price = p /\ list[i].qty > 0
        BY <1>6, <2>2
    <2> HIDE DEF i, at
    <2>4. list[i].qty = Sized(b)[side][order[i]] /\ order[i] \in Prices /\ Outcome(side, order[i]) = p
        BY <1>3, <1>7, <2>3
    <2>5. order[i] \in there
        BY <2>3, <2>4, SizedFacts, ListedFacts
    <2>6. ApplySnapshot(local, Converted(part.lists))[side][p] = list[i].qty
        BY <1>8, <1>10 DEF i
    <2> QED BY <2>4, <2>5, <2>6
<1> QED BY <1>9, <1>10

\* Where prices are not merged, a mirror has the quantity of each level.
LEMMA ExactMirror ==
    ASSUME LinkOK, venue # "HIP4", NEW local, NEW b \in LocalBooks
    PROVE  Mirrors(local, b) <=>
              \A side \in Sides, p \in Prices : local[side][Outcome(side, p)] = b[side][p]
<1>1. ASSUME Mirrors(local, b), NEW side \in Sides, NEW p \in Prices
      PROVE  local[side][Outcome(side, p)] = b[side][p]
    <2> DEFINE there == {q \in Listed(b, side) : Outcome(side, q) = Outcome(side, p)}
    <2>1. Outcome(side, p) \in Prices
        BY OutcomeFacts
    <2>2. IF there = {} THEN local[side][Outcome(side, p)] = 0
                        ELSE local[side][Outcome(side, p)] \in {b[side][q] : q \in there}
        BY <1>1, <2>1 DEF Mirrors, MirrorsAt
    <2>3. \A q \in there : q = p
        BY OutcomeFacts, ListedFacts
    <2>4. CASE p \in Listed(b, side)
        BY <2>2, <2>3, <2>4
    <2>5. CASE p \notin Listed(b, side)
        <3>1. there = {}
            BY <2>3, <2>5
        <3> QED BY <2>2, <2>5, <3>1, ListedFacts
    <2> QED BY <2>4, <2>5
<1>2. ASSUME \A side \in Sides, p \in Prices : local[side][Outcome(side, p)] = b[side][p],
             NEW side \in Sides, NEW x \in Prices
      PROVE  LET there == {q \in Listed(b, side) : Outcome(side, q) = x}
             IN IF there = {} THEN local[side][x] = 0
                              ELSE local[side][x] \in {b[side][q] : q \in there}
    <2> DEFINE p == Outcome(side, x)
               there == {q \in Listed(b, side) : Outcome(side, q) = x}
    <2>1. p \in Prices /\ Outcome(side, p) = x
        <3>1. x \in Nat /\ MaxPrice \in Nat
            BY PriceFacts, BookAssumption
        <3>2. Outcome(side, p) = x
            BY <3>1 DEF Outcome, YesPrice
        <3> QED BY <3>2, OutcomeFacts
    <2> HIDE DEF p
    <2>2. local[side][x] = b[side][p]
        BY <1>2, <2>1
    <2>3. \A q \in there : q = p
        BY <2>1, OutcomeFacts, ListedFacts
    <2>4. CASE p \in Listed(b, side)
        BY <2>1, <2>2, <2>4
    <2>5. CASE p \notin Listed(b, side)
        BY <2>1, <2>2, <2>3, <2>5, ListedFacts
    <2> QED BY <2>4, <2>5
<1> QED BY <1>1, <1>2 DEF Mirrors, MirrorsAt

LEMMA MovedFacts ==
    ASSUME NEW old, NEW b
    PROVE  Moved(old, b) \subseteq Sides \X Prices /\ IsFiniteSet(Moved(old, b))
<1>1. IsFiniteSet(Sides)
    <2>1. IsFiniteSet({"bid"})
        BY FS_Singleton
    <2>2. IsFiniteSet({"bid"} \cup {"ask"})
        BY <2>1, FS_AddElement
    <2>3. Sides = {"bid"} \cup {"ask"}
        BY DEF Sides
    <2> QED BY <2>2, <2>3
<1>2. IsFiniteSet(Sides \X Prices)
    BY <1>1, PriceFacts, FS_Product
<1>3. Moved(old, b) \in SUBSET (Sides \X Prices)
    BY DEF Moved
<1> QED BY <1>2, <1>3, FS_Subset

\* The exchange's book in the middle of a message: the first k of the levels
\* that moved have moved.
Mix(old, b, order, k) ==
    [side \in Sides |-> [p \in Prices |->
        IF \E i \in 1..k : order[i] = <<side, p>> THEN b[side][p] ELSE old[side][p]]]

LEMMA MixFacts ==
    ASSUME NEW old \in LocalBooks, NEW b \in LocalBooks, NEW order \in SetToSeqs(Moved(old, b)),
           NEW k \in 0..Len(order)
    PROVE  /\ Mix(old, b, order, k) \in LocalBooks
           /\ Mix(old, b, order, 0) = old /\ Mix(old, b, order, Len(order)) = b
<1>1. Mix(old, b, order, k) \in LocalBooks
    BY DEF Mix, LocalBooks
<1>2. Mix(old, b, order, 0) = old
    <2>1. \A side \in Sides, p \in Prices : Mix(old, b, order, 0)[side][p] = old[side][p]
        BY DEF Mix
    <2> QED BY <2>1 DEF Mix, LocalBooks
<1>3. Mix(old, b, order, Len(order)) = b
    <2>1. ASSUME NEW side \in Sides, NEW p \in Prices
          PROVE  Mix(old, b, order, Len(order))[side][p] = b[side][p]
        <3>1. CASE <<side, p>> \in Moved(old, b)
            <4>1. \E i \in 1..Len(order) : order[i] = <<side, p>>
                <5>1. IsFiniteSet(Moved(old, b))
                    BY MovedFacts
                <5>2. \A x \in Moved(old, b) : \E i \in 1..Len(order) : order[i] = x
                    BY <5>1, OrderFacts
                <5> QED BY <3>1, <5>2
            <4> QED BY <4>1 DEF Mix
        <3>2. CASE <<side, p>> \notin Moved(old, b)
            <4>1. b[side][p] = old[side][p]
                BY <3>2 DEF Moved
            <4> QED BY <4>1 DEF Mix
        <3> QED BY <3>1, <3>2
    <2> DEFINE m == Mix(old, b, order, Len(order))
    <2>2. m \in [Sides -> [Prices -> Nat]]
        <3>1. \A side \in Sides, p \in Prices : m[side][p] \in Nat
            BY <2>1, ListedFacts
        <3> QED BY <3>1 DEF Mix
    <2> HIDE DEF m
    <2>3. b \in [Sides -> [Prices -> Nat]]
        BY DEF LocalBooks
    <2>4. \A side \in Sides : m[side] = b[side]
        BY <2>1, <2>2, <2>3 DEF m
    <2> QED BY <2>2, <2>3, <2>4 DEF m
<1> QED BY <1>1, <1>2, <1>3

\* A change moves a mirror one level on.
LEMMA ChangeMoves ==
    ASSUME LinkOK, venue # "HIP4",
           NEW old \in LocalBooks, NEW b \in LocalBooks, NEW local \in LocalBooks,
           NEW order \in SetToSeqs(Moved(old, b)), NEW k \in 0..(Len(order) - 1),
           Mirrors(local, Sized(Mix(old, b, order, k)))
    PROVE  Mirrors(ApplyChange(local, ChangeOf(old, b, order[k + 1])),
                   Sized(Mix(old, b, order, k + 1)))
<1> DEFINE l == order[k + 1]
           s == l[1]
           p == l[2]
           x == Outcome(s, p)
           was == Mix(old, b, order, k)
           is == Mix(old, b, order, k + 1)
           done == ApplyChange(local, ChangeOf(old, b, l))
<1>0. /\ Len(order) \in Nat /\ order \in Seq(Moved(old, b))
      /\ \A i, j \in 1..Len(order) : order[i] = order[j] => i = j
    BY MovedFacts, OrderFacts
<1>1. k \in Nat /\ k + 1 \in 1..Len(order) /\ l \in Moved(old, b)
    BY <1>0
<1>2. s \in Sides /\ p \in Prices /\ l = <<s, p>>
    BY <1>1, MovedFacts
<1>3. \A i \in 1..k : order[i] # <<s, p>>
    BY <1>0, <1>1, <1>2
<1>4. was[s][p] = old[s][p] /\ is[s][p] = b[s][p]
    <2>1. k + 1 \in 1..(k + 1)
        BY <1>1
    <2> QED BY <1>2, <1>3, <2>1 DEF Mix
<1>5. \A side \in Sides, q \in Prices : <<side, q>> # <<s, p>> => is[side][q] = was[side][q]
    <2> SUFFICES ASSUME NEW side \in Sides, NEW q \in Prices, <<side, q>> # <<s, p>>
                 PROVE  is[side][q] = was[side][q]
        OBVIOUS
    <2>1. order[k + 1] # <<side, q>>
        BY <1>2
    <2>2. (\E i \in 1..(k + 1) : order[i] = <<side, q>>) <=> (\E i \in 1..k : order[i] = <<side, q>>)
        BY <1>1, <2>1
    <2> QED BY <2>2 DEF Mix
<1>6. was \in LocalBooks /\ is \in LocalBooks
    <2>1. k \in 0..Len(order) /\ k + 1 \in 0..Len(order)
        BY <1>0
    <2> QED BY <2>1, MixFacts
<1> HIDE DEF was, is, l
<1>7. \A side \in Sides, q \in Prices : local[side][Outcome(side, q)] = Units(was[side][q])
    <2>1. Sized(was) \in LocalBooks
        BY <1>6, SizedFacts
    <2>2. Mirrors(local, Sized(was))
        BY DEF was
    <2>3. \A side \in Sides, q \in Prices : local[side][Outcome(side, q)] = Sized(was)[side][q]
        BY <2>1, <2>2, ExactMirror
    <2> QED BY <1>6, <2>3, SizedFacts
<1>8. old[s][p] \in Nat /\ b[s][p] \in Nat
    BY <1>2, ListedFacts
<1>9. x \in Prices /\ PriceBps(s, p) = x
    BY <1>2, OutcomeFacts
<1>10. done = SetLevel(local, s, x, Units(b[s][p]))
    <2>1. ChangeOf(old, b, l) = [side |-> s, price |-> p,
                                 qty |-> b[s][p] - IF venue = "KALSHI" THEN old[s][p] ELSE 0]
        BY DEF ChangeOf
    <2>2. CASE venue = "KALSHI"
        <3>1. local[s][x] = old[s][p]
            BY <1>2, <1>4, <1>7, <2>2 DEF Units
        <3>2. local[s][x] + (b[s][p] - old[s][p]) = Units(b[s][p])
            BY <1>8, <2>2, <3>1 DEF Units
        <3> QED BY <1>9, <2>1, <2>2, <3>2 DEF ApplyChange, ApplyQuantityDelta
    <2>3. CASE venue # "KALSHI"
        <3>1. b[s][p] - 0 = b[s][p]
            BY <1>8
        <3> QED BY <1>9, <2>1, <2>3, <3>1 DEF ApplyChange
    <2> QED BY <2>2, <2>3
<1>11. (IF Units(b[s][p]) <= 0 THEN 0 ELSE Units(b[s][p])) = Units(b[s][p])
    <2> DEFINE u == b[s][p]
    <2>1. u \in Nat
        BY <1>8
    <2> HIDE DEF u
    <2>2. Units(u) \in Nat
        BY <2>1, UnitsType
    <2>3. (IF Units(u) <= 0 THEN 0 ELSE Units(u)) = Units(u)
        BY <2>2
    <2> QED BY <2>3 DEF u
<1> HIDE DEF done
<1>12. \A side \in Sides, y \in Prices :
            done[side][y] = IF side = s /\ y = x THEN Units(b[s][p]) ELSE local[side][y]
    BY <1>2, <1>9, <1>10, <1>11 DEF SetLevel, LocalBooks
<1> HIDE DEF s, p
<1>13. ASSUME NEW side \in Sides, NEW q \in Prices
      PROVE  done[side][Outcome(side, q)] = Units(is[side][q])
    <2>1. Outcome(side, q) \in Prices
        BY OutcomeFacts
    <2>2. CASE <<side, q>> = <<s, p>>
        BY <1>4, <1>12, <2>1, <2>2
    <2>3. CASE <<side, q>> # <<s, p>>
        <3>1. ~(side = s /\ Outcome(side, q) = x)
            BY <1>2, <2>3, OutcomeFacts
        <3> QED BY <1>5, <1>7, <1>12, <2>1, <2>3, <3>1
    <2> QED BY <2>2, <2>3
<1>14. Sized(is) \in LocalBooks
    BY <1>6, SizedFacts
<1>15. \A side \in Sides, q \in Prices : done[side][Outcome(side, q)] = Sized(is)[side][q]
    BY <1>6, <1>13, SizedFacts
<1>16. Mirrors(done, Sized(is))
    BY <1>14, <1>15, ExactMirror
<1> QED BY <1>16 DEF done, is, l

\* A message that is the whole book b.
Whole(m, b) == Len(m) = 1 /\ \E a \in Assets : m[1] \in BookParts(a, b, TRUE)

\* The changes from old to b, in some order, after the first k.
ChangesFrom(old, b, order, k) ==
    [i \in 1..(Len(order) - k) |->
        ChangePart(ChangeOf(old, b, order[k + i]), k + i = Len(order))]

\* The local book mirrors b, in units, and its top, if it has one, is published.
Published(local, t, b) ==
    Mirrors(local, Sized(b)) /\ (TopOfBook(local) # NoTop => t = TopOfBook(local))

\* The changes that are left of a message from another book.
ChangesLead(parts, local, b) ==
    /\ venue # "HIP4"
    /\ \E old \in LocalBooks :
          \E order \in SetToSeqs(Moved(old, b)) :
              \E k \in 0..(Len(order) - 1) :
                  /\ Mirrors(local, Sized(Mix(old, b, order, k)))
                  /\ parts = ChangesFrom(old, b, order, k)

\* What is left of a message leads a local book and top t to b.
Rest(parts, local, t, b) ==
    \/ parts = << >> /\ Published(local, t, b)
    \/ Whole(parts, b)
    \/ ChangesLead(parts, local, b)

\* A message leads from old to b.
Leads(old, m, b) ==
    \/ Whole(m, b)
    \/ /\ venue # "HIP4" /\ Moved(old, b) # {}
       /\ \E order \in SetToSeqs(Moved(old, b)) : m = ChangesFrom(old, b, order, 0)

LEMMA LeadsRest ==
    ASSUME LinkOK, NEW old \in LocalBooks, NEW b \in LocalBooks, NEW m, NEW local, NEW t,
           Leads(old, m, b), Whole(m, b) \/ Mirrors(local, Sized(old))
    PROVE  Rest(m, local, t, b)
<1>1. CASE Whole(m, b)
    BY <1>1 DEF Rest
<1>2. CASE ~Whole(m, b)
    <2>1. PICK order \in SetToSeqs(Moved(old, b)) : m = ChangesFrom(old, b, order, 0)
        BY <1>2 DEF Leads
    <2>2. venue # "HIP4" /\ Moved(old, b) # {} /\ Mirrors(local, Sized(old))
        BY <1>2 DEF Leads
    <2>3. Len(order) \in Nat /\ Len(order) # 0
        BY <2>2, MovedFacts, OrderFacts
    <2>4. 0 \in 0..(Len(order) - 1) /\ 0 \in 0..Len(order)
        BY <2>3
    <2>5. Mirrors(local, Sized(Mix(old, b, order, 0)))
        BY <2>2, <2>4, MixFacts
    <2>6. ChangesLead(m, local, b)
        BY <2>1, <2>2, <2>4, <2>5 DEF ChangesLead
    <2> QED BY <2>6 DEF Rest
<1> QED BY <1>1, <1>2

LEMMA PublishFacts ==
    ASSUME NEW st \in Results, st.ok, NEW b \in LocalBooks, Mirrors(st.book, Sized(b))
    PROVE  LET done == Publish(st)
           IN /\ done.book = st.book /\ Published(done.book, done.top, b)
              /\ done.top # st.top => done.top = TopOfBook(done.book) /\ done.top # NoTop
    BY DEF Publish, Failed, Published, Results

\* Handling the first part leads on, and ends with the top of a mirror
\* published if it publishes at all.
LEMMA PartLeads ==
    ASSUME LinkOK, NEW st \in Results, st.ok, NEW parts \in Seq(Parts), parts # << >>,
           NEW b \in LocalBooks, Rest(parts, st.book, st.top, b)
    PROVE  LET done == HandlePart(st, Head(parts))
           IN /\ Rest(IF done.ok THEN Tail(parts) ELSE << >>, done.book, done.top, b)
              /\ done.top # st.top =>
                    Mirrors(done.book, Sized(b)) /\ done.top = TopOfBook(done.book) /\ done.top # NoTop
<1> DEFINE part == Head(parts)
           done == HandlePart(st, part)
<1>0. part = parts[1] /\ part \in Parts /\ done \in Results
    BY PartType
<1>1. CASE Whole(parts, b)
    <2>1. PICK a \in Assets : part \in BookParts(a, b, TRUE)
        BY <1>0, <1>1 DEF Whole
    <2> DEFINE local == ApplySnapshot(st.book, Converted(part.lists))
               next == [st EXCEPT !.book = local]
    <2>2. part.kind = "book" /\ part.readable
        <3> HIDE DEF part
        <3>1. PICK bids \in BestFirst(b, "bid"), asks \in BestFirst(b, "ask") :
                part = [kind |-> "book", asset |-> a, readable |-> TRUE,
                        lists |-> [side \in Sides |-> Ladder(b, side, IF side = "bid" THEN bids ELSE asks)]]
            BY <2>1 DEF BookParts
        <3> QED BY <3>1
    <2>3. part.lists \in [Sides -> Seq(Level)]
        BY <1>0, <2>2 DEF Parts
    <2>4. local \in LocalBooks
        BY <2>3, SnapshotType
    <2>5. Mirrors(local, Sized(b))
        BY <2>1, SnapshotMirrors
    <2>6. done = Publish(next)
        BY <2>2 DEF HandlePart, HandleBook
    <2> HIDE DEF local
    <2>7. next \in Results /\ next.ok /\ next.book = local /\ next.top = st.top
        BY <2>4 DEF Results
    <2>8. Tail(parts) = << >>
        <3>1. Len(parts) = 1
            BY <1>1 DEF Whole
        <3>2. Tail(parts) \in Seq(Parts) /\ Len(Tail(parts)) = 0
            BY <3>1, HeadTailProperties
        <3> QED BY <3>2, EmptySeq
    <2> HIDE DEF next, done
    <2>9. /\ done.book = local /\ Published(local, done.top, b)
          /\ done.top # st.top => done.top = TopOfBook(local) /\ done.top # NoTop
        BY <2>5, <2>6, <2>7, PublishFacts
    <2> QED BY <2>5, <2>8, <2>9 DEF Rest, done
<1>2. CASE ChangesLead(parts, st.book, b)
    <2>a. PICK old \in LocalBooks :
            \E order \in SetToSeqs(Moved(old, b)) : \E k \in 0..(Len(order) - 1) :
                Mirrors(st.book, Sized(Mix(old, b, order, k))) /\ parts = ChangesFrom(old, b, order, k)
        BY <1>2 DEF ChangesLead
    <2>b. PICK order \in SetToSeqs(Moved(old, b)) : \E k \in 0..(Len(order) - 1) :
                Mirrors(st.book, Sized(Mix(old, b, order, k))) /\ parts = ChangesFrom(old, b, order, k)
        BY <2>a
    <2>1. PICK k \in 0..(Len(order) - 1) :
                Mirrors(st.book, Sized(Mix(old, b, order, k))) /\ parts = ChangesFrom(old, b, order, k)
        BY <2>b
    <2>2. venue # "HIP4"
        BY <1>2 DEF ChangesLead
    <2> DEFINE n == Len(order)
               c == ChangeOf(old, b, order[k + 1])
               local == ApplyChange(st.book, c)
               next == [st EXCEPT !.book = local]
    <2>3. n \in Nat /\ order \in Seq(Moved(old, b))
        BY MovedFacts, OrderFacts
    <2>4. k \in Nat /\ n - k \in Nat /\ k < n /\ k + 1 \in 1..n
        BY <2>1, <2>3
    <2>5. part = ChangePart(c, k + 1 = n)
        BY <1>0, <2>1, <2>4 DEF ChangesFrom
    <2>6. st.book \in LocalBooks
        BY DEF Results
    <2>7. Mirrors(local, Sized(Mix(old, b, order, k + 1)))
        BY <2>1, <2>2, <2>6, ChangeMoves
    <2>8. c \in [side : Sides, price : Prices, qty : Int] /\ c # Malformed
        <3> DEFINE l == order[k + 1]
        <3>1. l \in Sides \X Prices
            BY <2>3, <2>4, MovedFacts
        <3>2. l[1] \in Sides /\ l[2] \in Prices
            BY <3>1
        <3> HIDE DEF l
        <3>3. old[l[1]][l[2]] \in Nat /\ b[l[1]][l[2]] \in Nat
            BY <3>2, ListedFacts
        <3>4. c \in [side : Sides, price : Prices, qty : Int]
            BY <3>2, <3>3 DEF ChangeOf, l
        <3> QED BY <3>4, SpecialAssumption
    <2>9. local \in LocalBooks
        <3>1. c.side \in Sides /\ c.price \in Prices /\ c.qty \in Int
            BY <2>8
        <3>2. PriceBps(c.side, c.price) \in Prices
            BY <3>1, PriceType
        <3> QED BY <2>6, <3>1, <3>2, UnitsType, UpdateType DEF ApplyChange
    <2>10. done = IF k + 1 = n THEN Publish(next) ELSE next
        <3>1. part.kind = "change" /\ part.change = c /\ part.last = (k + 1 = n)
            BY <2>5 DEF ChangePart
        <3> HIDE DEF part, c, n
        <3>2. done = HandleChange(st, part)
            BY <3>1 DEF HandlePart
        <3> QED BY <2>8, <3>1, <3>2 DEF HandleChange
    <2> HIDE DEF c, local
    <2>11. next \in Results /\ next.ok /\ next.book = local /\ next.top = st.top
        BY <2>9 DEF Results
    <2> HIDE DEF next
    <2>12. Tail(parts) = ChangesFrom(old, b, order, k + 1)
        <3> DEFINE to(i) == ChangePart(ChangeOf(old, b, order[i]), i = n)
        <3>1. parts = [i \in 1..(n - k) |-> to(k + i)]
            BY <2>1 DEF ChangesFrom
        <3>2. ChangesFrom(old, b, order, k + 1) = [i \in 1..(n - (k + 1)) |-> to((k + 1) + i)]
            BY DEF ChangesFrom
        <3> HIDE DEF to, n
        <3>3. Len(parts) = n - k
            BY <2>4, <3>1
        <3>4. Tail(parts) = [i \in 1..(n - k - 1) |-> parts[i + 1]]
            <4>1. /\ Tail(parts) \in Seq(Parts) /\ Len(Tail(parts)) = n - k - 1
                  /\ \A i \in 1..Len(Tail(parts)) : Tail(parts)[i] = parts[i + 1]
                BY <3>3, HeadTailProperties
            <4>2. Tail(parts) = [i \in 1..Len(Tail(parts)) |-> Tail(parts)[i]]
                BY <4>1, LenProperties
            <4> QED BY <4>1, <4>2
        <3>5. n - k - 1 = n - (k + 1)
            BY <2>3, <2>4
        <3>6. \A i \in 1..(n - k - 1) : parts[i + 1] = to((k + 1) + i)
            BY <2>3, <2>4, <3>1
        <3> QED BY <3>2, <3>4, <3>5, <3>6
    <2>13. CASE k + 1 = n
        <3>1. Mirrors(local, Sized(b))
            BY <2>3, <2>7, <2>13, MixFacts
        <3>2. done = Publish(next)
            BY <2>10, <2>13
        <3> HIDE DEF done
        <3>3. /\ done.book = local /\ Published(local, done.top, b)
              /\ done.top # st.top => done.top = TopOfBook(local) /\ done.top # NoTop
            BY <2>11, <3>1, <3>2, PublishFacts
        <3>4. Tail(parts) = << >>
            BY <2>12, <2>13, <2>4 DEF ChangesFrom
        <3> QED BY <3>1, <3>3, <3>4 DEF Rest, done
    <2>14. CASE k + 1 # n
        <3>1. done = next
            BY <2>10, <2>14
        <3>2. k + 1 \in 0..(n - 1)
            BY <2>3, <2>4, <2>14
        <3>3. ChangesLead(Tail(parts), local, b)
            BY <2>2, <2>7, <2>12, <3>2 DEF ChangesLead
        <3> QED BY <2>11, <3>1, <3>3 DEF Rest
    <2> QED BY <2>13, <2>14
<1> QED BY <1>1, <1>2 DEF Rest

-----------------------------------------------------------------------------
(* The venue stays what it is *)

LEMMA VenueMirrors ==
    ASSUME venue' = venue, NEW local, NEW b
    PROVE  (Mirrors(local, b)' <=> Mirrors(local, b)) /\ Sized(b)' = Sized(b)
<1>1. \A side \in Sides, q \in Prices : Outcome(side, q)' = Outcome(side, q)
    BY DEF Outcome, YesPrice
<1>2. \A side : Listed(b, side) \subseteq Prices
    BY DEF Listed
<1>3. ASSUME NEW side \in Sides, NEW p
      PROVE  {q \in Listed(b, side) : Outcome(side, q)' = p} = {q \in Listed(b, side) : Outcome(side, q) = p}
    BY <1>1, <1>2
<1>4. Mirrors(local, b)' <=> Mirrors(local, b)
    BY <1>3 DEF Mirrors, MirrorsAt
<1>5. Sized(b)' = Sized(b)
    BY DEF Sized, Units
<1> QED BY <1>4, <1>5

LEMMA VenueWhole ==
    ASSUME venue' = venue, NEW m, NEW b
    PROVE  Whole(m, b)' <=> Whole(m, b)
<1>1. \A side : BestFirst(b, side)' = BestFirst(b, side)
    BY DEF BestFirst
<1>2. \A a : BookParts(a, b, TRUE)' = BookParts(a, b, TRUE)
    BY <1>1 DEF BookParts
<1> QED BY <1>2 DEF Whole

LEMMA VenueChanges ==
    ASSUME venue' = venue, NEW old, NEW b, NEW order, NEW k
    PROVE  ChangesFrom(old, b, order, k)' = ChangesFrom(old, b, order, k)
<1>1. \A l : ChangeOf(old, b, l)' = ChangeOf(old, b, l)
    BY DEF ChangeOf
<1> QED BY <1>1 DEF ChangesFrom

LEMMA VenueRest ==
    ASSUME venue' = venue, NEW parts, NEW local, NEW t, NEW b
    PROVE  Rest(parts, local, t, b)' <=> Rest(parts, local, t, b)
<1>1. \A c : Sized(c)' = Sized(c)
    BY VenueMirrors
<1>2. \A l, c : Mirrors(l, c)' <=> Mirrors(l, c)
    BY VenueMirrors
<1>3. \A l, c : Mirrors(l, Sized(c))' <=> Mirrors(l, Sized(c))
    BY <1>1, <1>2
<1>4. Published(local, t, b)' <=> Published(local, t, b)
    BY <1>1, <1>3 DEF Published
<1>5. ChangesLead(parts, local, b)' <=> ChangesLead(parts, local, b)
    BY <1>1, <1>3, VenueChanges DEF ChangesLead
<1>6. \A m : Whole(m, b)' <=> Whole(m, b)
    BY VenueWhole
<1> QED BY <1>4, <1>5, <1>6 DEF Rest

LEMMA VenueLeads ==
    ASSUME venue' = venue, NEW old, NEW m, NEW b
    PROVE  Leads(old, m, b)' <=> Leads(old, m, b)
    BY VenueWhole, VenueChanges DEF Leads

-----------------------------------------------------------------------------
(* The inductive invariant: a chain of books from the local one to the exchange's *)

\* bs are the exchange's books that the message in hand and each of those on
\* the wire lead to, the last of them the present one.
Chain(bs) ==
    /\ Len(bs) = Len(wire) + 1
    /\ link = "up" => bs[Len(wire) + 1] = exchange[Yes]
    /\ \A i \in 1..Len(wire) : Leads(bs[i], wire[i], bs[i + 1])
    /\ \/ Rest(todo, book, top, bs[1])
       \/ todo = << >> /\ wire # << >> /\ Whole(wire[1], bs[2])

Idle == link = "down" /\ wire = << >> /\ todo = << >>

ExchangeBooks == \A a \in Assets : exchange[a] \in Uncrossed(venue)

Led == spoiled \/ Idle \/ \E bs \in Seq(Uncrossed(venue)) : Chain(bs)

SyncInv == ExchangeBooks /\ Led

\* The book of the YES token is the only one subscribed to: always so on
\* Hyperliquid and Kalshi, and on Polymarket if no other asset is configured.
OneAsset == venue = "POLYMARKET" => Assets = {Yes}

LEMMA SubscribedFacts ==
    ASSUME OneAsset, LinkOK
    PROVE  Subscribed = {Yes} /\ Yes \in Assets
    BY FeedAssumption DEF OneAsset, LinkOK, Subscribed

LEMMA EmptyBooks ==
    ASSUME NEW v \in Protocols
    PROVE  EmptyBook \in Uncrossed(v)
<1>1. (\A p \in Prices : 0 \in Quantities[v][p]) /\ Depth[v] \in Nat
    BY FeedAssumption
<1>2. Cardinality({}) = 0
    BY FS_EmptySet
<1>3. [p \in Prices |-> 0] \in Stack(v)
    <2> DEFINE none == [p \in Prices |-> 0]
    <2>1. {p \in Prices : none[p] # 0} = {} /\ Cardinality({}) <= Depth[v]
        BY <1>1, <1>2
    <2>2. none \in [Prices -> UNION {Quantities[v][p] : p \in Prices}]
        BY <1>1
    <2>3. \A p \in Prices : none[p] \in Quantities[v][p]
        BY <1>1
    <2> HIDE DEF none
    <2>4. Cardinality({p \in Prices : none[p] # 0}) <= Depth[v]
        BY <2>1
    <2> QED BY <2>2, <2>3, <2>4 DEF Stack, none
<1>4. EmptyBook \in [Sides -> Stack(v)]
    BY <1>3 DEF EmptyBook
<1>5. \A side \in Sides : Listed(EmptyBook, side) = {}
    BY DEF Listed, EmptyBook
<1> QED BY <1>4, <1>5 DEF Uncrossed, Sides

LEMMA InitSync == Init => SyncInv
<1> SUFFICES ASSUME Init PROVE SyncInv
    OBVIOUS
<1>1. Idle
    BY DEF Init, Idle
<1>2. ExchangeBooks
    BY EmptyBooks DEF Init, ExchangeBooks
<1> QED BY <1>1, <1>2 DEF SyncInv, Led

\* What a message that can be read leads to.
LEMMA SentLeads ==
    ASSUME LinkOK, NEW old \in LocalBooks, NEW b \in LocalBooks, old # b,
           NEW order \in SetToSeqs(Moved(old, b)), NEW a \in Assets,
           NEW m \in Messages(a, b, [i \in DOMAIN order |-> ChangeOf(old, b, order[i])], TRUE)
    PROVE  Leads(old, m, b) /\ (venue = "HIP4" => Whole(m, b))
<1>1. CASE venue = "HIP4"
    <2>1. PICK part \in BookParts(a, b, TRUE) : m = <<part>>
        BY <1>1 DEF Messages
    <2> QED BY <2>1 DEF Whole, Leads
<1>2. CASE venue # "HIP4"
    <2>1. Moved(old, b) # {}
        <3>1. PICK side \in Sides : old[side] # b[side]
            BY DEF LocalBooks
        <3>2. old[side] \in [Prices -> Nat] /\ b[side] \in [Prices -> Nat]
            BY DEF LocalBooks
        <3>3. PICK p \in Prices : old[side][p] # b[side][p]
            BY <3>1, <3>2
        <3>4. <<side, p>> \in Moved(old, b)
            BY <3>3 DEF Moved
        <3> QED BY <3>4
    <2>2. Len(order) \in Nat /\ DOMAIN order = 1..Len(order)
        BY MovedFacts, OrderFacts
    <2> DEFINE changes == [i \in DOMAIN order |-> ChangeOf(old, b, order[i])]
    <2>3. m = [i \in DOMAIN changes |-> ChangePart(changes[i], i = Len(changes))]
        BY <1>2 DEF Messages
    <2>4. DOMAIN changes = 1..Len(order) /\ Len(changes) = Len(order)
        BY <2>2
    <2>5. m = [i \in 1..Len(order) |-> ChangePart(changes[i], i = Len(order))]
        BY <2>3, <2>4
    <2>6. \A i \in 1..Len(order) : changes[i] = ChangeOf(old, b, order[0 + i]) /\ 0 + i = i
        BY <2>2
    <2>7. 1..(Len(order) - 0) = 1..Len(order)
        BY <2>2
    <2> HIDE DEF changes
    <2>8. m = ChangesFrom(old, b, order, 0)
        BY <2>5, <2>6, <2>7 DEF ChangesFrom
    <2> QED BY <1>2, <2>1, <2>8 DEF Leads
<1> QED BY <1>1, <1>2

LEMMA ChainType ==
    ASSUME LinkOK, NEW bs \in Seq(Uncrossed(venue))
    PROVE  \A i \in 1..Len(bs) : bs[i] \in Uncrossed(venue) /\ bs[i] \in LocalBooks
    BY BooksType

\* The chain of the next state, with the venue of this one.
LEMMA ChainNext ==
    ASSUME venue' = venue, NEW bs
    PROVE  Chain(bs)' <=>
              /\ Len(bs) = Len(wire') + 1
              /\ link' = "up" => bs[Len(wire') + 1] = exchange'[Yes]
              /\ \A i \in 1..Len(wire') : Leads(bs[i], wire'[i], bs[i + 1])
              /\ \/ Rest(todo', book', top', bs[1])
                 \/ todo' = << >> /\ wire' # << >> /\ Whole(wire'[1], bs[2])
    BY VenueRest, VenueLeads, VenueWhole DEF Chain

LEMMA Once ==
    ASSUME NEW S, NEW b \in S
    PROVE  LET bs == <<b>> IN bs \in Seq(S) /\ Len(bs) = 1 /\ bs[1] = b
    OBVIOUS

LEMMA Twice ==
    ASSUME NEW S, NEW b \in S
    PROVE  LET bs == <<b, b>> IN bs \in Seq(S) /\ Len(bs) = 2 /\ bs[1] = b /\ bs[2] = b
    OBVIOUS

\* Once nothing is left of a message, its book is there.
LEMMA NothingLeft ==
    ASSUME LinkOK, NEW b \in LocalBooks, NEW local, NEW t, Rest(<< >>, local, t, b)
    PROVE  Published(local, t, b)
<1>1. ~Whole(<< >>, b)
    BY DEF Whole
<1>2. ASSUME NEW old, NEW order \in SetToSeqs(Moved(old, b)), NEW k \in 0..(Len(order) - 1)
      PROVE  << >> # ChangesFrom(old, b, order, k)
    <2>1. Len(order) \in Nat
        BY MovedFacts, OrderFacts
    <2>2. k \in Nat /\ Len(order) - k \in Nat /\ Len(order) - k # 0
        BY <2>1
    <2> DEFINE n == Len(order) - k
               to(i) == ChangePart(ChangeOf(old, b, order[k + i]), k + i = Len(order))
    <2>3. ChangesFrom(old, b, order, k) = [i \in 1..n |-> to(i)]
        BY DEF ChangesFrom
    <2>4. n \in Nat /\ n # 0
        BY <2>2
    <2> HIDE DEF n, to
    <2>5. Len([i \in 1..n |-> to(i)]) = n /\ Len(<< >>) = 0
        BY <2>4
    <2> QED BY <2>3, <2>4, <2>5
<1>3. ~ChangesLead(<< >>, local, b)
    BY <1>2 DEF ChangesLead
<1> QED BY <1>1, <1>3 DEF Rest

LEMMA ChangeSync ==
    ASSUME TypeOK, SyncInv, OneAsset, NEW a \in Assets, Change(a)
    PROVE  SyncInv'
<1>0. LinkOK /\ ExchangeOK /\ WireOK /\ TodoOK /\ LocalOK
    BY TypeParts
<1>1. PICK b \in Uncrossed(venue) \ {exchange[a]} :
          LET old == exchange[a]
          IN /\ exchange' = [exchange EXCEPT ![a] = b]
             /\ IF link = "up" /\ a \in Subscribed
                THEN Room /\ \E order \in SetToSeqs(Moved(old, b)) :
                        Send(a, b, [i \in DOMAIN order |-> ChangeOf(old, b, order[i])])
                ELSE UNCHANGED <<wire, spoiled>>
    BY ChangeTo
<1>2. UNCHANGED <<venue, link, todo, book, top>>
    BY DEF Change, localVars
<1>3. ExchangeBooks'
    BY <1>0, <1>1, <1>2 DEF SyncInv, ExchangeBooks, ExchangeOK
<1>4. CASE link # "up" \/ a \notin Subscribed
    <2>1. UNCHANGED <<wire, spoiled>>
        BY <1>1, <1>4
    <2>2. link' = "up" => exchange'[Yes] = exchange[Yes]
        BY <1>0, <1>1, <1>2, <1>4, SubscribedFacts DEF ExchangeOK
    <2>3. CASE spoiled
        BY <1>3, <2>1, <2>3 DEF SyncInv, Led
    <2>4. CASE Idle
        BY <1>2, <1>3, <2>1, <2>4 DEF SyncInv, Led, Idle
    <2>5. CASE ~spoiled /\ ~Idle
        <3>1. PICK bs \in Seq(Uncrossed(venue)) : Chain(bs)
            BY <2>5 DEF SyncInv, Led
        <3>2. Chain(bs)'
            BY <1>2, <2>1, <2>2, <3>1, ChainNext DEF Chain
        <3> QED BY <1>2, <1>3, <3>2 DEF SyncInv, Led
    <2> QED BY <2>3, <2>4, <2>5
<1>5. CASE link = "up" /\ a \in Subscribed
    <2> DEFINE old == exchange[a]
    <2>1. a = Yes
        BY <1>0, <1>5, SubscribedFacts
    <2>2. Room
        BY <1>1, <1>5
    <2>3. PICK order \in SetToSeqs(Moved(old, b)) :
                Send(a, b, [i \in DOMAIN order |-> ChangeOf(old, b, order[i])])
        BY <1>1, <1>5
    <2>4. old \in Uncrossed(venue) /\ old \in LocalBooks /\ b \in LocalBooks /\ old # b
        BY <1>0, BooksType DEF SyncInv, ExchangeBooks
    <2>5. exchange'[Yes] = b
        BY <1>0, <1>1, <2>1 DEF ExchangeOK
    <2>6. CASE spoiled'
        BY <1>3, <2>6 DEF SyncInv, Led
    <2>7. CASE ~spoiled'
        <3>1. PICK m \in Messages(a, b, [i \in DOMAIN order |-> ChangeOf(old, b, order[i])], TRUE) :
                    wire' = Append(wire, m)
            BY <2>3, <2>7 DEF Send
        <3>2. spoiled => venue = "HIP4"
            BY <2>3, <2>7 DEF Send
        <3>3. Leads(old, m, b) /\ (venue = "HIP4" => Whole(m, b))
            BY <1>0, <2>4, SentLeads
        <3>4. wire \in Seq(Seq(Parts)) /\ Len(wire) \in Nat
            BY <1>0 DEF WireOK
        <3>5. /\ Len(wire') = Len(wire) + 1 /\ wire' # << >>
              /\ \A i \in 1..Len(wire) : wire'[i] = wire[i]
              /\ wire'[Len(wire) + 1] = m
            BY <3>1, <3>4
        <3>6. CASE spoiled
            <4>1. wire = << >> /\ todo = << >>
                BY <1>0, <2>2, <3>4, <3>6 DEF Room, TodoOK
            <4> DEFINE bs == <<b, b>>
            <4>2. Len(wire') = 1 /\ wire'[1] = m /\ Whole(m, b)
                BY <3>2, <3>3, <3>5, <3>6, <4>1
            <4>3. Leads(b, m, b)
                BY <4>2 DEF Leads
            <4>4. bs \in Seq(Uncrossed(venue)) /\ Len(bs) = 2 /\ bs[1] = b /\ bs[2] = b
                <5>1. b \in Uncrossed(venue)
                    BY <2>4
                <5> HIDE DEF old
                <5> QED BY <5>1, Twice
            <4> HIDE DEF bs
            <4>5. Chain(bs)'
                BY <1>2, <2>5, <3>5, <4>1, <4>2, <4>3, <4>4, ChainNext
            <4> QED BY <1>2, <1>3, <4>4, <4>5 DEF SyncInv, Led
        <3>7. CASE ~spoiled
            <4>1. PICK cs \in Seq(Uncrossed(venue)) : Chain(cs)
                BY <1>5, <3>7 DEF SyncInv, Led, Idle
            <4> DEFINE bs == Append(cs, b)
                       n == Len(wire)
            <4>2. Len(cs) = n + 1 /\ cs[n + 1] = old
                BY <1>5, <2>1, <4>1 DEF Chain
            <4>3. /\ bs \in Seq(Uncrossed(venue)) /\ Len(bs) = n + 2 /\ bs[n + 2] = b
                  /\ \A i \in 1..(n + 1) : bs[i] = cs[i]
                BY <3>4, <4>2, AppendProperties
            <4> HIDE DEF bs, n, old
            <4>4. ASSUME NEW i \in 1..(n + 1)
                  PROVE  Leads(bs[i], wire'[i], bs[i + 1])
                <5>1. CASE i = n + 1
                    BY <3>3, <3>4, <3>5, <4>2, <4>3, <5>1 DEF n
                <5>2. CASE i # n + 1
                    <6>1. i \in 1..n /\ i \in 1..(n + 1) /\ i + 1 \in 1..(n + 1)
                        BY <3>4, <5>2 DEF n
                    <6>2. Leads(cs[i], wire[i], cs[i + 1])
                        BY <4>1, <6>1 DEF Chain, n
                    <6> QED BY <3>5, <4>3, <6>1, <6>2 DEF n
                <5> QED BY <5>1, <5>2
            <4>5. \/ Rest(todo, book, top, bs[1])
                  \/ todo = << >> /\ wire' # << >> /\ Whole(wire'[1], bs[2])
                <5>1. n \in Nat /\ bs[1] = cs[1]
                    BY <3>4, <4>3 DEF n
                <5>2. CASE Rest(todo, book, top, cs[1])
                    BY <5>1, <5>2
                <5>3. CASE todo = << >> /\ wire # << >> /\ Whole(wire[1], cs[2])
                    <6>1. 1 \in 1..n /\ 2 \in 1..(n + 1)
                        BY <3>4, <5>3, EmptySeq DEF n
                    <6> QED BY <3>5, <4>3, <5>3, <6>1 DEF n
                <5> QED BY <4>1, <5>2, <5>3 DEF Chain
            <4>6. Chain(bs)'
                <5>1. n + 2 = Len(wire') + 1 /\ n + 1 = Len(wire')
                    BY <3>4, <3>5 DEF n
                <5> QED BY <1>2, <2>5, <4>3, <4>4, <4>5, <5>1, ChainNext
            <4> QED BY <1>2, <1>3, <4>3, <4>6 DEF SyncInv, Led
        <3> QED BY <3>6, <3>7
    <2> QED BY <2>6, <2>7
<1> QED BY <1>4, <1>5

LEMMA ConnectSync ==
    ASSUME TypeOK, SyncInv, OneAsset, Connect
    PROVE  SyncInv'
<1>0. LinkOK /\ ExchangeOK
    BY TypeParts
<1>1. UNCHANGED <<venue, exchange, todo, book, top>> /\ todo = << >> /\ spoiled' = FALSE
    BY DEF Connect, localVars, Dial
<1>2. Subscribed = {Yes} /\ Yes \in Assets
    BY <1>0, SubscribedFacts
<1>7. PICK b : b = exchange[Yes]
    OBVIOUS
<1>3. PICK order \in SetToSeqs({Yes}) :
          \E message \in [DOMAIN order -> UNION {BookParts(a, exchange[a], TRUE) : a \in {Yes}}] :
              wire' = <<message>>
    BY <1>2 DEF Connect
<1>4. PICK message \in [DOMAIN order -> UNION {BookParts(a, exchange[a], TRUE) : a \in {Yes}}] :
              wire' = <<message>>
    BY <1>3
<1>5. DOMAIN order = 1..1
    <2>1. IsFiniteSet({Yes}) /\ Cardinality({Yes}) = 1
        BY FS_Singleton
    <2> QED BY <2>1, OrderFacts
<1>6. message \in [1..1 -> BookParts(Yes, b, TRUE)]
    BY <1>4, <1>5, <1>7
<1>8. b \in Uncrossed(venue)
    BY <1>2, <1>7 DEF SyncInv, ExchangeBooks
<1>14. exchange'[Yes] = b
    BY <1>1, <1>7
<1>16. Whole(message, b)
    <2>1. 1 \in 1..1
        OBVIOUS
    <2>2. message[1] \in BookParts(Yes, b, TRUE)
        BY <1>6, <2>1
    <2>3. Len(message) = 1
        <3> DEFINE S == BookParts(Yes, b, TRUE)
        <3> HIDE DEF S
        <3>1. message \in [1..1 -> S]
            BY <1>6 DEF S
        <3> QED BY <3>1, LenProperties
    <2> QED BY <1>2, <2>2, <2>3 DEF Whole
<1> DEFINE bs == <<b, b>>
<1>9. bs \in Seq(Uncrossed(venue)) /\ Len(bs) = 2 /\ bs[1] = b /\ bs[2] = b
    BY <1>8, Twice
<1>10. Len(wire') = 1 /\ wire'[1] = message /\ wire' # << >>
    BY <1>4
<1>11. Leads(b, message, b)
    BY <1>16 DEF Leads
<1> HIDE DEF bs
<1>12. Chain(bs)'
    <2>1. Len(bs) = Len(wire') + 1 /\ bs[Len(wire') + 1] = exchange'[Yes]
        BY <1>9, <1>10, <1>14
    <2>2. ASSUME NEW i \in 1..Len(wire')
          PROVE  Leads(bs[i], wire'[i], bs[i + 1])
        <3>1. i = 1
            BY <1>10
        <3> QED BY <1>9, <1>10, <1>11, <3>1
    <2> QED BY <1>1, <1>9, <1>10, <1>16, <2>1, <2>2, ChainNext
<1>13. ExchangeBooks'
    BY <1>1 DEF SyncInv, ExchangeBooks
<1>15. bs \in Seq(Uncrossed(venue))'
    BY <1>1, <1>9
<1> QED BY <1>12, <1>13, <1>15 DEF SyncInv, Led

LEMMA ReadSync ==
    ASSUME TypeOK, SyncInv, Read
    PROVE  SyncInv'
<1>0. LinkOK /\ WireOK
    BY TypeParts
<1>1. UNCHANGED <<venue, exchange, link, spoiled, book, top>>
    BY DEF Read
<1>2. todo = << >> /\ wire # << >> /\ todo' = Head(wire) /\ wire' = Tail(wire)
    BY DEF Read, ReadMessage
<1>3. ExchangeBooks'
    BY <1>1 DEF SyncInv, ExchangeBooks
<1>4. CASE spoiled
    BY <1>1, <1>3, <1>4 DEF SyncInv, Led
<1>5. CASE ~spoiled
    <2> DEFINE n == Len(wire)
    <2>1. PICK cs \in Seq(Uncrossed(venue)) : Chain(cs)
        BY <1>2, <1>5 DEF SyncInv, Led, Idle
    <2>2. wire \in Seq(Seq(Parts)) /\ n \in Nat \ {0}
        BY <1>0, <1>2, EmptySeq DEF WireOK
    <2>3. Len(wire') = n - 1 /\ todo' = wire[1] /\ \A i \in 1..(n - 1) : wire'[i] = wire[i + 1]
        BY <1>2, <2>2, HeadTailProperties
    <2> DEFINE bs == Tail(cs)
    <2>4. Len(cs) = n + 1 /\ cs # << >>
        BY <2>1, <2>2, EmptySeq DEF Chain
    <2>5. bs \in Seq(Uncrossed(venue)) /\ Len(bs) = n /\ \A i \in 1..n : bs[i] = cs[i + 1]
        BY <2>2, <2>4, HeadTailProperties
    <2> HIDE DEF bs, n
    <2>6. 1 \in 1..n /\ 1 \in 1..Len(cs) /\ 2 \in 1..Len(cs)
        BY <2>2, <2>4
    <2>7. Rest(todo', book, top, bs[1])
        <3>1. Leads(cs[1], wire[1], cs[2]) /\ bs[1] = cs[2]
            BY <2>1, <2>5, <2>6 DEF Chain, n
        <3>3. cs[1] \in LocalBooks /\ cs[2] \in LocalBooks
            BY <1>0, <2>6, ChainType
        <3>2. Whole(wire[1], cs[2]) \/ Mirrors(book, Sized(cs[1]))
            <4>1. CASE Rest(todo, book, top, cs[1])
                BY <1>0, <1>2, <3>3, <4>1, NothingLeft DEF Published
            <4> QED BY <2>1, <4>1 DEF Chain
        <3> QED BY <1>0, <2>3, <3>1, <3>2, <3>3, LeadsRest
    <2>8. ASSUME NEW i \in 1..(n - 1)
          PROVE  Leads(bs[i], wire'[i], bs[i + 1])
        <3>1. i \in 1..n /\ i + 1 \in 1..n
            BY <2>2
        <3>2. Leads(cs[i + 1], wire[i + 1], cs[i + 2])
            BY <2>1, <3>1 DEF Chain, n
        <3>3. bs[i] = cs[i + 1] /\ bs[i + 1] = cs[i + 2]
            <4>1. (i + 1) + 1 = i + 2
                BY <2>2
            <4> QED BY <2>5, <3>1, <4>1
        <3>4. wire'[i] = wire[i + 1]
            BY <2>3
        <3> QED BY <3>2, <3>3, <3>4
    <2>9. link = "up" => bs[n] = exchange[Yes]
        <3>1. n \in 1..n
            BY <2>2
        <3> QED BY <2>1, <2>5, <3>1 DEF Chain, n
    <2>10. Len(wire') + 1 = n
        BY <2>2, <2>3
    <2>11. Chain(bs)'
        BY <1>1, <2>2, <2>3, <2>5, <2>7, <2>8, <2>9, <2>10, ChainNext
    <2> QED BY <1>1, <1>3, <2>5, <2>11 DEF SyncInv, Led
<1> QED BY <1>4, <1>5

LEMMA HandleSync ==
    ASSUME TypeOK, SyncInv, Handle
    PROVE  SyncInv'
<1>0. LinkOK /\ WireOK /\ TodoOK /\ LocalOK
    BY TypeParts
<1>1. UNCHANGED <<venue, exchange, link, wire, spoiled>> /\ todo # << >>
    BY DEF Handle
<1> DEFINE done == HandlePart(Node, Head(todo))
<1>2. todo' = (IF done.ok THEN Tail(todo) ELSE << >>) /\ book' = done.book /\ top' = done.top
    BY DEF Handle, HandleNext
<1>3. ExchangeBooks'
    BY <1>1 DEF SyncInv, ExchangeBooks
<1>4. CASE spoiled
    BY <1>1, <1>3, <1>4 DEF SyncInv, Led
<1>5. CASE ~spoiled
    <2>1. PICK bs \in Seq(Uncrossed(venue)) : Chain(bs)
        BY <1>1, <1>5 DEF SyncInv, Led, Idle
    <2>2. Rest(todo, Node.book, Node.top, bs[1])
        BY <1>1, <2>1 DEF Chain, Node
    <2>3. bs[1] \in LocalBooks
        <3>1. 1 \in 1..Len(bs)
            BY <1>0, <2>1 DEF WireOK, Chain
        <3> QED BY <1>0, <3>1, ChainType
    <2>4. Node \in Results /\ Node.ok /\ todo \in Seq(Parts)
        BY <1>0 DEF Node, Results, LocalOK, TodoOK
    <2>5. Rest(IF done.ok THEN Tail(todo) ELSE << >>, done.book, done.top, bs[1])
        BY <1>0, <1>1, <2>2, <2>3, <2>4, PartLeads
    <2>6. Rest(todo', book', top', bs[1])
        BY <1>2, <2>5
    <2>7. Chain(bs)'
        BY <1>1, <2>1, <2>6, ChainNext DEF Chain
    <2> QED BY <1>1, <1>3, <2>7 DEF SyncInv, Led
<1> QED BY <1>4, <1>5

LEMMA LinkSync ==
    ASSUME TypeOK, SyncInv, Break \/ FallSilent \/ ReadDeadline
    PROVE  SyncInv'
<1>0. WireOK
    BY TypeParts
<1>1. UNCHANGED <<venue, exchange, spoiled, todo, book, top>>
    BY DEF Break, FallSilent, ReadDeadline, localVars
<1>2. ExchangeBooks'
    BY <1>1 DEF SyncInv, ExchangeBooks
<1>3. CASE spoiled
    BY <1>1, <1>2, <1>3 DEF SyncInv, Led
<1>4. CASE ~spoiled
    <2>1. CASE Idle
        BY <2>1, <1>1, <1>2 DEF Idle, Break, FallSilent, ReadDeadline, SyncInv, Led
    <2>2. CASE ~Idle
        <3>1. PICK bs \in Seq(Uncrossed(venue)) : Chain(bs)
            BY <1>4, <2>2 DEF SyncInv, Led
        <3>2. CASE FallSilent
            <4>1. wire' = wire /\ link' = "silent"
                BY <3>2 DEF FallSilent
            <4>2. Chain(bs)'
                BY <1>1, <3>1, <4>1, ChainNext DEF Chain
            <4> QED BY <1>1, <1>2, <4>2 DEF SyncInv, Led
        <3>3. CASE Break \/ ReadDeadline
            <4>1. wire' = << >> /\ link' = "down"
                BY <3>3 DEF Break, ReadDeadline
            <4>2. CASE todo = << >>
                BY <1>1, <1>2, <4>1, <4>2 DEF Idle, SyncInv, Led
            <4>3. CASE todo # << >>
                <5>1. PICK cs : cs = <<bs[1]>>
                    OBVIOUS
                <5>2. bs[1] \in Uncrossed(venue)
                    <6>1. 1 \in 1..Len(bs)
                        BY <1>0, <3>1 DEF WireOK, Chain
                    <6> QED BY <6>1
                <5>3. cs \in Seq(Uncrossed(venue)) /\ Len(cs) = 1 /\ cs[1] = bs[1]
                    BY <5>1, <5>2, Once
                <5>4. Rest(todo, book, top, bs[1])
                    BY <3>1, <4>3 DEF Chain
                <5>5. Len(wire') = 0
                    BY <4>1
                <5>6. \A i \in 1..Len(wire') : FALSE
                    BY <5>5
                <5>7. Chain(cs)'
                    BY <1>1, <4>1, <5>3, <5>4, <5>5, <5>6, ChainNext
                <5> QED BY <1>1, <1>2, <5>3, <5>7 DEF SyncInv, Led
            <4> QED BY <4>2, <4>3
        <3> QED BY <3>2, <3>3
    <2> QED BY <2>1, <2>2
<1> QED BY <1>3, <1>4

\* Nothing changes that the chain is about.
LEMMA StillSync ==
    ASSUME SyncInv, UNCHANGED <<venue, exchange, link, wire, spoiled, todo, book, top>>
    PROVE  SyncInv'
<1>1. ExchangeBooks'
    BY DEF SyncInv, ExchangeBooks
<1>2. CASE spoiled
    BY <1>1, <1>2 DEF SyncInv, Led
<1>3. CASE Idle
    BY <1>1, <1>3 DEF SyncInv, Led, Idle
<1>4. CASE ~spoiled /\ ~Idle
    <2>1. PICK bs \in Seq(Uncrossed(venue)) : Chain(bs)
        BY <1>4 DEF SyncInv, Led
    <2>2. Chain(bs)'
        BY <2>1, ChainNext DEF Chain
    <2> QED BY <1>1, <2>2 DEF SyncInv, Led
<1> QED BY <1>2, <1>3, <1>4

LEMMA SameAssets ==
    ASSUME OneAsset, [Next]_vars
    PROVE  OneAsset'
<1>1. venue' = venue
    BY DEF Next, Change, Connect, Read, Handle, Age, Break, FallSilent, ReadDeadline, vars
<1> QED BY <1>1 DEF OneAsset

LEMMA NextSync == OneAsset /\ TypeOK /\ SyncInv /\ [Next]_vars => SyncInv'
<1> SUFFICES ASSUME OneAsset, TypeOK, SyncInv, [Next]_vars PROVE SyncInv'
    OBVIOUS
<1>1. ASSUME NEW a \in Assets, Change(a) PROVE SyncInv'
    BY <1>1, ChangeSync
<1>2. CASE Connect
    BY <1>2, ConnectSync
<1>3. CASE Read
    BY <1>3, ReadSync
<1>4. CASE Handle
    BY <1>4, HandleSync
<1>5. CASE Age
    BY <1>5, StillSync DEF Age
<1>6. CASE Break \/ FallSilent \/ ReadDeadline
    BY <1>6, LinkSync
<1>7. CASE UNCHANGED vars
    BY <1>7, StillSync DEF vars, localVars
<1> QED BY <1>1, <1>2, <1>3, <1>4, <1>5, <1>6, <1>7 DEF Next

-----------------------------------------------------------------------------
(* What the chain implies *)

\* Handling what is left of a message leads to its book.
LEMMA HandledLeads ==
    ASSUME LinkOK, NEW st \in Results, st.ok, NEW parts \in Seq(Parts), NEW b \in LocalBooks,
           Rest(parts, st.book, st.top, b)
    PROVE  LET done == Handled(st, parts) IN Published(done.book, done.top, b)
<1> DEFINE n == Len(parts)
           left(i) == SubSeq(parts, i + 1, n)
<1>0. n \in Nat
    OBVIOUS
<1>1. PICK after \in [0..n -> Results] :
          /\ after[0] = st
          /\ \A i \in 1..n : after[i] = Round(after[i - 1], parts[i])
          /\ Handled(st, parts) = after[n]
    BY PartByPart
<1> DEFINE T == {i \in 0..n : IF after[i].ok THEN Rest(left(i), after[i].book, after[i].top, b)
                                             ELSE Published(after[i].book, after[i].top, b)}
<1>2. 0 \in T
    <2>1. left(0) = parts
        BY SubSeqFull
    <2> HIDE DEF left
    <2> QED BY <1>0, <1>1, <2>1
<1>3. ASSUME NEW i \in 1..n, i - 1 \in T
      PROVE  i \in T
    <2> DEFINE was == after[i - 1]
               is == after[i]
    <2>1. i - 1 \in 0..n /\ i \in 0..n /\ was \in Results /\ parts[i] \in Parts
        BY <1>0
    <2>2. is = Round(was, parts[i])
        BY <1>1
    <2>3. CASE ~was.ok
        <3>1. is = was
            BY <2>2, <2>3 DEF Round
        <3> HIDE DEF left
        <3> QED BY <1>3, <2>1, <2>3, <3>1
    <2>4. CASE was.ok
        <3> DEFINE rest == left(i - 1)
        <3>1. rest \in Seq(Parts) /\ Len(rest) = n - i + 1
            <4>1. i - 1 + 1 = i /\ i \in Int /\ n \in Int /\ i <= n
                BY <1>0
            <4>2. \A j \in i..n : parts[j] \in Parts
                BY <1>0
            <4> QED BY <4>1, <4>2, SubSeqProperties
        <3>2. rest # << >>
            <4> HIDE DEF rest, n
            <4>1. Len(rest) # 0
                BY <1>0, <3>1
            <4> QED BY <4>1
        <3>3. Head(rest) = parts[i] /\ Tail(rest) = left(i)
            <4>1. i - 1 + 1 = i /\ i \in 1..Len(parts) /\ n \in i..Len(parts)
                BY <1>0
            <4> QED BY <4>1, HeadTailOfSubSeq
        <3> HIDE DEF left, rest, n
        <3>4. Rest(rest, was.book, was.top, b)
            BY <1>3, <2>4 DEF rest
        <3>5. is = HandlePart(was, Head(rest))
            BY <2>2, <2>4, <3>3 DEF Round
        <3>6. Rest(IF is.ok THEN left(i) ELSE << >>, is.book, is.top, b)
            BY <2>1, <2>4, <3>1, <3>2, <3>3, <3>4, <3>5, PartLeads
        <3>7. ~is.ok => Published(is.book, is.top, b)
            BY <3>6, NothingLeft
        <3> QED BY <2>1, <3>6, <3>7
    <2> QED BY <2>3, <2>4
<1>4. n \in T
    <2> HIDE DEF T, n
    <2>1. \A i \in 0..n : i \in T
        BY <1>0, <1>2, <1>3, Steps
    <2> QED BY <1>0, <2>1
<1>5. left(n) = << >>
    BY <1>0, SubSeqEmpty
<1> HIDE DEF left
<1>6. CASE after[n].ok
    <2>1. Rest(<< >>, after[n].book, after[n].top, b)
        BY <1>4, <1>5, <1>6
    <2> QED BY <1>1, <2>1, NothingLeft
<1>7. CASE ~after[n].ok
    BY <1>1, <1>4, <1>7
<1> QED BY <1>6, <1>7

\* The chain ends with the exchange's book.
LEMMA ChainEnds ==
    ASSUME TypeOK, SyncInv, link = "up", ~spoiled
    PROVE  Mirrors(Replayed.book, Sized(exchange[Yes]))
<1>0. LinkOK /\ WireOK /\ TodoOK /\ LocalOK
    BY TypeParts
<1> DEFINE n == Len(wire)
<1>1. PICK bs \in Seq(Uncrossed(venue)) : Chain(bs)
    BY DEF SyncInv, Led, Idle
<1>2. PICK after \in [0..n -> Results] :
          /\ after[0] = Handled(Node, todo)
          /\ \A i \in 1..n : after[i] = Handled(Ready(after[i - 1]), wire[i])
          /\ Replayed = after[n]
    BY <1>0, MessageByMessage
<1>3. n \in Nat /\ \A i \in 1..n : wire[i] \in Seq(Parts)
    BY <1>0 DEF WireOK
<1>4. \A i \in 1..(n + 1) : bs[i] \in LocalBooks
    BY <1>0, <1>1, ChainType DEF Chain
<1> DEFINE T == {i \in 0..n : \/ Published(after[i].book, after[i].top, bs[i + 1])
                              \/ i = 0 /\ wire # << >> /\ Whole(wire[1], bs[2])}
<1>5. 0 \in T
    <2>1. CASE Rest(todo, book, top, bs[1])
        <3>1. Node \in Results /\ Node.ok /\ Node.book = book /\ Node.top = top /\ todo \in Seq(Parts)
            BY <1>0 DEF Node, Results, LocalOK, TodoOK
        <3>2. bs[1] \in LocalBooks
            BY <1>3, <1>4
        <3>3. Published(after[0].book, after[0].top, bs[1])
            BY <1>0, <1>2, <2>1, <3>1, <3>2, HandledLeads
        <3> QED BY <1>3, <3>3
    <2>2. CASE wire # << >> /\ Whole(wire[1], bs[2])
        BY <1>3, <2>2
    <2> QED BY <1>1, <2>1, <2>2 DEF Chain
<1>6. ASSUME NEW i \in 1..n, i - 1 \in T
      PROVE  i \in T
    <2> DEFINE was == Ready(after[i - 1])
    <2>1. /\ i - 1 \in 0..n /\ i \in 0..n /\ i - 1 + 1 = i /\ i \in 1..(n + 1) /\ i + 1 \in 1..(n + 1)
          /\ (i - 1 = 0 => i = 1 /\ i + 1 = 2)
        BY <1>3
    <2>2. after[i - 1] \in Results
        BY <2>1
    <2>3. was \in Results /\ was.ok /\ was.book = after[i - 1].book /\ was.top = after[i - 1].top
        BY <2>2 DEF Ready, Results
    <2>4. Leads(bs[i], wire[i], bs[i + 1])
        BY <1>1 DEF Chain
    <2>5. bs[i] \in LocalBooks /\ bs[i + 1] \in LocalBooks
        BY <1>4, <2>1
    <2>6. Whole(wire[i], bs[i + 1]) \/ Mirrors(was.book, Sized(bs[i]))
        <3>1. \/ Published(after[i - 1].book, after[i - 1].top, bs[i])
              \/ i - 1 = 0 /\ Whole(wire[1], bs[2])
            BY <1>6, <2>1
        <3> HIDE DEF was, n
        <3>2. CASE Published(after[i - 1].book, after[i - 1].top, bs[i])
            BY <2>3, <3>2 DEF Published
        <3>3. CASE i - 1 = 0 /\ Whole(wire[1], bs[2])
            BY <2>1, <3>3
        <3> QED BY <3>1, <3>2, <3>3
    <2> HIDE DEF was
    <2>7. Rest(wire[i], was.book, was.top, bs[i + 1])
        BY <1>0, <2>4, <2>5, <2>6, LeadsRest
    <2>8. after[i] = Handled(was, wire[i])
        BY <1>2 DEF was
    <2>9. Published(after[i].book, after[i].top, bs[i + 1])
        BY <1>0, <1>3, <2>3, <2>5, <2>7, <2>8, HandledLeads
    <2> QED BY <2>1, <2>9
<1>7. n \in T
    <2> HIDE DEF T, n
    <2>1. \A i \in 0..n : i \in T
        BY <1>3, <1>5, <1>6, Steps
    <2> QED BY <1>3, <2>1
<1>8. ~(n = 0 /\ wire # << >>)
    BY <1>0, EmptySeq DEF WireOK
<1>9. bs[n + 1] = exchange[Yes]
    BY <1>1 DEF Chain
<1> QED BY <1>2, <1>7, <1>8, <1>9 DEF Published

LEMMA MirrorFacts ==
    ASSUME LinkOK, NEW local \in LocalBooks, NEW b \in LocalBooks, Mirrors(local, b), NEW side \in Sides
    PROVE  /\ \A p \in Listed(b, side) : Outcome(side, p) \in Listed(local, side)
           /\ \A x \in Listed(local, side) :
                 \E p \in Listed(b, side) : Outcome(side, p) = x /\ local[side][x] = b[side][p]
<1> DEFINE there(x) == {q \in Listed(b, side) : Outcome(side, q) = x}
<1>1. \A x \in Prices : IF there(x) = {} THEN local[side][x] = 0
                                       ELSE local[side][x] \in {b[side][q] : q \in there(x)}
    BY DEF Mirrors, MirrorsAt
<1>2. ASSUME NEW p \in Listed(b, side)
      PROVE  Outcome(side, p) \in Listed(local, side)
    <2>1. p \in Prices /\ Outcome(side, p) \in Prices
        BY ListedFacts, OutcomeFacts
    <2>2. p \in there(Outcome(side, p))
        OBVIOUS
    <2>3. PICK q \in Listed(b, side) : local[side][Outcome(side, p)] = b[side][q]
        BY <1>1, <2>1, <2>2
    <2>4. b[side][q] # 0
        BY ListedFacts
    <2> QED BY <2>1, <2>3, <2>4, ListedFacts
<1>3. ASSUME NEW x \in Listed(local, side)
      PROVE  \E p \in Listed(b, side) : Outcome(side, p) = x /\ local[side][x] = b[side][p]
    <2>1. x \in Prices /\ local[side][x] # 0
        BY ListedFacts
    <2> QED BY <1>1, <2>1
<1> QED BY <1>2, <1>3

\* A top of a book with orders is a record.
LEMMA TopFacts ==
    ASSUME NEW b \in LocalBooks
    PROVE  TopOfBook(b) # NoTop <=> \E side \in Sides : Listed(b, side) # {}
<1>1. \A side \in Sides : Best(b, side) \in Prices /\ b[side][Best(b, side)] \in Nat
    BY BestFacts, ListedFacts
<1> DEFINE t == [side \in Sides |-> [price |-> Best(b, side), qty |-> b[side][Best(b, side)]]]
<1>2. t \in [Sides -> [price : Prices, qty : Nat]]
    BY <1>1
<1>3. t # NoTop
    BY <1>2, SpecialAssumption
<1> HIDE DEF t
<1>4. TopOfBook(b) = IF \A side \in Sides : Listed(b, side) = {} THEN NoTop ELSE t
    BY DEF TopOfBook, t
<1> QED BY <1>3, <1>4

\* The top of a mirror is the best of each side.
LEMMA TopOfMirror ==
    ASSUME LinkOK, NEW local \in LocalBooks, NEW b \in LocalBooks, Mirrors(local, b),
           TopOfBook(b) # NoTop
    PROVE  /\ TopOfBook(local) # NoTop
           /\ BestOf(TopOfBook(local), b)
<1> DEFINE t == TopOfBook(local)
<1>1. \E side \in Sides : Listed(local, side) # {}
    <2>1. PICK side \in Sides : Listed(b, side) # {}
        BY TopFacts
    <2> QED BY <2>1, MirrorFacts
<1>2. t # NoTop
    BY <1>1, TopFacts
<1>3. t = [side \in Sides |-> [price |-> Best(local, side), qty |-> local[side][Best(local, side)]]]
    BY <1>1 DEF TopOfBook
<1> HIDE DEF t
<1>4. ASSUME NEW side \in Sides
      PROVE  LET better(p, q) == IF side = "bid" THEN p >= q ELSE p <= q
             IN IF Listed(b, side) = {} THEN t[side] = [price |-> 0, qty |-> 0]
                ELSE \E p \in Listed(b, side) :
                        /\ \A q \in Listed(b, side) : better(Outcome(side, p), Outcome(side, q))
                        /\ t[side] = [price |-> Outcome(side, p), qty |-> b[side][p]]
    <2> DEFINE x == Best(local, side)
    <2>1. t[side] = [price |-> x, qty |-> local[side][x]] /\ x \in Prices
        BY <1>3, BestFacts
    <2>2. CASE Listed(b, side) = {}
        <3>1. Listed(local, side) = {}
            BY <2>2, MirrorFacts
        <3>2. x = 0 /\ local[side][0] = 0
            BY <3>1, PriceFacts, ListedFacts DEF Best
        <3> QED BY <2>1, <2>2, <3>2
    <2>3. CASE Listed(b, side) # {}
        <3>1. Listed(local, side) # {}
            BY <2>3, MirrorFacts
        <3>2. x \in Listed(local, side) /\ \A y \in Listed(local, side) : ~Better(side, y, x)
            BY <3>1, BestFacts
        <3> HIDE DEF x
        <3>3. PICK p \in Listed(b, side) : Outcome(side, p) = x /\ local[side][x] = b[side][p]
            BY <3>2, MirrorFacts
        <3>4. ASSUME NEW q \in Listed(b, side)
              PROVE  IF side = "bid" THEN x >= Outcome(side, q) ELSE x <= Outcome(side, q)
            <4> DEFINE y == Outcome(side, q)
            <4>1. y \in Listed(local, side) /\ y \in Nat /\ x \in Nat
                BY <2>1, MirrorFacts, ListedFacts, PriceFacts
            <4>2. ~Better(side, y, x)
                BY <3>2, <4>1
            <4> HIDE DEF y
            <4> QED BY <4>1, <4>2 DEF Better, y
        <3> QED BY <2>1, <2>3, <3>3, <3>4
    <2> QED BY <2>2, <2>3
<1> QED BY <1>2, <1>4 DEF t, BestOf

LEMMA BestIsPublished == TypeOK /\ SyncInv => PublishesBest
<1> DEFINE there == Sized(exchange[Yes])
<1> SUFFICES ASSUME TypeOK, SyncInv,
                    link = "up", ~spoiled, wire = << >>, todo = << >>, TopOfBook(there) # NoTop
             PROVE  top # NoTop /\ BestOf(top, there)
    BY DEF PublishesBest
<1>0. LinkOK /\ ExchangeOK /\ LocalOK
    BY TypeParts
<1>1. PICK bs \in Seq(Uncrossed(venue)) : Chain(bs)
    BY DEF SyncInv, Led, Idle
<1>2. Len(wire) = 0 /\ Len(bs) = 1 /\ bs[1] = exchange[Yes]
    BY <1>1 DEF Chain
<1>3. bs[1] \in LocalBooks /\ book \in LocalBooks
    BY <1>0, <1>2, ChainType DEF LocalOK
<1>4. Rest(<< >>, book, top, bs[1])
    BY <1>1 DEF Chain
<1>5. Published(book, top, bs[1])
    BY <1>0, <1>3, <1>4, NothingLeft
<1>6. there \in LocalBooks
    BY <1>2, <1>3, SizedFacts
<1> HIDE DEF there
<1>7. Mirrors(book, there) /\ (TopOfBook(book) # NoTop => top = TopOfBook(book))
    BY <1>2, <1>5 DEF Published, there
<1> QED BY <1>0, <1>3, <1>6, <1>7, TopOfMirror

\* Books that agree at the prices that are p in bps are mirrored alike there.
LEMMA MirrorSame ==
    ASSUME NEW local, NEW b \in LocalBooks, NEW c \in LocalBooks, NEW side \in Sides, NEW p,
           \A q \in Prices : Outcome(side, q) = p => b[side][q] = c[side][q]
    PROVE  MirrorsAt(local, Sized(b), side, p) => MirrorsAt(local, Sized(c), side, p)
<1> DEFINE x == Sized(b)
           y == Sized(c)
<1>0. x \in LocalBooks /\ y \in LocalBooks
    BY SizedFacts
<1>1. \A q \in Prices : Outcome(side, q) = p => x[side][q] = y[side][q]
    BY SizedFacts
<1> HIDE DEF x, y
<1>2. {q \in Listed(x, side) : Outcome(side, q) = p} = {q \in Listed(y, side) : Outcome(side, q) = p}
    <2>1. \A q : q \in Listed(x, side) <=> q \in Prices /\ x[side][q] # 0
        BY <1>0, ListedFacts
    <2>2. \A q : q \in Listed(y, side) <=> q \in Prices /\ y[side][q] # 0
        BY <1>0, ListedFacts
    <2> QED BY <1>1, <2>1, <2>2
<1> DEFINE there == {q \in Listed(y, side) : Outcome(side, q) = p}
<1>3. {x[side][q] : q \in there} = {y[side][q] : q \in there}
    <2>1. \A q \in there : q \in Prices /\ Outcome(side, q) = p
        BY DEF Listed
    <2>2. \A q \in there : x[side][q] = y[side][q]
        BY <1>1, <2>1
    <2> HIDE DEF there
    <2> QED BY <2>2
<1>4. MirrorsAt(local, x, side, p) => MirrorsAt(local, y, side, p)
    BY <1>2, <1>3 DEF MirrorsAt
<1> QED BY <1>4 DEF x, y

\* A message of changes is no book.
LEMMA NotWhole ==
    ASSUME NEW m \in Seq(Parts), \A i \in DOMAIN m : m[i].kind = "change", NEW b
    PROVE  ~Whole(m, b)
<1> SUFFICES ASSUME Whole(m, b) PROVE FALSE
    OBVIOUS
<1>1. PICK a \in Assets : m[1] \in BookParts(a, b, TRUE)
    BY DEF Whole
<1>2. m[1].kind = "book"
    BY <1>1 DEF BookParts
<1>3. 1 \in DOMAIN m
    BY DEF Whole
<1> QED BY <1>2, <1>3

\* If no change that is left is at p in bps, those of its levels came before.
LEMMA NotLeft ==
    ASSUME LinkOK, NEW old, NEW b, NEW order, NEW k \in Nat, Len(order) \in Nat,
           NEW side \in Sides, NEW p \in Prices, NEW q \in Prices, Outcome(side, q) = p,
           LET m == ChangesFrom(old, b, order, k)
           IN \A i \in DOMAIN m : m[i].change.side = side => PriceBps(side, m[i].change.price) # p
    PROVE  \A j \in 1..Len(order) : order[j] = <<side, q>> => j <= k
<1> SUFFICES ASSUME NEW j \in 1..Len(order), order[j] = <<side, q>>, ~(j <= k) PROVE FALSE
    OBVIOUS
<1> DEFINE m == ChangesFrom(old, b, order, k)
           i == j - k
<1>1. i \in 1..(Len(order) - k) /\ k + i = j
    OBVIOUS
<1>2. /\ DOMAIN m = 1..(Len(order) - k)
      /\ m[i] = ChangePart(ChangeOf(old, b, order[k + i]), k + i = Len(order))
    BY <1>1 DEF ChangesFrom
<1>3. m[i].change = ChangeOf(old, b, <<side, q>>)
    <2>1. m[i].change = ChangeOf(old, b, order[k + i])
        BY <1>2 DEF ChangePart
    <2>2. order[k + i] = <<side, q>>
        BY <1>1
    <2> QED BY <2>1, <2>2
<1>4. m[i].change.side = side /\ m[i].change.price = q
    BY <1>3 DEF ChangeOf
<1>5. PriceBps(side, q) = p
    BY OutcomeFacts
<1> QED BY <1>1, <1>2, <1>4, <1>5

\* A level of which no change is left did not move, or has moved already.
LEMMA MixSettled ==
    ASSUME NEW old \in LocalBooks, NEW b \in LocalBooks, NEW order \in SetToSeqs(Moved(old, b)),
           NEW k \in Nat, NEW side \in Sides, NEW q \in Prices,
           \A j \in 1..Len(order) : order[j] = <<side, q>> => j <= k
    PROVE  /\ Mix(old, b, order, k)[side][q] = b[side][q]
           /\ k = 0 => old[side][q] = b[side][q]
<1>1. CASE <<side, q>> \in Moved(old, b)
    <2>1. IsFiniteSet(Moved(old, b))
        BY MovedFacts
    <2>2. Len(order) \in Nat /\ \A x \in Moved(old, b) : \E i \in 1..Len(order) : order[i] = x
        BY <2>1, OrderFacts
    <2>3. PICK j \in 1..Len(order) : order[j] = <<side, q>>
        BY <1>1, <2>2
    <2>4. j \in 1..k
        BY <2>2, <2>3
    <2> QED BY <2>3, <2>4 DEF Mix
<1>2. CASE <<side, q>> \notin Moved(old, b)
    <2>1. b[side][q] = old[side][q]
        BY <1>2 DEF Moved
    <2> QED BY <2>1 DEF Mix
<1> QED BY <1>1, <1>2

\* What no message touches is the exchange's already.
LEMMA LevelsSettled == TypeOK /\ SyncInv => SettledLevels
<1> SUFFICES ASSUME TypeOK, SyncInv, link = "up", ~spoiled,
                    NEW side \in Sides, NEW p \in Prices, Settled(side, p)
             PROVE  MirrorsAt(book, Sized(exchange[Yes]), side, p)
    BY DEF SettledLevels
<1> DEFINE n == Len(wire)
           touches(m) == \E i \in DOMAIN m :
                            m[i].change.side = side /\ PriceBps(side, m[i].change.price) = p
<1>0. LinkOK /\ WireOK /\ TodoOK
    BY TypeParts
<1>1. PICK bs \in Seq(Uncrossed(venue)) : Chain(bs)
    BY DEF SyncInv, Led, Idle
<1>2. n \in Nat /\ wire \in Seq(Seq(Parts)) /\ todo \in Seq(Parts) /\ Len(bs) = n + 1
    BY <1>0, <1>1 DEF WireOK, TodoOK, Chain
<1>3. \A i \in 1..(n + 1) : bs[i] \in LocalBooks
    BY <1>0, <1>2, ChainType
<1>4. ASSUME NEW m \in {todo} \cup Range(wire)
      PROVE  (\A b : ~Whole(m, b)) /\ ~touches(m)
    <2>1. m \in Seq(Parts)
        BY <1>2 DEF Range
    <2>2. \A i \in DOMAIN m : m[i].kind = "change"
        BY DEF Settled
    <2>3. ~touches(m)
        BY DEF Settled
    <2> QED BY <2>1, <2>2, <2>3, NotWhole
<1>5. \A i \in 1..n : wire[i] \in {todo} \cup Range(wire)
    BY <1>2 DEF Range
<1> HIDE DEF n
<1>6. ASSUME NEW i \in 1..n, NEW q \in Prices, Outcome(side, q) = p
      PROVE  bs[i][side][q] = bs[i + 1][side][q]
    <2>1. i \in 1..(n + 1) /\ i + 1 \in 1..(n + 1)
        BY <1>2
    <2>2. Leads(bs[i], wire[i], bs[i + 1]) /\ ~Whole(wire[i], bs[i + 1]) /\ ~touches(wire[i])
        BY <1>1, <1>4, <1>5 DEF Chain, n
    <2>3. PICK order \in SetToSeqs(Moved(bs[i], bs[i + 1])) :
                wire[i] = ChangesFrom(bs[i], bs[i + 1], order, 0)
        BY <2>2 DEF Leads
    <2>4. bs[i] \in LocalBooks /\ bs[i + 1] \in LocalBooks
        BY <1>3, <2>1
    <2>5. Len(order) \in Nat
        BY <2>4, MovedFacts, OrderFacts
    <2>6. \A j \in 1..Len(order) : order[j] = <<side, q>> => j <= 0
        BY <1>0, <1>6, <2>2, <2>3, <2>5, NotLeft
    <2> QED BY <2>4, <2>6, MixSettled
<1> DEFINE T == {i \in 0..n : \A q \in Prices : Outcome(side, q) = p => bs[1][side][q] = bs[i + 1][side][q]}
<1>7. n \in T
    <2>1. 0 \in T
        BY <1>2
    <2>2. ASSUME NEW i \in 1..n, i - 1 \in T
          PROVE  i \in T
        <3>1. i \in 0..n /\ i - 1 + 1 = i
            BY <1>2
        <3> QED BY <1>6, <2>2, <3>1
    <2> HIDE DEF T
    <2>3. \A i \in 0..n : i \in T
        BY <1>2, <2>1, <2>2, Steps
    <2> QED BY <1>2, <2>3
<1>8. MirrorsAt(book, Sized(bs[1]), side, p)
    <2>0. bs[1] \in LocalBooks
        BY <1>2, <1>3
    <2>1. ~Whole(todo, bs[1]) /\ ~touches(todo) /\ (wire # << >> => ~Whole(wire[1], bs[2]))
        <3>1. wire # << >> => 1 \in 1..n
            BY <1>2, EmptySeq DEF n
        <3> QED BY <1>4, <1>5, <3>1
    <2>2. CASE Published(book, top, bs[1])
        BY <2>2 DEF Published, Mirrors
    <2>3. CASE ChangesLead(todo, book, bs[1])
        <3>1. PICK old \in LocalBooks : \E order \in SetToSeqs(Moved(old, bs[1])) :
                    \E k \in 0..(Len(order) - 1) :
                        /\ Mirrors(book, Sized(Mix(old, bs[1], order, k)))
                        /\ todo = ChangesFrom(old, bs[1], order, k)
            BY <2>3 DEF ChangesLead
        <3>2. PICK order \in SetToSeqs(Moved(old, bs[1])) :
                    \E k \in 0..(Len(order) - 1) :
                        /\ Mirrors(book, Sized(Mix(old, bs[1], order, k)))
                        /\ todo = ChangesFrom(old, bs[1], order, k)
            BY <3>1
        <3>3. PICK k \in 0..(Len(order) - 1) :
                    /\ Mirrors(book, Sized(Mix(old, bs[1], order, k)))
                    /\ todo = ChangesFrom(old, bs[1], order, k)
            BY <3>2
        <3>4. Len(order) \in Nat
            BY <2>0, MovedFacts, OrderFacts
        <3>5. k \in Nat /\ k \in 0..Len(order)
            BY <3>4
        <3> DEFINE mix == Mix(old, bs[1], order, k)
        <3>6. mix \in LocalBooks
            BY <2>0, <3>5, MixFacts
        <3>7. ASSUME NEW q \in Prices, Outcome(side, q) = p
              PROVE  mix[side][q] = bs[1][side][q]
            <4>1. \A j \in 1..Len(order) : order[j] = <<side, q>> => j <= k
                BY <1>0, <2>1, <3>3, <3>4, <3>5, <3>7, NotLeft
            <4> QED BY <2>0, <3>5, <4>1, MixSettled
        <3>8. MirrorsAt(book, Sized(mix), side, p)
            BY <3>3 DEF Mirrors
        <3> HIDE DEF mix
        <3> QED BY <2>0, <3>6, <3>7, <3>8, MirrorSame
    <2> QED BY <1>1, <2>1, <2>2, <2>3 DEF Chain, Rest
<1>9. exchange[Yes] = bs[n + 1] /\ n + 1 \in 1..(n + 1) /\ 1 \in 1..(n + 1)
    BY <1>1, <1>2 DEF Chain, n
<1> QED BY <1>3, <1>7, <1>8, <1>9, MirrorSame

\* A mirror of a book of the exchange has no crossed top.
LEMMA MirrorUncrossed ==
    ASSUME LinkOK, NEW local \in LocalBooks, NEW b \in Uncrossed(venue), Mirrors(local, Sized(b)),
           TopOfBook(local) # NoTop
    PROVE  LET t == TopOfBook(local)
           IN \/ \E side \in Sides : t[side].qty = 0
              \/ t.bid.price < t.ask.price
              \/ venue = "HIP4" /\ t.bid.price = t.ask.price
<1> DEFINE t == TopOfBook(local)
<1>0. b \in LocalBooks /\ Sized(b) \in LocalBooks /\ "bid" \in Sides /\ "ask" \in Sides
    BY BooksType, SizedFacts DEF Sides
<1>1. t = [side \in Sides |-> [price |-> Best(local, side), qty |-> local[side][Best(local, side)]]]
    BY DEF TopOfBook
<1> HIDE DEF t
<1>2. CASE \E side \in Sides : Listed(local, side) = {}
    <2>1. PICK side \in Sides : Listed(local, side) = {}
        BY <1>2
    <2>2. Best(local, side) = 0 /\ local[side][0] = 0
        BY <2>1, PriceFacts, ListedFacts DEF Best
    <2>3. t[side].qty = 0
        BY <1>1, <2>2
    <2> QED BY <2>3 DEF t
<1>3. CASE \A side \in Sides : Listed(local, side) # {}
    <2> DEFINE x == Best(local, "bid")
               y == Best(local, "ask")
    <2>1. x \in Listed(local, "bid") /\ y \in Listed(local, "ask")
        BY <1>0, <1>3, BestFacts
    <2>2. t.bid.price = x /\ t.ask.price = y
        BY <1>0, <1>1
    <2> HIDE DEF x, y
    <2>3. PICK p \in Listed(Sized(b), "bid") : Outcome("bid", p) = x
        BY <1>0, <2>1, MirrorFacts
    <2>4. PICK q \in Listed(Sized(b), "ask") : Outcome("ask", q) = y
        BY <1>0, <2>1, MirrorFacts
    <2> DEFINE bid == YesPrice(venue, "bid", p)
               ask == YesPrice(venue, "ask", q)
    <2>5. bid < ask
        BY <1>0, SizedFacts DEF Uncrossed
    <2>6. p \in Prices /\ q \in Prices
        BY <1>0, ListedFacts
    <2>7. bid \in Prices /\ ask \in Prices
        BY <2>6, PriceFacts DEF YesPrice
    <2>8. Outcome("bid", p) = (IF venue = "HIP4" THEN HyperliquidBps[bid] ELSE bid)
          /\ Outcome("ask", q) = (IF venue = "HIP4" THEN HyperliquidBps[ask] ELSE ask)
        BY DEF Outcome
    <2> HIDE DEF bid, ask
    <2>9. bid \in Nat /\ ask \in Nat /\ HyperliquidBps[bid] \in Nat /\ HyperliquidBps[ask] \in Nat
        BY <2>7, PriceFacts, FeedAssumption
    <2>10. HyperliquidBps[bid] <= HyperliquidBps[ask]
        BY <2>5, <2>7, <2>9, FeedAssumption
    <2>11. x < y \/ (venue = "HIP4" /\ x = y)
        BY <2>3, <2>4, <2>5, <2>8, <2>9, <2>10
    <2> QED BY <2>2, <2>11 DEF t
<1> QED BY <1>2, <1>3

LEMMA StepUncrossed ==
    ASSUME TypeOK, SyncInv, [Next]_vars, top' # top, ~spoiled
    PROVE  \/ \E side \in Sides : top'[side].qty = 0
           \/ top'.bid.price < top'.ask.price
           \/ venue = "HIP4" /\ top'.bid.price = top'.ask.price
<1>0. LinkOK /\ WireOK /\ TodoOK /\ LocalOK
    BY TypeParts
<1>1. Handle
    BY DEF Next, Change, Connect, Read, Age, Break, FallSilent, ReadDeadline, vars, localVars
<1>2. todo # << >>
    BY <1>1 DEF Handle
<1> DEFINE done == HandlePart(Node, Head(todo))
<1>3. top' = done.top
    BY <1>1 DEF Handle
<1>4. PICK bs \in Seq(Uncrossed(venue)) : Chain(bs)
    BY <1>2 DEF SyncInv, Led, Idle
<1>5. bs[1] \in Uncrossed(venue) /\ bs[1] \in LocalBooks
    <2>1. 1 \in 1..Len(bs)
        BY <1>0, <1>4 DEF WireOK, Chain
    <2> QED BY <1>0, <2>1, ChainType
<1>6. Rest(todo, Node.book, Node.top, bs[1])
    BY <1>2, <1>4 DEF Chain, Node
<1>7. Node \in Results /\ Node.ok /\ Node.top = top /\ todo \in Seq(Parts)
    BY <1>0 DEF Node, Results, LocalOK, TodoOK
<1>8. Mirrors(done.book, Sized(bs[1])) /\ done.top = TopOfBook(done.book) /\ done.top # NoTop
    BY <1>0, <1>2, <1>3, <1>5, <1>6, <1>7, PartLeads
<1>9. done.book \in LocalBooks
    <2>1. Head(todo) \in Parts
        BY <1>2, <1>7, HeadTailProperties
    <2>2. done \in Results
        BY <1>0, <1>7, <2>1, PartType
    <2> QED BY <2>2 DEF Results
<1> HIDE DEF done
<1> QED BY <1>0, <1>3, <1>5, <1>8, <1>9, MirrorUncrossed

LEMMA SyncCorrect == Spec /\ OneAsset => [](TypeOK /\ OneAsset /\ SyncInv)
<1>1. Init /\ OneAsset => TypeOK /\ OneAsset /\ SyncInv
    BY InitType, InitSync
<1>2. TypeOK /\ OneAsset /\ SyncInv /\ [Next]_vars => (TypeOK /\ OneAsset /\ SyncInv)'
    BY NextType, SameAssets, NextSync
<1> QED BY <1>1, <1>2, PTL DEF Spec

-----------------------------------------------------------------------------
(* Theorems *)

\* The types of the feeds' state (hip4, kalshi and polymarket ws_feed.go): the
\* local book has no negative quantity and no price outside 0..10000 bps
\* whatever is sent, in whatever order connections and messages fail.
THEOREM TypeCorrect == Spec => []TypeOK
<1>1. Init => TypeOK
    BY InitType
<1>2. TypeOK /\ [Next]_vars => TypeOK'
    BY NextType
<1> QED BY <1>1, <1>2, PTL DEF Spec

\* In the middle of a message too, GetSnapshot answers with the best levels of
\* the local book in order, as many as it is asked for or there are
\* (Book.Snapshot, sortedBids and sortedAsks).
THEOREM SnapshotsOrdered == Spec => []SnapshotOrdered
<1>1. TypeOK => SnapshotOrdered
    BY SnapshotFacts, TypeParts DEF LocalOK
<1> QED BY <1>1, TypeCorrect, PTL

\* What is left to handle leads to the exchange's book in units of quantity
\* (handleL2Book, handleSnapshot and handleDelta, handleBook and
\* handlePriceChange, with ApplySnapshot, SetLevel and ApplyQuantityDelta): as
\* long as the connection is up and every message could be parsed, no level of
\* at least half a unit is lost, none is doubled or left behind when less is
\* left of it, however the exchange orders the changes of a message and
\* whatever its precision of sizes.
THEOREM BookInSync == Spec /\ OneAsset => []InSync
<1>1. TypeOK /\ SyncInv => InSync
    BY ChainEnds DEF InSync
<1> QED BY <1>1, SyncCorrect, PTL

\* Between the changes of one message, where the handlers of GetSnapshot and
\* Health may take the book's lock, a level that is not the exchange's is one of
\* which a change is still to be handled (handlePriceChange, which locks the book
\* for one change at a time).
THEOREM LevelsInSync == Spec /\ OneAsset => []SettledLevels
<1> QED BY LevelsSettled, SyncCorrect, PTL

\* With nothing left to handle, the top last published (publishTop) is the best
\* bid and the best ask of the exchange of at least half a unit: the conversions
\* drop a level whose size rounds to 0, though it be the best.
THEOREM BestPublished == Spec /\ OneAsset => []PublishesBest
<1> QED BY BestIsPublished, SyncCorrect, PTL

\* A feed publishes no crossed top, though the changes of one message may take
\* its book through crossed states (handlePriceChange publishes once at the
\* end), and though Kalshi's asks are bids for NO.
THEOREM NoCrossedTop == Spec /\ OneAsset => TopUncrossed
<1>1. TypeOK /\ SyncInv /\ [Next]_vars =>
        [top' # top /\ ~spoiled =>
            \/ \E side \in Sides : top'[side].qty = 0
            \/ top'.bid.price < top'.ask.price
            \/ venue = "HIP4" /\ top'.bid.price = top'.ask.price]_vars
    BY StepUncrossed
<1> QED BY <1>1, SyncCorrect, PTL DEF Spec, TopUncrossed

=============================================================================

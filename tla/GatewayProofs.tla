--------------------------- MODULE GatewayProofs ---------------------------
(***************************************************************************)
(* How old a quote can be that the router uses, for every set of venues,   *)
(* every staleness limit and every capacity: fresh when its book was       *)
(* built, so no older than the limit and the age of the book together, and *)
(* what the aggregator's clock is behind the venue node's.                 *)
(*                                                                         *)
(* The inductive invariant says of every book, on its way or cached, that  *)
(* a quote it does not mark stale was within the limit when the book was   *)
(* built: it has aged with the book since.  StalenessBounded itself is not *)
(* inductive, as it says nothing of the books the router will be sent.     *)
(***************************************************************************)
EXTENDS Gateway, QuotesFacts, SequenceTheorems

-----------------------------------------------------------------------------
(* Building a book *)

\* The age at which a venue's quotes become stale.
Limit(v) == QuoteStaleAfter - Skew[v]

LEMMA LimitFacts ==
    ASSUME NEW v \in Venues, NEW age \in Int
    PROVE  /\ Limit(v) \in Int
           /\ Measured(v, age) > QuoteStaleAfter <=> age > Limit(v)
<1>1. Skew[v] \in Int /\ QuoteStaleAfter \in Int
    BY QuotesAssumption
<1> QED BY <1>1 DEF Limit, Measured

\* A quote's mark is right when its book is built: a quote not marked stale
\* is at most `since` older than the limit, the time since the book was built,
\* and there is such a quote only if the limit is not below 0.
Marked(q, since) ==
    /\ q \in Quoted
    /\ ~q.stale => 0 <= Limit(q.venue) /\ q.age <= Limit(q.venue) + since

StoreOK(t) == TopsOK(t) /\ \A v \in DOMAIN t : t[v].age \in Ages

LEMMA QuotesMarked ==
    ASSUME NEW t, StoreOK(t)
    PROVE  /\ \A q \in BidQuotes(t) : Marked(q, 0)
           /\ \A q \in AskQuotes(t) : Marked(q, 0)
<1>1. ASSUME NEW q, q \in BidQuotes(t) \/ q \in AskQuotes(t)
      PROVE  Marked(q, 0)
    <2>1. q \in QuoteRecords /\ q.stale = TooOld(q)
        BY <1>1, QuotesFacts DEF StoreOK, Quoting
    <2>2. q.age \in Ages
        BY <1>1 DEF BidQuotes, AskQuotes, Quote, StoreOK
    <2> DEFINE n == Limit(q.venue)
    <2>3. q.age \in Int /\ q.venue \in Venues /\ n \in Int
        BY <2>1, LimitFacts DEF QuoteRecords
    <2>4. ~q.stale => ~(q.age > n)
        <3>1. ~q.stale => ~(Measured(q.venue, q.age) > QuoteStaleAfter)
            BY <2>1, Zenon DEF TooOld
        <3> QED BY <2>3, <3>1, LimitFacts
    <2>5. q.age >= 0
        BY <2>2 DEF Ages
    <2> HIDE DEF n
    <2>6. ~q.stale => 0 <= n /\ q.age <= n + 0
        BY <2>3, <2>4, <2>5
    <2> QED BY <2>1, <2>2, <2>6 DEF Marked, Quoted, n
<1> QED BY <1>1

SideMarked(s, since) ==
    s \in Seq(Quoted) /\ \A i \in DOMAIN s : Marked(s[i], since)

\* Every quote of a book that is not marked stale was fresh when it was built.
BookMarked(b) ==
    b \in BookRecords /\ SideMarked(b.bids, b.age) /\ SideMarked(b.asks, b.age)

LEMMA SeqsMarked ==
    ASSUME NEW S, Quoting(S), \A q \in S : Marked(q, 0), NEW s \in SetToSeqs(S)
    PROVE  SideMarked(s, 0)
<1>1. s \in Seq(S)
    BY SeqsOfSet DEF Quoting
<1>2. \A i \in DOMAIN s : s[i] \in S
    BY <1>1
<1>3. S \subseteq Quoted
    BY DEF Marked
<1>4. s \in Seq(Quoted)
    BY <1>1, <1>3
<1> QED BY <1>2, <1>4 DEF SideMarked

\* A book is marked right when it is built.
LEMMA BuiltMarked ==
    ASSUME NEW t, StoreOK(t), NEW b \in Books(t)
    PROVE  BookMarked(b) /\ b.age = 0
<1>1. b \in [bids : SetToSeqs(BidQuotes(t)), asks : SetToSeqs(AskQuotes(t)), age : {0}]
    BY DEF Books
<1>2. b.bids \in SetToSeqs(BidQuotes(t)) /\ b.asks \in SetToSeqs(AskQuotes(t)) /\ b.age = 0
      /\ b = [bids |-> b.bids, asks |-> b.asks, age |-> b.age]
    BY <1>1
<1>3. SideMarked(b.bids, 0) /\ SideMarked(b.asks, 0)
    BY <1>2, QuotesMarked, QuotesFacts, SeqsMarked DEF StoreOK
<1>4. 0 \in Ages
    BY GatewayAssumption DEF Ages
<1>5. b \in BookRecords
    BY <1>2, <1>3, <1>4 DEF BookRecords, SideMarked
<1> QED BY <1>2, <1>3, <1>5 DEF BookMarked

-----------------------------------------------------------------------------
(* Time *)

\* Ages that grow together keep their distance, the bound on ages included.
LEMMA OlderFacts ==
    ASSUME NEW n \in Ages, NEW m \in Ages, NEW limit \in Int
    PROVE  /\ Older(n) \in Ages
           /\ 0 <= limit /\ n <= limit + m => Older(n) <= limit + Older(m)
<1>1. n \in Int /\ m \in Int /\ AgeCap \in Int
      /\ n >= 0 /\ m >= 0 /\ n <= AgeCap /\ m <= AgeCap
    BY GatewayAssumption DEF Ages
<1> QED BY <1>1 DEF Older, Ages

LEMMA AgedSide ==
    ASSUME NEW s, NEW m \in Ages, SideMarked(s, m)
    PROVE  SideMarked(AgedQuotes(s), Older(m))
<1> DEFINE a == AgedQuotes(s)
<1>1. s \in Seq(Quoted) /\ \A i \in DOMAIN s : Marked(s[i], m)
    BY DEF SideMarked
<1>2. DOMAIN a = DOMAIN s
    BY DEF AgedQuotes
<1>3. ASSUME NEW i \in DOMAIN s
      PROVE  Marked(a[i], Older(m))
    <2> DEFINE q == s[i]
    <2> DEFINE limit == Limit(q.venue)
    <2>1. q \in Quoted /\ (~q.stale => 0 <= limit /\ q.age <= limit + m)
        BY <1>1 DEF Marked
    <2>2. a[i] = [q EXCEPT !.age = Older(q.age)]
        BY DEF AgedQuotes
    <2> HIDE DEF q, a
    <2>3. q.age \in Ages /\ limit \in Int
        BY <2>1, LimitFacts DEF Quoted, QuoteRecords
    <2> HIDE DEF limit
    <2>4. Older(q.age) \in Ages
          /\ (0 <= limit /\ q.age <= limit + m => Older(q.age) <= limit + Older(m))
        BY <2>3, OlderFacts
    <2>5. /\ a[i] \in Quoted /\ a[i].stale = q.stale
          /\ a[i].age = Older(q.age) /\ a[i].venue = q.venue
        <3>1. Ages \subseteq Int
            BY GatewayAssumption DEF Ages
        <3> QED BY <2>1, <2>2, <2>4, <3>1 DEF Quoted, QuoteRecords
    <2>6. ~a[i].stale => 0 <= limit /\ a[i].age <= limit + Older(m)
        BY <2>1, <2>4, <2>5
    <2> QED BY <2>5, <2>6 DEF Marked, limit
<1>4. a \in Seq(Quoted)
    <2>1. \A i \in DOMAIN s : a[i] \in Quoted
        BY <1>3 DEF Marked
    <2>2. Len(s) \in Nat /\ DOMAIN s = 1..Len(s)
        BY <1>1
    <2>3. a = [i \in 1..Len(s) |-> a[i]]
        BY <2>2 DEF AgedQuotes
    <2> HIDE DEF a
    <2> QED BY <2>1, <2>2, <2>3
<1> QED BY <1>2, <1>3, <1>4 DEF SideMarked

LEMMA AgedBookMarked ==
    ASSUME NEW b, BookMarked(b)
    PROVE  BookMarked(AgedBook(b))
<1>1. b \in BookRecords /\ b.age \in Ages
    BY DEF BookMarked, BookRecords
<1>2. SideMarked(AgedQuotes(b.bids), Older(b.age)) /\ SideMarked(AgedQuotes(b.asks), Older(b.age))
    BY <1>1, AgedSide DEF BookMarked
<1>3. Older(b.age) \in Ages
    BY <1>1, OlderFacts
<1>4. AgedBook(b) \in BookRecords
    BY <1>2, <1>3 DEF AgedBook, BookRecords, SideMarked
<1> QED BY <1>2, <1>4 DEF BookMarked, AgedBook

-----------------------------------------------------------------------------
(* The invariant *)

PipeMarked(p) == p \in Seq(BookRecords) /\ \A i \in DOMAIN p : BookMarked(p[i])

IInv ==
    /\ StoreOK(tops)
    /\ connected \in BOOLEAN
    /\ PipeMarked(pipe)
    /\ book = NoBook \/ BookMarked(book)

LEMMA EmptyPipe == PipeMarked(<< >>)
    BY DEF PipeMarked

LEMMA AppendMarked ==
    ASSUME NEW p, PipeMarked(p), NEW b, BookMarked(b)
    PROVE  PipeMarked(Append(p, b))
<1>1. p \in Seq(BookRecords) /\ b \in BookRecords
    BY DEF PipeMarked, BookMarked
<1> DEFINE r == Append(p, b)
<1>2. /\ r \in Seq(BookRecords) /\ Len(p) \in Nat /\ Len(r) = Len(p) + 1
      /\ \A i \in 1..Len(p) : r[i] = p[i]
      /\ r[Len(p) + 1] = b
    BY <1>1, AppendProperties
<1> HIDE DEF r
<1>3. \A i \in 1..Len(p) : BookMarked(p[i])
    BY <1>1 DEF PipeMarked
<1>4. \A i \in DOMAIN r : i \in 1..Len(p) \/ i = Len(p) + 1
    BY <1>2
<1>5. \A i \in DOMAIN r : BookMarked(r[i])
    BY <1>2, <1>3, <1>4
<1>6. PipeMarked(r)
    BY <1>2, <1>5 DEF PipeMarked
<1> QED BY <1>6 DEF r

LEMMA InitInv == Init => IInv
<1> SUFFICES ASSUME Init PROVE IInv
    OBVIOUS
<1>1. tops = << >> /\ connected = FALSE /\ pipe = << >> /\ book = NoBook
    BY DEF Init
<1>2. StoreOK(tops)
    BY <1>1 DEF StoreOK, TopsOK
<1> QED BY <1>1, <1>2, EmptyPipe DEF IInv

LEMMA UpsertInv ==
    ASSUME IInv, NEW v \in Venues, UpsertOf(v)
    PROVE  IInv'
<1>1. PICK top \in Tops[v] : Upsert(v, top)
    BY DEF UpsertOf
<1>2. top \in TopRecords /\ top.age \in Ages
    BY <1>1, GatewayAssumption
<1> DEFINE t == [u \in DOMAIN tops \cup {v} |-> IF u = v THEN top ELSE tops[u]]
<1>3. tops' = t /\ connected' = connected /\ book' = book
    BY <1>1 DEF Upsert
<1>4. StoreOK(t)
    BY <1>2 DEF StoreOK, TopsOK, IInv
<1>5. PICK built \in Books(t) :
         pipe' = IF connected /\ Len(pipe) < PipeCap THEN Append(pipe, built) ELSE pipe
    BY <1>1, <1>3 DEF Upsert
<1> HIDE DEF t
<1>6. BookMarked(built)
    BY <1>4, <1>5, BuiltMarked
<1>7. PipeMarked(pipe) /\ PipeMarked(Append(pipe, built))
    BY <1>6, AppendMarked DEF IInv
<1>8. PipeMarked(pipe')
    BY <1>5, <1>7
<1> QED
    <2>1. StoreOK(tops')
        BY <1>3, <1>4
    <2>2. connected' \in BOOLEAN /\ (book' = NoBook \/ BookMarked(book'))
        BY <1>3 DEF IInv
    <2> QED BY <2>1, <2>2, <1>8 DEF IInv

LEMMA TickInv ==
    ASSUME IInv, Tick
    PROVE  IInv'
<1>1. StoreOK(tops')
    <2>1. ASSUME NEW v \in DOMAIN tops
          PROVE  /\ [tops[v] EXCEPT !.age = Older(@)] \in TopRecords
                 /\ [tops[v] EXCEPT !.age = Older(@)].age \in Ages
        <3> DEFINE top == tops[v]
        <3>1. top \in TopRecords /\ top.age \in Ages
            BY DEF IInv, StoreOK, TopsOK
        <3> HIDE DEF top
        <3>2. Older(top.age) \in Ages /\ Ages \subseteq Int
            BY <3>1, OlderFacts, GatewayAssumption DEF Ages
        <3>3. /\ [top EXCEPT !.age = Older(top.age)] \in TopRecords
              /\ [top EXCEPT !.age = Older(top.age)].age \in Ages
            BY <3>1, <3>2 DEF TopRecords
        <3> QED BY <3>3 DEF top
    <2>2. tops' = [v \in DOMAIN tops |-> [tops[v] EXCEPT !.age = Older(@)]]
        BY DEF Tick
    <2>3. DOMAIN tops \subseteq Venues
        BY DEF IInv, StoreOK, TopsOK
    <2> QED BY <2>1, <2>2, <2>3 DEF StoreOK, TopsOK
<1>2. PipeMarked(pipe')
    <2>1. pipe \in Seq(BookRecords) /\ \A i \in DOMAIN pipe : BookMarked(pipe[i])
        BY DEF IInv, PipeMarked
    <2>2. \A i \in DOMAIN pipe : BookMarked(AgedBook(pipe[i]))
        BY <2>1, AgedBookMarked
    <2>3. pipe' = [i \in DOMAIN pipe |-> AgedBook(pipe[i])]
        BY DEF Tick
    <2>4. Len(pipe) \in Nat /\ DOMAIN pipe = 1..Len(pipe)
        BY <2>1
    <2>5. \A i \in DOMAIN pipe : AgedBook(pipe[i]) \in BookRecords
        BY <2>2 DEF BookMarked
    <2>6. pipe' \in Seq(BookRecords)
        BY <2>3, <2>4, <2>5
    <2> QED BY <2>2, <2>3, <2>6 DEF PipeMarked
<1>3. book' = NoBook \/ BookMarked(book')
    <2>1. book' = IF book = NoBook THEN NoBook ELSE AgedBook(book)
        BY DEF Tick
    <2>2. book # NoBook => BookMarked(AgedBook(book))
        BY AgedBookMarked DEF IInv
    <2> QED BY <2>1, <2>2
<1>4. connected' \in BOOLEAN
    BY DEF IInv, Tick
<1> QED BY <1>1, <1>2, <1>3, <1>4 DEF IInv

LEMMA StepInv == IInv /\ [Next]_vars => IInv'
<1> SUFFICES ASSUME IInv, [Next]_vars PROVE IInv'
    OBVIOUS
<1>1. ASSUME NEW v \in Venues, UpsertOf(v) PROVE IInv'
    BY <1>1, UpsertInv
<1>2. CASE Connect
    <2>1. PICK initial \in Books(tops) : pipe' = <<initial>>
        BY <1>2 DEF Connect
    <2>2. BookMarked(initial)
        BY BuiltMarked DEF IInv
    <2>3. <<initial>> = Append(<< >>, initial)
        OBVIOUS
    <2>4. PipeMarked(pipe')
        BY <2>1, <2>2, <2>3, EmptyPipe, AppendMarked
    <2> QED BY <1>2, <2>4 DEF Connect, IInv
<1>3. CASE Disconnect
    BY <1>3, EmptyPipe DEF Disconnect, IInv
<1>4. CASE AggregatorRestart
    <2>1. StoreOK(tops')
        BY <1>4 DEF AggregatorRestart, StoreOK, TopsOK
    <2> QED BY <1>4, <2>1, EmptyPipe DEF AggregatorRestart, IInv
<1>5. CASE Deliver
    <2>1. pipe \in Seq(BookRecords) /\ pipe # << >>
        BY <1>5 DEF Deliver, IInv, PipeMarked
    <2> DEFINE r == Tail(pipe)
    <2>2. /\ Len(pipe) \in Nat /\ Len(pipe) >= 1 /\ Head(pipe) = pipe[1]
          /\ r \in Seq(BookRecords) /\ Len(r) = Len(pipe) - 1
          /\ \A i \in 1..Len(r) : r[i] = pipe[i + 1]
        BY <2>1, HeadTailProperties
    <2>3. pipe' = r /\ book' = pipe[1] /\ tops' = tops /\ connected' = connected
        BY <1>5, <2>2 DEF Deliver
    <2> HIDE DEF r
    <2>4. \A i \in 1..Len(pipe) : BookMarked(pipe[i])
        BY <2>1 DEF IInv, PipeMarked
    <2>5. \A i \in DOMAIN r : i \in 1..Len(r) /\ i + 1 \in 1..Len(pipe)
        BY <2>2
    <2>6. PipeMarked(r)
        BY <2>2, <2>4, <2>5 DEF PipeMarked
    <2>7. BookMarked(pipe[1])
        BY <2>2, <2>4
    <2> QED BY <2>3, <2>6, <2>7 DEF IInv
<1>6. CASE Tick
    BY <1>6, TickInv
<1>7. CASE UNCHANGED vars
    BY <1>7 DEF vars, IInv
<1> QED BY <1>1, <1>2, <1>3, <1>4, <1>5, <1>6, <1>7 DEF Next

\* Every book was marked right when it was built.
THEOREM Invariant == Spec => []IInv
    BY InitInv, StepInv, PTL DEF Spec

\* The select with a default drops a book there is no room for.
RoomOK == Len(pipe) <= PipeCap

LEMMA RoomStep == IInv /\ RoomOK /\ [Next]_vars => RoomOK'
<1> SUFFICES ASSUME IInv, RoomOK, [Next]_vars PROVE RoomOK'
    OBVIOUS
<1>1. pipe \in Seq(BookRecords) /\ PipeCap \in Nat \ {0}
    BY GatewayAssumption DEF IInv, PipeMarked
<1>2. Len(pipe) \in Nat /\ Len(pipe) <= PipeCap /\ Len(<< >>) = 0
    BY <1>1 DEF RoomOK
<1>3. ASSUME NEW v \in Venues, UpsertOf(v) PROVE RoomOK'
    <2>1. PICK built : \/ pipe' = pipe
                       \/ Len(pipe) < PipeCap /\ pipe' = Append(pipe, built)
        BY <1>3 DEF UpsertOf, Upsert
    <2>2. Len(Append(pipe, built)) = Len(pipe) + 1
        BY <1>1
    <2> QED BY <1>1, <1>2, <2>1, <2>2 DEF RoomOK
<1>4. CASE Connect
    <2>1. PICK initial : pipe' = <<initial>>
        BY <1>4 DEF Connect
    <2> QED BY <1>1, <2>1 DEF RoomOK
<1>5. CASE Disconnect \/ AggregatorRestart
    BY <1>1, <1>2, <1>5 DEF Disconnect, AggregatorRestart, RoomOK
<1>6. CASE Deliver
    <2>1. Len(Tail(pipe)) = Len(pipe) - 1
        BY <1>1, <1>6, HeadTailProperties DEF Deliver
    <2> QED BY <1>1, <1>2, <1>6, <2>1 DEF Deliver, RoomOK
<1>7. CASE Tick
    <2>1. pipe' = [i \in 1..Len(pipe) |-> AgedBook(pipe[i])]
        BY <1>1, <1>7 DEF Tick
    <2>2. Len(pipe') = Len(pipe)
        BY <1>2, <2>1
    <2> QED BY <1>2, <2>2 DEF RoomOK
<1>8. CASE UNCHANGED vars
    BY <1>8 DEF vars, RoomOK
<1> QED BY <1>3, <1>4, <1>5, <1>6, <1>7, <1>8 DEF Next

\* Type correctness of the store, the router's cache and the way between.
THEOREM TypeCorrect == Spec => []TypeOK
<1>1. Init => RoomOK
    BY GatewayAssumption DEF Init, RoomOK
<1>2. IInv /\ RoomOK => TypeOK
    BY DEF IInv, RoomOK, TypeOK, StoreOK, PipeMarked, BookMarked
<1> QED BY <1>1, <1>2, RoomStep, Invariant, PTL DEF Spec

-----------------------------------------------------------------------------
(* What the router uses *)

\* How old a quote is that the router routes to or announces.
THEOREM Staleness == Spec => []StalenessBounded
<1>1. IInv => StalenessBounded
    <2> SUFFICES ASSUME IInv, NEW q \in Used
                 PROVE  q.age <= QuoteStaleAfter - Skew[q.venue] + book.age
        BY DEF StalenessBounded
    <2>1. book # NoBook /\ q # NoQuote
        BY DEF Used
    <2>2. BookMarked(book)
        BY <2>1 DEF IInv
    <2>3. PICK s : s \in {book.asks, book.bids} /\ q = FirstHealthy(s)
        BY <2>1 DEF Used, RouteQuote
    <2>4. SideMarked(s, book.age)
        BY <2>2, <2>3 DEF BookMarked
    <2>5. s \in Seq(Quoted) /\ \A i \in DOMAIN s : Marked(s[i], book.age)
        BY <2>4 DEF SideMarked
    <2>6. PICK i \in DOMAIN s : q = s[i] /\ ~s[i].stale
        BY <2>1, <2>3, <2>5, FirstHealthyFacts DEF Healthy
    <2> QED BY <2>5, <2>6 DEF Marked, Limit
<1> QED BY <1>1, Invariant, PTL
=============================================================================

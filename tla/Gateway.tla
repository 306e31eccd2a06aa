------------------------------- MODULE Gateway -------------------------------
(***************************************************************************)
(* One market from the aggregator's store to the router's decisions, with  *)
(* the passing of time.                                                    *)
(*                                                                         *)
(* The aggregator marks a quote stale when it builds a book, and builds    *)
(* one only for an Upsert or for a stream that starts.  The router routes  *)
(* on the last book it received, with the marks of that time.  Queues and  *)
(* connections are those of AggregatorStream, for the router's one stream  *)
(* of the market: books in order, dropped when the channel is full, a new  *)
(* one at the start of a stream.                                           *)
(*                                                                         *)
(* Ages replace the clock: a tick adds one to the age of every quote and   *)
(* book there is, up to AgeCap.  The clocks of the processes differ by a   *)
(* constant each, Skew.                                                    *)
(* An operator whose name starts with Bad is a faulty variant, as in Quotes.*)
(***************************************************************************)
EXTENDS Quotes

CONSTANTS
    Tops,       \* tops of book each venue's updates can carry, with their ages
    NoBook,     \* the router has received no book of the market
    PipeCap,    \* books between the store and the router
    AgeCap      \* bound: ages stop here

Ages == 0..AgeCap

ASSUME GatewayAssumption ==
    /\ PipeCap \in Nat \ {0}
    /\ AgeCap \in Nat /\ \A v \in Venues : Measured(v, AgeCap) > QuoteStaleAfter
    /\ \A v \in Venues : \A top \in Tops[v] : top \in TopRecords /\ top.age \in Ages

VARIABLES
    tops,       \* the store's quote of each venue it has one from
    connected,  \* the router's stream is up
    pipe,       \* books on their way to the router
    book        \* the router's BookStore for the market

vars == <<tops, connected, pipe, book>>

Init == tops = << >> /\ connected = FALSE /\ pipe = << >> /\ book = NoBook

-----------------------------------------------------------------------------

\* Bad: books wait in a slice, which has no limit.
QueueingUpsert(v, top) ==
    /\ tops' = [u \in DOMAIN tops \cup {v} |-> IF u = v THEN top ELSE tops[u]]
    /\ \E built \in Books(tops') : pipe' = IF connected THEN Append(pipe, built) ELSE pipe
    /\ UNCHANGED <<connected, book>>

\* Bad: a book is built only for new prices.
BadUpsert(v, top) ==
    /\ tops' = [u \in DOMAIN tops \cup {v} |-> IF u = v THEN top ELSE tops[u]]
    /\ \E built \in Books(tops') :
          pipe' = IF /\ connected /\ Len(pipe) < PipeCap
                     /\ v \in DOMAIN tops =>
                           <<top.bid, top.ask>> # <<tops[v].bid, tops[v].ask>>
                  THEN Append(pipe, built) ELSE pipe
    /\ UNCHANGED <<connected, book>>

\* VenueStreamClient received an update of venue v.
Upsert(v, top) ==
    /\ tops' = [u \in DOMAIN tops \cup {v} |-> IF u = v THEN top ELSE tops[u]]
    /\ \E built \in Books(tops') :
          pipe' = IF connected /\ Len(pipe) < PipeCap THEN Append(pipe, built)
                                                      ELSE pipe
    /\ UNCHANGED <<connected, book>>

\* The router's stream starts: the initial book is built then.
Connect ==
    /\ ~connected
    /\ connected' = TRUE
    /\ \E initial \in Books(tops) : pipe' = <<initial>>
    /\ UNCHANGED <<tops, book>>

\* The stream breaks.  The router keeps the book it has.
Disconnect ==
    /\ connected
    /\ connected' = FALSE
    /\ pipe' = << >>
    /\ UNCHANGED <<tops, book>>

\* A restarted aggregator has no quotes, and every stream is broken.
AggregatorRestart ==
    /\ tops' = << >>
    /\ connected' = FALSE
    /\ pipe' = << >>
    /\ UNCHANGED book

\* Recv and BookStore.Upsert.
Deliver ==
    /\ pipe # << >>
    /\ book' = Head(pipe)
    /\ pipe' = Tail(pipe)
    /\ UNCHANGED <<tops, connected>>

Older(n) == IF n < AgeCap THEN n + 1 ELSE n

AgedQuotes(s) == [i \in DOMAIN s |-> [s[i] EXCEPT !.age = Older(@)]]

AgedBook(b) ==
    [bids |-> AgedQuotes(b.bids), asks |-> AgedQuotes(b.asks), age |-> Older(b.age)]

Tick ==
    /\ tops' = [v \in DOMAIN tops |-> [tops[v] EXCEPT !.age = Older(@)]]
    /\ pipe' = [i \in DOMAIN pipe |-> AgedBook(pipe[i])]
    /\ book' = IF book = NoBook THEN NoBook ELSE AgedBook(book)
    /\ UNCHANGED connected

UpsertOf(v) == \E top \in Tops[v] : Upsert(v, top)

Next ==
    \/ \E v \in Venues : UpsertOf(v)
    \/ Connect \/ Disconnect \/ AggregatorRestart \/ Deliver \/ Tick

Spec == Init /\ [][Next]_vars

\* Time passes, the network delivers and the router reconnects.
Fairness == WF_vars(Tick) /\ WF_vars(Deliver) /\ WF_vars(Connect)

FairSpec == Spec /\ Fairness

-----------------------------------------------------------------------------
(* Properties *)

Quoted == {q \in QuoteRecords : q.age \in Ages}

BookRecords == [bids : Seq(Quoted), asks : Seq(Quoted), age : Ages]

\* Type correctness of the store, the router's cache and the way between, which
\* holds no more books than there is room for.
TypeOK ==
    /\ TopsOK(tops) /\ \A v \in DOMAIN tops : tops[v].age \in Ages
    /\ connected \in BOOLEAN
    /\ pipe \in Seq(BookRecords) /\ Len(pipe) <= PipeCap
    /\ book \in BookRecords \cup {NoBook}

\* What SubmitIntent and the opportunity loop use of the router's book.
Used == IF book = NoBook THEN {}
        ELSE {RouteQuote(book, side) : side \in Sides} \ {NoQuote}

\* How old a quote is that the router routes to or announces: fresh when its
\* book was built, by the aggregator's clock, and no older since than the book
\* is.  A clock that is behind the venue node's adds what it is behind.
StalenessBounded ==
    \A q \in Used : q.age <= QuoteStaleAfter - Skew[q.venue] + book.age

\* docs/architecture.md ("Router avoids stale quotes automatically"), of a
\* router that is connected and has received everything that was sent to it.
RouterAvoidsStaleQuotes ==
    connected /\ pipe = << >> => \A q \in Used : q.age <= QuoteStaleAfter

\* "If HIP4 Is Stale ... router avoids HIP4 for execution": a venue that stops
\* publishing is dropped from routes and opportunities for good, provided some
\* other venue of the market goes on publishing and the router's stream
\* finally stays up, however much the clocks differ.  (Without that proviso,
\* see RouterAvoidsStaleQuotes.)
DeadVenueAvoided ==
    \A v \in Venues :
        (/\ <>[][~UpsertOf(v)]_vars
         /\ []<><<\E u \in Venues \ {v} : UpsertOf(u)>>_vars
         /\ <>[]connected)
            => <>[](\A q \in Used : q.venue # v)
=============================================================================

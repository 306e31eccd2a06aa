-------------------------- MODULE AggregatorStream --------------------------
(***************************************************************************)
(* The aggregator's Store and its StreamConsolidatedBook calls.            *)
(*                                                                         *)
(* Upsert stores a venue's quote, builds the market's consolidated book    *)
(* and, under the store's lock, puts it on the channel of every            *)
(* subscriber, whatever market that subscriber asked for; a full channel   *)
(* drops it.  A call's handler subscribes, sends the book it then reads,   *)
(* and forwards from its channel the books of the market that was asked    *)
(* for.  The router has one such client per market and keeps the last book *)
(* received; the command-line client prints it.                            *)
(*                                                                         *)
(* A consolidated book is its market and its revision, the number of       *)
(* Upserts of that market before it was built.  A client is one stream     *)
(* with reconnection, so a router is as many clients as it has markets.    *)
(*                                                                         *)
(* An operator whose name starts with Bad is not part of the model: it is  *)
(* the action below it with a plausible bug, for the runs to reject.       *)
(***************************************************************************)
EXTENDS Integers, SequencesExt

CONSTANTS
    Markets,     \* canonical market ids
    AllMarkets,  \* the empty canonical_market_id, which matches every book
    Clients,     \* clients of StreamConsolidatedBook
    Wants,       \* the market each client asks for, or AllMarkets
    Calls,       \* identities of calls; reused once ended
    NoCall,      \* "not connected"
    NoBook,      \* "no book taken"
    ChanCap,     \* capacity of a subscriber's channel (1024)
    WireCap,     \* messages gRPC flow control lets one stream buffer
    MaxRev,      \* bound: Upserts of each market
    MaxCuts      \* bound: lost connections and aggregator restarts

ASSUME NameAssumption ==
    /\ AllMarkets \notin Markets /\ NoCall \notin Calls
    /\ Wants \in [Clients -> Markets \cup {AllMarkets}]

ASSUME BoundAssumption ==
    /\ ChanCap \in Nat \ {0} /\ WireCap \in Nat \ {0}
    /\ MaxRev \in [Markets -> Nat] /\ MaxCuts \in Nat

Books == [market : Markets \cup {AllMarkets}, rev : Nat]
Book(m, r) == [market |-> m, rev |-> r]

ASSUME NoBookAssumption == NoBook \notin Books

VARIABLES
    rev,          \* revision of each market's consolidated book
    subscribers,  \* calls whose channel is in Store.subscribers
    chan,         \* the channel of each call
    dropped,      \* markets whose newest book found a call's channel full
    pc,           \* where each call's handler is
    req,          \* market each call asked for
    held,         \* book a handler is about to send
    link,         \* connection of each call: "up", "cut" or "done"
    wire,         \* books sent on a call and not yet received
    attached,     \* call a client receives from, or NoCall
    floor,        \* revisions when a client's call last subscribed
    view,         \* revision each client holds of each market, -1 for none
    cuts          \* lost connections and restarts so far

storeVars   == <<rev, subscribers, chan, dropped>>
handlerVars == <<pc, req, held>>
netVars     == <<link, wire>>
clientVars  == <<attached, view>>
vars == <<storeVars, handlerVars, netVars, clientVars, floor, cuts>>

Keys == Markets \cup {AllMarkets}
Stages == {"free", "start", "subscribed", "initial", "loop", "send", "return"}

Init ==
    /\ rev = [m \in Keys |-> 0]
    /\ subscribers = {}
    /\ chan = [h \in Calls |-> << >>]
    /\ dropped = [h \in Calls |-> {}]
    /\ pc = [h \in Calls |-> "free"]
    /\ req = [h \in Calls |-> AllMarkets]
    /\ held = [h \in Calls |-> NoBook]
    /\ link = [h \in Calls |-> "done"]
    /\ wire = [h \in Calls |-> << >>]
    /\ attached = [c \in Clients |-> NoCall]
    /\ floor = [c \in Clients |-> [m \in Keys |-> 0]]
    /\ view = [c \in Clients |-> [m \in Keys |-> -1]]
    /\ cuts = 0

-----------------------------------------------------------------------------
(* The store *)

HasRoom(h) == Len(chan[h]) < ChanCap

\* Bad: the book is built before the quote is stored.
BadUpsert(m) ==
    LET book == Book(m, rev[m]) IN
    /\ rev[m] < MaxRev[m]
    /\ rev' = [rev EXCEPT ![m] = @ + 1]
    /\ chan' = [h \in Calls |-> IF h \in subscribers /\ HasRoom(h)
                                THEN Append(chan[h], book) ELSE chan[h]]
    /\ dropped' = [h \in Calls |-> IF h \notin subscribers THEN dropped[h]
                                   ELSE IF HasRoom(h) THEN dropped[h] \ {m}
                                   ELSE dropped[h] \cup {m}]
    /\ UNCHANGED <<subscribers, handlerVars, netVars, clientVars, floor, cuts>>

\* Upsert, one critical section: the new book goes to every subscriber that
\* has room for it.
Upsert(m) ==
    LET book == Book(m, rev[m] + 1) IN
    /\ rev[m] < MaxRev[m]
    /\ rev' = [rev EXCEPT ![m] = @ + 1]
    /\ chan' = [h \in Calls |-> IF h \in subscribers /\ HasRoom(h)
                                THEN Append(chan[h], book) ELSE chan[h]]
    /\ dropped' = [h \in Calls |-> IF h \notin subscribers THEN dropped[h]
                                   ELSE IF HasRoom(h) THEN dropped[h] \ {m}
                                   ELSE dropped[h] \cup {m}]
    /\ UNCHANGED <<subscribers, handlerVars, netVars, clientVars, floor, cuts>>

-----------------------------------------------------------------------------
(* The StreamConsolidatedBook handlers *)

\* Bad: the channel of an earlier call is used again.
BadSubscribe(h) ==
    /\ pc[h] = "start"
    /\ pc' = [pc EXCEPT ![h] = "subscribed"]
    /\ subscribers' = subscribers \cup {h}
    /\ dropped' = [dropped EXCEPT ![h] = {}]
    /\ floor' = [c \in Clients |-> IF attached[c] = h THEN rev ELSE floor[c]]
    /\ UNCHANGED <<rev, chan, req, held, netVars, clientVars, cuts>>

Subscribe(h) ==
    /\ pc[h] = "start"
    /\ pc' = [pc EXCEPT ![h] = "subscribed"]
    /\ subscribers' = subscribers \cup {h}
    /\ chan' = [chan EXCEPT ![h] = << >>]
    /\ dropped' = [dropped EXCEPT ![h] = {}]
    /\ floor' = [c \in Clients |-> IF attached[c] = h THEN rev ELSE floor[c]]
    /\ UNCHANGED <<rev, req, held, netVars, clientVars, cuts>>

\* Bad: the book as it was before the last Upsert.
BadGetInitial(h) ==
    /\ pc[h] = "subscribed"
    /\ pc' = [pc EXCEPT ![h] = "initial"]
    /\ held' = [held EXCEPT ![h] = Book(req[h], rev[req[h]] - 1)]
    /\ UNCHANGED <<storeVars, req, netVars, clientVars, floor, cuts>>

\* Bad: the handler goes straight to the updates.
SkipInitial(h) ==
    /\ pc[h] = "subscribed"
    /\ pc' = [pc EXCEPT ![h] = "loop"]
    /\ UNCHANGED <<storeVars, req, held, netVars, clientVars, floor, cuts>>

\* GetConsolidatedBook, a critical section of its own: Upserts may have come
\* between.  No quote is filed under the empty market, so its book is empty.
GetInitial(h) ==
    /\ pc[h] = "subscribed"
    /\ pc' = [pc EXCEPT ![h] = "initial"]
    /\ held' = [held EXCEPT ![h] = Book(req[h], rev[req[h]])]
    /\ UNCHANGED <<storeVars, req, netVars, clientVars, floor, cuts>>

Matches(h, b) == req[h] = AllMarkets \/ b.market = req[h]

\* The select receives a book; one of another market is skipped.
Take(h) ==
    LET book == Head(chan[h]) IN
    /\ pc[h] = "loop"
    /\ chan[h] # << >>
    /\ chan' = [chan EXCEPT ![h] = Tail(@)]
    /\ IF Matches(h, book)
       THEN /\ held' = [held EXCEPT ![h] = book]
            /\ pc' = [pc EXCEPT ![h] = "send"]
       ELSE UNCHANGED <<held, pc>>
    /\ UNCHANGED <<rev, subscribers, dropped, req, netVars, clientVars, floor, cuts>>

Sending(h) == pc[h] \in {"initial", "send"}

\* Bad: sending the initial book discards what is queued.
BadSend(h) ==
    /\ Sending(h)
    /\ link[h] = "up"
    /\ Len(wire[h]) < WireCap
    /\ wire' = [wire EXCEPT ![h] = Append(@, held[h])]
    /\ held' = [held EXCEPT ![h] = NoBook]
    /\ chan' = IF pc[h] = "initial" THEN [chan EXCEPT ![h] = << >>] ELSE chan
    /\ pc' = [pc EXCEPT ![h] = "loop"]
    /\ UNCHANGED <<rev, subscribers, dropped, req, link, clientVars, floor, cuts>>

\* stream.Send, of the initial book or of a later one, to a live client.
Send(h) ==
    /\ Sending(h)
    /\ link[h] = "up"
    /\ Len(wire[h]) < WireCap
    /\ wire' = [wire EXCEPT ![h] = Append(@, held[h])]
    /\ held' = [held EXCEPT ![h] = NoBook]
    /\ pc' = [pc EXCEPT ![h] = "loop"]
    /\ UNCHANGED <<storeVars, req, link, clientVars, floor, cuts>>

\* The client is gone and the transport has not failed yet.
SendLost(h) ==
    /\ Sending(h)
    /\ link[h] = "cut"
    /\ held' = [held EXCEPT ![h] = NoBook]
    /\ pc' = [pc EXCEPT ![h] = "loop"]
    /\ UNCHANGED <<storeVars, req, netVars, clientVars, floor, cuts>>

\* Bad: no deferred Unsubscribe.
LeakyReturn(h) ==
    /\ \/ Sending(h) /\ link[h] # "up"
       \/ pc[h] = "loop" /\ link[h] = "done"
    /\ pc' = [pc EXCEPT ![h] = "free"]
    /\ held' = [held EXCEPT ![h] = NoBook]
    /\ UNCHANGED <<storeVars, req, netVars, clientVars, floor, cuts>>

\* Bad: the select does not wait for the context.
DeafReturn(h) ==
    /\ Sending(h) /\ link[h] # "up"
    /\ pc' = [pc EXCEPT ![h] = "return"]
    /\ held' = [held EXCEPT ![h] = NoBook]
    /\ UNCHANGED <<storeVars, req, netVars, clientVars, floor, cuts>>

\* Send returns an error, or the select sees the context done.
Return(h) ==
    /\ \/ Sending(h) /\ link[h] # "up"
       \/ pc[h] = "loop" /\ link[h] = "done"
    /\ pc' = [pc EXCEPT ![h] = "return"]
    /\ held' = [held EXCEPT ![h] = NoBook]
    /\ UNCHANGED <<storeVars, req, netVars, clientVars, floor, cuts>>

\* The deferred Unsubscribe.
Unsubscribe(h) ==
    /\ pc[h] = "return"
    /\ subscribers' = subscribers \ {h}
    /\ pc' = [pc EXCEPT ![h] = "free"]
    /\ UNCHANGED <<rev, chan, dropped, req, held, netVars, clientVars, floor, cuts>>

\* The aggregator's transport notices that the client is gone.
ContextDone(h) ==
    /\ link[h] = "cut"
    /\ link' = [link EXCEPT ![h] = "done"]
    /\ UNCHANGED <<storeVars, handlerVars, wire, clientVars, floor, cuts>>

-----------------------------------------------------------------------------
(* The clients *)

Open(c, h) ==
    /\ attached[c] = NoCall
    /\ pc[h] = "free"
    /\ link[h] = "done"
    /\ attached' = [attached EXCEPT ![c] = h]
    /\ pc' = [pc EXCEPT ![h] = "start"]
    /\ req' = [req EXCEPT ![h] = Wants[c]]
    /\ link' = [link EXCEPT ![h] = "up"]
    /\ UNCHANGED <<storeVars, held, wire, view, floor, cuts>>

\* Recv and the router's BookStore.Upsert, which overwrites the market's book.
Recv(c) ==
    LET h == attached[c] IN
    /\ h # NoCall
    /\ wire[h] # << >>
    /\ wire' = [wire EXCEPT ![h] = Tail(@)]
    /\ view' = [view EXCEPT ![c][Head(wire[h]).market] = Head(wire[h]).rev]
    /\ UNCHANGED <<storeVars, handlerVars, link, attached, floor, cuts>>

\* The stream of client c breaks, or is cancelled because another stream of
\* the same router broke.
Disconnect(c) ==
    LET h == attached[c] IN
    /\ h # NoCall
    /\ cuts < MaxCuts
    /\ cuts' = cuts + 1
    /\ attached' = [attached EXCEPT ![c] = NoCall]
    /\ link' = [link EXCEPT ![h] = "cut"]
    /\ wire' = [wire EXCEPT ![h] = << >>]
    /\ UNCHANGED <<storeVars, handlerVars, view, floor>>

\* The aggregator dies and is started again with no quotes: its empty books
\* are the markets' next revisions.
AggregatorRestart ==
    /\ cuts < MaxCuts
    /\ cuts' = cuts + 1
    /\ rev' = [m \in Keys |-> IF m \in Markets THEN rev[m] + 1 ELSE rev[m]]
    /\ subscribers' = {}
    /\ chan' = [h \in Calls |-> << >>]
    /\ dropped' = [h \in Calls |-> {}]
    /\ pc' = [h \in Calls |-> "free"]
    /\ held' = [h \in Calls |-> NoBook]
    /\ link' = [h \in Calls |-> "done"]
    /\ wire' = [h \in Calls |-> << >>]
    /\ attached' = [c \in Clients |-> NoCall]
    /\ UNCHANGED <<req, view, floor>>

-----------------------------------------------------------------------------

HandlerStep(h) ==
    \/ Subscribe(h) \/ GetInitial(h) \/ Take(h) \/ Send(h) \/ SendLost(h)
    \/ Return(h) \/ Unsubscribe(h) \/ ContextDone(h)

Next ==
    \/ \E m \in Markets : Upsert(m)
    \/ \E h \in Calls : HandlerStep(h)
    \/ \E c \in Clients : Recv(c) \/ Disconnect(c) \/ \E h \in Calls : Open(c, h)
    \/ AggregatorRestart

Spec == Init /\ [][Next]_vars

\* Goroutines run, live connections make progress and clients reconnect.
\* Nothing is assumed of the network, or of when a dead peer is noticed.
Fairness ==
    /\ \A h \in Calls :
          /\ WF_vars(Subscribe(h)) /\ WF_vars(GetInitial(h))
          /\ WF_vars(Take(h)) /\ WF_vars(Send(h))
          /\ WF_vars(Return(h)) /\ WF_vars(Unsubscribe(h))
    /\ \A c \in Clients : WF_vars(Recv(c)) /\ WF_vars(\E h \in Calls : Open(c, h))

FairSpec == Spec /\ Fairness

-----------------------------------------------------------------------------
(* Properties *)

\* Type correctness of the store, its calls and its clients.
TypeOK ==
    /\ rev \in [Keys -> Nat]
    /\ subscribers \subseteq Calls
    /\ chan \in [Calls -> Seq(Books)]
    /\ dropped \in [Calls -> SUBSET Markets]
    /\ pc \in [Calls -> Stages]
    /\ req \in [Calls -> Keys]
    /\ held \in [Calls -> Books \cup {NoBook}]
    /\ link \in [Calls -> {"up", "cut", "done"}]
    /\ wire \in [Calls -> Seq(Books)]
    /\ attached \in [Clients -> Calls \cup {NoCall}]
    /\ floor \in [Clients -> [Keys -> Nat]]
    /\ view \in [Clients -> [Keys -> Nat \cup {-1}]]
    /\ cuts \in Nat

\* The handler of call h has subscribed and will still unsubscribe.
Running(h) == pc[h] \notin {"free", "start"}

\* The channels in the store are those of the running handlers.
Registered == subscribers = {h \in Calls : Running(h)}

\* A client receives over a live call of its own.
ClientsOK ==
    /\ \A c \in Clients :
          LET h == attached[c] IN
          h # NoCall => /\ link[h] = "up" /\ pc[h] \notin {"free", "return"}
                        /\ req[h] = Wants[c]
    /\ \A c, d \in Clients :
          attached[c] = attached[d] /\ attached[c] # NoCall => c = d

\* A call sends only what was asked for, and what ended leaves nothing behind.
CallOK(h) ==
    /\ held[h] # NoBook <=> Sending(h)
    /\ held[h] # NoBook => Matches(h, held[h])
    /\ pc[h] = "return" => link[h] # "up"
    /\ link[h] # "up" => wire[h] = << >>
    /\ pc[h] \in {"free", "start", "subscribed", "initial"} => wire[h] = << >>
    /\ \A i \in 1..Len(wire[h]) : Matches(h, wire[h][i])

\* Every subscriber of the store has a running handler and every running
\* handler is a subscriber, so no channel is left behind for Upsert to fill;
\* clients never share a call, and a call carries only what was asked for.
CallsExclusive == Registered /\ ClientsOK /\ \A h \in Calls : CallOK(h)

\* Books of one market leave the channel in the order they were built.
Ordered(q) ==
    \A i, j \in 1..Len(q) :
        i < j /\ q[i].market = q[j].market => q[i].rev < q[j].rev

Has(q, m) == \E i \in 1..Len(q) : q[i].market = m

\* Unless the channel was full for it, the newest book of market m is the
\* last of that market the channel holds, if it holds any.
NewestQueued(h, m) ==
    /\ Ordered(chan[h])
    /\ \A i \in 1..Len(chan[h]) :
          chan[h][i].market = m => chan[h][i].rev <= rev[m]
    /\ m \notin dropped[h] /\ Has(chan[h], m) =>
          \E i \in 1..Len(chan[h]) : chan[h][i] = Book(m, rev[m])

ChannelOrder == \A h \in subscribers, m \in Markets : NewestQueued(h, m)

\* The last book of market m in the pipeline of call h, or what client c has
\* when that is empty, is the newest one, unless it met a full channel.
CaughtUp(c, h, m) ==
    m \notin dropped[h] /\ ~Has(chan[h], m) =>
        IF held[h] # NoBook THEN held[h] = Book(m, rev[m])
        ELSE IF wire[h] # << >> THEN wire[h][Len(wire[h])] = Book(m, rev[m])
        ELSE view[c][m] = rev[m]

\* Whatever the store did between Subscribe, the initial read and the last
\* select, what a client ends up with is the newest book of its market, unless
\* an overflow dropped that book: no Upsert falls between two of these steps.
NoGap ==
    \A c \in Clients :
        (/\ attached[c] # NoCall /\ Wants[c] \in Markets
         /\ pc[attached[c]] \in {"initial", "loop", "send"})
            => CaughtUp(c, attached[c], Wants[c])

InFlight(h) == ToSet(chan[h]) \cup ({held[h]} \ {NoBook}) \cup ToSet(wire[h])

InRange(b, c) == floor[c][b.market] <= b.rev /\ b.rev <= rev[b.market]

PathKept(c) ==
    attached[c] # NoCall /\ Running(attached[c]) =>
        \A b \in InFlight(attached[c]) : InRange(b, c)

\* Nothing on its way to a client is older than its call's subscription:
\* neither a book of the store's past nor one of an earlier call.
FloorKept ==
    \A c \in Clients :
        /\ \A m \in Keys : floor[c][m] <= rev[m] /\ view[c][m] <= rev[m]
        /\ PathKept(c)

\* For every client and market, the store, the call and the network between
\* them implement the abstract feed that starts with a snapshot.
Feed(c, m) == INSTANCE ResyncFeed
                WITH source <- rev[m], floor <- floor[c][m], sink <- view[c][m]
ImplementsResyncFeed ==
    /\ \A c \in Clients, m \in Keys : Feed(c, m)!Init
    /\ [][\A c \in Clients, m \in Keys :
            [Feed(c, m)!Next]_(Feed(c, m)!vars)]_vars

\* Once connections stop failing, every client ends up with the newest book of
\* its market, however often it reconnected, unless its channel overflowed.
EventuallyCurrent ==
    \A c \in Clients :
        Wants[c] \in Markets =>
            <>[](\/ view[c][Wants[c]] = rev[Wants[c]]
                 \/ attached[c] # NoCall /\ Wants[c] \in dropped[attached[c]])

\* A call whose end the aggregator has noticed is unsubscribed: its handler
\* and its channel do not outlive it.
CallsEnd == \A h \in Calls : link[h] = "done" ~> pc[h] = "free"
=============================================================================

----------------------------- MODULE VenueFeed -----------------------------
(***************************************************************************)
(* The websocket feed of a venue node: connect and subscribe, read and     *)
(* handle messages, publish the top of the local book, reconnect.          *)
(*                                                                         *)
(* The three feeds share this loop and the local book.  They differ in the *)
(* exchange's messages, which `venue`, fixed at the start, selects:        *)
(*   HIP4        every message is the whole book, at prices that rounding  *)
(*               to bps may merge;                                         *)
(*   KALSHI      a snapshot after subscribing, then quantity deltas; an    *)
(*               ask is a bid for NO;                                      *)
(*   POLYMARKET  the books of the subscribed assets in one array, then new *)
(*               sizes, several to a message.                              *)
(*                                                                         *)
(* The exchange is external: a matching engine whose book is never crossed *)
(* and which sends, in order, what it changed.  A message may be malformed: *)
(* the handlers log an error and go on.                                    *)
(*                                                                         *)
(* The book is locked for one update at a time, not for a message: the     *)
(* handlers of GetSnapshot and Health, which only read it, see every state *)
(* of it.  A message is handled long before its receipt is staleAfter ago. *)
(* Acknowledgements, sequence numbers (displayed only) and the updates     *)
(* channel (VenueStream) are left out.                                     *)
(***************************************************************************)
EXTENDS LocalBook, SequencesExt

CONSTANTS
    Protocols,      \* the venues to consider
    Assets, Yes,    \* Polymarket's asset_ids, and the one of the YES token
    HyperliquidBps, \* Hyperliquid's prices to bps, rounded
    Quantities,     \* bound: quantities at each price on each venue
    Depth,          \* bound: levels of a side on each venue
    WireCap,        \* bound: messages each venue has sent and its node not handled
    MaxChanges,     \* bound: levels that change with one message
    PerUnit,        \* sizes of the exchange's precision in a unit of quantity
    SnapshotDepth,  \* 10: levels of a side in the answer of GetSnapshot
    Malformed       \* a change that cannot be parsed

ASSUME FeedAssumption ==
    /\ Protocols \subseteq {"HIP4", "KALSHI", "POLYMARKET"}
    /\ Yes \in Assets /\ IsFiniteSet(Assets) /\ SnapshotDepth \in Nat \ {0}
    /\ PerUnit \in Nat \ {0}
    /\ HyperliquidBps \in [Prices -> Prices]
    /\ \A p, q \in Prices : p <= q => HyperliquidBps[p] <= HyperliquidBps[q]
    /\ \A v \in Protocols :
          /\ \A p \in Prices : Quantities[v][p] \subseteq Nat /\ 0 \in Quantities[v][p]
          /\ Depth[v] \in Nat
          /\ WireCap[v] \in Nat \ {0} /\ MaxChanges[v] \in Nat \ {0}
          /\ v = "KALSHI" => MaxChanges[v] = 1

\* The special values are no top of book and no change of a level.
ASSUME SpecialAssumption ==
    /\ NoTop \notin [Sides -> [price : Prices, qty : Nat]]
    /\ Malformed \notin [side : Sides, price : Prices, qty : Int]

VARIABLES
    venue,
    exchange,   \* the exchange's book of each asset
    link,       \* "down", "up", or "silent": open, but dead
    wire,       \* messages sent and not read: sequences of parts
    spoiled,    \* a malformed message was sent since the last good book
    todo,       \* the parts left of the message in hand
    book,       \* the local book,
    fresh,      \* whether its last update is at most staleAfter ago
    top         \* the last top of book published

localVars == <<todo, book, fresh, top>>
vars == <<venue, exchange, link, wire, spoiled, localVars>>

Init ==
    /\ venue \in Protocols
    /\ exchange = [a \in Assets |-> EmptyBook]
    /\ link = "down" /\ wire = << >> /\ spoiled = FALSE
    /\ todo = << >> /\ book = EmptyBook /\ fresh = FALSE /\ top = NoTop

-----------------------------------------------------------------------------
(* Prices and sizes *)

\* The probability of YES, in the exchange's precision.
YesPrice(v, side, p) == IF v = "KALSHI" /\ side = "ask" THEN MaxPrice - p ELSE p

\* CentsToBps and NoBidCentsToYesAskBps, DecimalStringToBps, and
\* NormalizeHyperliquidPriceToOutcomeBps.
PriceBps(side, p) ==
    CASE venue = "HIP4" -> HyperliquidBps[p]
      [] venue = "KALSHI" -> IF side = "ask" THEN MaxPrice - p ELSE p
      [] venue = "POLYMARKET" -> p

\* The size of a level in units of 1/10000, rounded, half a unit up; Kalshi's are
\* whole numbers.  A level of less than half a unit has quantity 0.
Units(size) ==
    IF venue = "KALSHI" THEN size ELSE (2 * size + PerUnit) \div (2 * PerUnit)

\* What may be at the prices of one side, and the books each exchange can have:
\* orders that cross would have been matched.
Stack(v) ==
    {qty \in [Prices -> UNION {Quantities[v][p] : p \in Prices}] :
        /\ \A p \in Prices : qty[p] \in Quantities[v][p]
        /\ Cardinality({p \in Prices : qty[p] # 0}) <= Depth[v]}

Uncrossed(v) ==
    {b \in [Sides -> Stack(v)] :
        \A p \in Listed(b, "bid"), q \in Listed(b, "ask") :
            YesPrice(v, "bid", p) < YesPrice(v, "ask", q)}

\* One set for all venues, which TLC enumerates once.
Books == UNION {{<<v, b>> : b \in Uncrossed(v)} : v \in Protocols}

-----------------------------------------------------------------------------
(* Messages of the exchange *)

\* The levels of a side, the best in the exchange's precision first.
BestFirst(b, side) ==
    {order \in SetToSeqs(Listed(b, side)) :
        \A i, j \in DOMAIN order : i < j =>
            IF side = "bid" \/ venue = "KALSHI" THEN order[i] > order[j] ELSE order[i] < order[j]}

Ladder(b, side, order) ==
    [i \in DOMAIN order |-> [price |-> order[i], qty |-> b[side][order[i]]]]

\* The book of an asset, and a change of one level, the last of its message or
\* not.
BookParts(a, b, readable) ==
    {[kind |-> "book", asset |-> a, readable |-> readable,
      lists |-> [side \in Sides |-> Ladder(b, side, IF side = "bid" THEN bids ELSE asks)]] :
        bids \in BestFirst(b, "bid"), asks \in BestFirst(b, "ask")}

ChangePart(change, last) == [kind |-> "change", change |-> change, last |-> last]

Subscribed == IF venue = "POLYMARKET" THEN Assets ELSE {Yes}

-----------------------------------------------------------------------------
(* Handlers: st is the book, the top published, and whether all went well *)

Failed(st) == [st EXCEPT !.ok = FALSE]

\* Bad: a book with one side only is not published.
BadPublish(st) ==
    IF TopOfBook(st.book) = NoTop THEN Failed(st)
    ELSE IF \E side \in Sides : Listed(st.book, side) = {} THEN st
    ELSE [st EXCEPT !.top = TopOfBook(st.book)]

Publish(st) ==
    IF TopOfBook(st.book) = NoTop THEN Failed(st)
                                  ELSE [st EXCEPT !.top = TopOfBook(st.book)]

\* convertPolymarketLevels, convertHyperliquidLevelsToOutcomeBps, and the loops
\* of Kalshi's handleSnapshot.  The first two skip a level whose quantity is 0,
\* as ApplySnapshot does again.
Converted(lists) ==
    [side \in Sides |->
        [i \in DOMAIN lists[side] |->
            [price |-> PriceBps(side, lists[side][i].price), qty |-> Units(lists[side][i].qty)]]]

\* handleSnapshot, handleBook, handleL2Book: all levels are converted first.
HandleBook(st, part) ==
    IF ~part.readable THEN Failed(st)
    ELSE Publish([st EXCEPT !.book = ApplySnapshot(@, Converted(part.lists))])

\* Bad: a delta is taken for the new quantity.
BadApplyChange(b, c) == SetLevel(b, c.side, PriceBps(c.side, c.price), Units(c.qty))

ApplyChange(b, c) ==
    IF venue = "KALSHI" THEN ApplyQuantityDelta(b, c.side, PriceBps(c.side, c.price), c.qty)
                        ELSE SetLevel(b, c.side, PriceBps(c.side, c.price), Units(c.qty))

\* Bad: the top is published after every change.
BadHandleChange(st, part) ==
    IF part.change = Malformed THEN Failed(st)
    ELSE Publish([st EXCEPT !.book = ApplyChange(@, part.change)])

\* handleDelta, and one round of handlePriceChange.
HandleChange(st, part) ==
    IF part.change = Malformed THEN Failed(st)
    ELSE LET done == [st EXCEPT !.book = ApplyChange(@, part.change)]
         IN IF part.last THEN Publish(done) ELSE done

HandlePart(st, part) ==
    IF part.kind = "book" THEN HandleBook(st, part) ELSE HandleChange(st, part)

\* Whether the book is updated, if only to the same levels.
Applied(part) == IF part.kind = "book" THEN part.readable ELSE part.change # Malformed

Node == [book |-> book, top |-> top, ok |-> TRUE]

-----------------------------------------------------------------------------
(* Actions *)

\* What the exchange may send when the book of asset a becomes b.
Messages(a, b, changes, readable) ==
    IF venue = "HIP4" THEN {<<part>> : part \in BookParts(a, b, readable)}
    ELSE {[i \in DOMAIN changes |-> ChangePart(changes[i], i = Len(changes))]}

\* Of the changes one cannot be parsed.
Garbled(changes) == {[changes EXCEPT ![i] = Malformed] : i \in DOMAIN changes}

Moved(old, b) == {l \in Sides \X Prices : b[l[1]][l[2]] # old[l[1]][l[2]]}

\* What is sent of a level: its quantity or, on Kalshi, the difference.
ChangeOf(old, b, l) ==
    [side |-> l[1], price |-> l[2],
     qty |-> b[l[1]][l[2]] - IF venue = "KALSHI" THEN old[l[1]][l[2]] ELSE 0]

\* Bound: one message at a time after a malformed one.
Room == Len(wire) + (IF todo = << >> THEN 0 ELSE 1) < IF spoiled THEN 1 ELSE WireCap[venue]

Send(a, b, changes) ==
    \/ /\ \E m \in Messages(a, b, changes, TRUE) : wire' = Append(wire, m)
       /\ spoiled' = (spoiled /\ venue # "HIP4")
    \/ /\ ~spoiled
       /\ \E garbled \in Garbled(changes) :
              \E m \in Messages(a, b, garbled, FALSE) : wire' = Append(wire, m)
       /\ spoiled' = TRUE

Change(a) ==
    /\ \E next \in Books :
          LET old == exchange[a]
              b == next[2]
          IN /\ next[1] = venue /\ b # old
             /\ Cardinality(Moved(old, b)) <= MaxChanges[venue]
             /\ exchange' = [exchange EXCEPT ![a] = b]
             /\ IF link = "up" /\ a \in Subscribed
                THEN Room /\ \E order \in SetToSeqs(Moved(old, b)) :
                        Send(a, b, [i \in DOMAIN order |-> ChangeOf(old, b, order[i])])
                ELSE UNCHANGED <<wire, spoiled>>
    /\ UNCHANGED <<venue, link, localVars>>

Dial == link = "down" /\ todo = << >> /\ link' = "up"

\* Dial, subscribe, and what the exchange answers with.
Connect ==
    /\ Dial
    /\ \E order \in SetToSeqs(Subscribed) :
          \E message \in [DOMAIN order -> UNION {BookParts(a, exchange[a], TRUE) : a \in Subscribed}] :
              /\ \A i \in DOMAIN order : message[i].asset = order[i]
              /\ wire' = <<message>>
    /\ spoiled' = FALSE
    /\ UNCHANGED <<venue, exchange, localVars>>

ReadMessage ==
    /\ link # "down" /\ todo = << >> /\ wire # << >>
    /\ todo' = Head(wire) /\ wire' = Tail(wire)

\* A message is read, once the one before is handled.
Read ==
    /\ ReadMessage
    /\ UNCHANGED <<venue, exchange, link, spoiled, book, fresh, top>>

\* After an error the rest of a message is not looked at.
HandleNext(ok) == todo' = IF ok THEN Tail(todo) ELSE << >>

\* A part of the message in hand is handled.
Handle ==
    /\ todo # << >>
    /\ \E done \in {HandlePart(Node, Head(todo))} :
          HandleNext(done.ok) /\ book' = done.book /\ top' = done.top
    /\ fresh' = (fresh \/ Applied(Head(todo)))
    /\ UNCHANGED <<venue, exchange, link, wire, spoiled>>

\* staleAfter passes without an update.
Age ==
    /\ fresh
    /\ fresh' = FALSE
    /\ UNCHANGED <<venue, exchange, link, wire, spoiled, todo, book, top>>

\* The connection breaks: ReadMessage will return an error.
Break ==
    /\ link = "up"
    /\ link' = "down" /\ wire' = << >>
    /\ UNCHANGED <<venue, exchange, spoiled, localVars>>

\* It stays open but nothing arrives any more, not even a pong.
FallSilent ==
    /\ link = "up"
    /\ link' = "silent"
    /\ UNCHANGED <<venue, exchange, wire, spoiled, localVars>>

\* Bad: no read deadline.
BadReadDeadline == FALSE /\ UNCHANGED vars

\* No pong for a minute: only the Hyperliquid feed sends pings and has a
\* deadline.
ReadDeadline ==
    /\ venue = "HIP4" /\ link = "silent" /\ wire = << >>
    /\ link' = "down"
    /\ UNCHANGED <<venue, exchange, wire, spoiled, localVars>>

Next ==
    \/ \E a \in Assets : Change(a)
    \/ Connect \/ Read \/ Handle \/ Age
    \/ Break \/ FallSilent \/ ReadDeadline

Spec == Init /\ [][Next]_vars

Handling == todo # << >> /\ \E ok \in BOOLEAN : HandleNext(ok)

\* The goroutine of Run, and time: a book is updated again and again or found
\* stale again and again.
Fairness ==
    /\ WF_link(Dial) /\ WF_wire(ReadMessage) /\ WF_todo(Handling) /\ WF_vars(ReadDeadline)
    /\ []<><<Handling>>_todo \/ []<>~fresh

FairSpec == Spec /\ Fairness

-----------------------------------------------------------------------------
(* What the unary calls answer *)

\* The levels and whether they are stale, for SnapshotDepth levels of a side;
\* Health asks for one.
GetSnapshot(depth) == [levels |-> Snapshot(book, depth), stale |-> ~fresh]

\* Bad: that the process runs is all that is looked at.
BadHealth == "OK"

Health == IF fresh THEN "OK" ELSE "STALE"

-----------------------------------------------------------------------------
(* Properties *)

Level == [price : Prices, qty : Nat]

Parts ==
    [kind : {"book"}, asset : Assets, readable : BOOLEAN, lists : [Sides -> Seq(Level)]]
        \cup [kind : {"change"}, last : BOOLEAN,
              change : [side : Sides, price : Prices, qty : Int] \cup {Malformed}]

TypeOK ==
    /\ venue \in Protocols /\ link \in {"down", "up", "silent"}
    /\ exchange \in [Assets -> [Sides -> [Prices -> Nat]]]
    /\ wire \in Seq(Seq(Parts)) /\ todo \in Seq(Parts)
    /\ spoiled \in BOOLEAN /\ fresh \in BOOLEAN
    /\ book \in [Sides -> [Prices -> Nat]]
    /\ top \in [Sides -> Level] \cup {NoTop}

\* The probability of YES in bps.
Outcome(side, p) ==
    LET yes == YesPrice(venue, side, p)
    IN IF venue = "HIP4" THEN HyperliquidBps[yes] ELSE yes

\* The exchange's book as far as units of quantity can tell: without the levels
\* of less than half a unit.
Sized(b) == [side \in Sides |-> [p \in Prices |-> Units(b[side][p])]]

\* A local book mirrors b at the price p of a side: there is a level if b has
\* one that is p in bps, with its quantity or, if there are several (on
\* Hyperliquid only), the quantity of one of them.
MirrorsAt(local, b, side, p) ==
    LET there == {q \in Listed(b, side) : Outcome(side, q) = p}
    IN IF there = {} THEN local[side][p] = 0
                     ELSE local[side][p] \in {b[side][q] : q \in there}

Mirrors(local, b) == \A side \in Sides, p \in Prices : MirrorsAt(local, b, side, p)

Handled(st, parts) == FoldLeft(LAMBDA s, p : IF s.ok THEN HandlePart(s, p) ELSE s, st, parts)

\* The node once it has handled the rest of the message in hand and the wire.
Replayed ==
    FoldLeft(LAMBDA st, m : Handled([st EXCEPT !.ok = TRUE], m), Handled(Node, todo), wire)

\* What is left of the message in hand and those on the wire lead from the
\* local book to the exchange's, in units.
InSync == link = "up" /\ ~spoiled => Mirrors(Replayed.book, Sized(exchange[Yes]))

\* Nothing about the price p of a side is on its way.
Settled(side, p) ==
    \A m \in {todo} \cup Range(wire) : \A i \in DOMAIN m :
        /\ m[i].kind = "change"
        /\ m[i].change.side = side => PriceBps(side, m[i].change.price) # p

\* In the middle of a message, where GetSnapshot may read it, the local book is
\* a mixture of two books of the exchange: a level that is not the exchange's
\* is one of which a change is still to be handled.
SettledLevels ==
    link = "up" /\ ~spoiled =>
        \A side \in Sides, p \in Prices :
            Settled(side, p) => MirrorsAt(book, Sized(exchange[Yes]), side, p)

\* t has the best bid and the best ask of b.
BestOf(t, b) ==
    \A side \in Sides :
        LET better(p, q) == IF side = "bid" THEN p >= q ELSE p <= q
        IN IF Listed(b, side) = {} THEN t[side] = [price |-> 0, qty |-> 0]
           ELSE \E p \in Listed(b, side) :
                   /\ \A q \in Listed(b, side) : better(Outcome(side, p), Outcome(side, q))
                   /\ t[side] = [price |-> Outcome(side, p), qty |-> b[side][p]]

\* Once every message is handled, what the node last published is the best
\* bid and the best ask of the exchange of at least half a unit, in bps and with
\* their quantities (the zero price and quantity for a side without any); it is
\* not when the exchange has none on either side: then the former top stands.
PublishesBest ==
    LET there == Sized(exchange[Yes])
    IN link = "up" /\ ~spoiled /\ wire = << >> /\ todo = << >> /\ TopOfBook(there) # NoTop =>
        top # NoTop /\ BestOf(top, there)

\* docs/README.md of the Polymarket node: "Maintain local YES order book", when
\* everything is handled and no asset's book is empty.
MaintainsYesBook ==
    (/\ link = "up" /\ ~spoiled /\ wire = << >> /\ todo = << >>
     /\ \A a \in Assets : TopOfBook(Sized(exchange[a])) # NoTop)
        => Mirrors(book, Sized(exchange[Yes]))

\* When the exchange is quiet and the connection no longer breaks, the local
\* book is the exchange's in the end.  On Kalshi and Polymarket the connection
\* must not have fallen silent: their feeds would wait for ever.
CatchesUp ==
    (/\ <>[][exchange' = exchange]_vars
     /\ <>[][link = "up" => link' = "up"]_vars
     /\ venue = "HIP4" \/ <>[](link # "silent"))
        => <>[](spoiled \/ Mirrors(book, Sized(exchange[Yes])))

\* A feed that has died does not pass for healthy: when the exchange is quiet,
\* a node that goes on answering OK has the exchange's book, whatever its
\* connection does.
HealthHonest ==
    <>[][exchange' = exchange]_vars
        => <>[](spoiled \/ Health = "STALE" \/ Mirrors(book, Sized(exchange[Yes])))

\* Though a message may take the book through crossed states, no crossed top is
\* published; on Hyperliquid rounding may make the two prices one.
TopUncrossed ==
    [][top' # top /\ ~spoiled =>
        \/ \E side \in Sides : top'[side].qty = 0
        \/ top'.bid.price < top'.ask.price
        \/ venue = "HIP4" /\ top'.bid.price = top'.ask.price]_vars

\* A snapshot of any depth has the best levels there are, the best first.
SnapshotOrdered ==
    \A side \in Sides, depth \in 1..SnapshotDepth :
        LET levels == GetSnapshot(depth).levels[side]
            worse(p, q) == IF side = "bid" THEN p < q ELSE p > q
        IN /\ \A i, j \in DOMAIN levels : i < j => worse(levels[j].price, levels[i].price)
           /\ \A i \in DOMAIN levels : book[side][levels[i].price] = levels[i].qty
           /\ \A p \in Listed(book, side) :
                 \/ \E i \in DOMAIN levels : levels[i].price = p
                 \/ /\ Len(levels) = depth
                    /\ \A i \in DOMAIN levels : worse(p, levels[i].price)
=============================================================================

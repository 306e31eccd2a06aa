---------------------------- MODULE VenueStream ----------------------------
(***************************************************************************)
(* One venue node and the clients that stream from it.                     *)
(*                                                                         *)
(* The feed goroutine of the node turns venue messages into tops of book   *)
(* and puts them on the node's single `updates` channel.  Every client of  *)
(* StreamTopOfBook has a handler goroutine of its own in the node, and all *)
(* of them receive from that one channel, so the handlers compete: an      *)
(* update goes to one of them.  The aggregator's VenueStreamClient         *)
(* upserts what it receives and reconnects when the stream breaks; the     *)
(* command-line client in "node" mode opens the same RPC.                  *)
(*                                                                         *)
(* A top of book is represented by its number: the n-th one the feed       *)
(* computed is n.  One goroutine stamps the receive time and publishes, so *)
(* numbers order updates as their receive times do.                        *)
(*                                                                         *)
(* An operator whose name starts with Bad is not part of the model: it is  *)
(* the action below it with a plausible bug, for the runs to reject.       *)
(***************************************************************************)
EXTENDS Integers, Sequences

CONSTANTS
    Aggregator,   \* the aggregator's VenueStreamClient for this venue
    OtherClients, \* other clients of the same RPC (cli --mode node)
    Streams,      \* identities of StreamTopOfBook calls; reused once ended
    NoStream,     \* "not connected"
    UpdatesCap,   \* capacity of the updates channel (4096, mock feeds 1024)
    WireCap,      \* messages gRPC flow control lets one stream buffer
    MockMode,     \* TRUE: the mock feeds' blocking send; FALSE: websocket feed
    MaxTop,       \* bound: tops of book computed
    MaxCuts       \* bound: lost connections and node restarts

ASSUME ClientAssumption ==
    Aggregator \notin OtherClients /\ NoStream \notin Streams

ASSUME BoundAssumption ==
    /\ UpdatesCap \in Nat \ {0} /\ WireCap \in Nat \ {0}
    /\ MaxTop \in Nat /\ MaxCuts \in Nat
    /\ MockMode \in BOOLEAN

Clients == {Aggregator} \cup OtherClients

VARIABLES
    top,       \* number of the newest top of book the feed computed
    pending,   \* update the mock feed is blocked sending, 0 when it is not
    updates,   \* the updates channel
    status,    \* state of each stream as the node sees it
    held,      \* update a handler took and has not sent yet, 0 when none
    wire,      \* updates sent on a stream and not yet received
    attached,  \* stream a client is receiving from, or NoStream
    store,     \* the venue's quote in the aggregator's Store, 0 when none
    cuts       \* lost connections and restarts so far

nodeVars   == <<top, pending, updates>>
streamVars == <<status, held, wire>>
clientVars == <<attached, store>>
vars == <<nodeVars, streamVars, clientVars, cuts>>

\* "free": no such call.  "open": both ends up.  "cut": the client is gone
\* and the node has not noticed.  "done": the call's context is cancelled.
StreamStatus == {"free", "open", "cut", "done"}

Init ==
    /\ top = 0 /\ pending = 0 /\ updates = << >>
    /\ status = [s \in Streams |-> "free"]
    /\ held = [s \in Streams |-> 0]
    /\ wire = [s \in Streams |-> << >>]
    /\ attached = [c \in Clients |-> NoStream]
    /\ store = 0 /\ cuts = 0

-----------------------------------------------------------------------------
(* The feed goroutine *)

\* Bad: updates wait in a slice, which has no limit.
BadPublishTopOfBook ==
    /\ ~MockMode
    /\ top < MaxTop
    /\ top' = top + 1
    /\ updates' = Append(updates, top + 1)
    /\ UNCHANGED <<pending, streamVars, clientVars, cuts>>

\* A websocket feed handled a message: the select with a default drops the
\* new top of book when the channel is full.
PublishTopOfBook ==
    /\ ~MockMode
    /\ top < MaxTop
    /\ top' = top + 1
    /\ updates' = IF Len(updates) < UpdatesCap THEN Append(updates, top + 1)
                                               ELSE updates
    /\ UNCHANGED <<pending, streamVars, clientVars, cuts>>

\* Bad: the non-blocking send of the websocket feeds.
BadMockTick ==
    /\ MockMode
    /\ top < MaxTop
    /\ top' = top + 1
    /\ updates' = IF Len(updates) < UpdatesCap THEN Append(updates, top + 1)
                                               ELSE updates
    /\ UNCHANGED <<pending, streamVars, clientVars, cuts>>

\* A tick of a mock feed, whose plain send waits for room in the channel; the
\* book is updated before the wait.
MockTick ==
    /\ MockMode
    /\ pending = 0
    /\ top < MaxTop
    /\ top' = top + 1
    /\ IF Len(updates) < UpdatesCap
       THEN updates' = Append(updates, top + 1) /\ UNCHANGED pending
       ELSE pending' = top + 1 /\ UNCHANGED updates
    /\ UNCHANGED <<streamVars, clientVars, cuts>>

MockUnblock ==
    /\ pending # 0
    /\ Len(updates) < UpdatesCap
    /\ updates' = Append(updates, pending)
    /\ pending' = 0
    /\ UNCHANGED <<top, streamVars, clientVars, cuts>>

-----------------------------------------------------------------------------
(* The StreamTopOfBook handlers *)

\* Bad: an update is skipped when the stream cannot take it at once.
BadHandlerTake(s) ==
    /\ status[s] # "free"
    /\ held[s] = 0
    /\ updates # << >>
    /\ held' = [held EXCEPT ![s] = IF Len(wire[s]) < WireCap THEN Head(updates) ELSE 0]
    /\ updates' = Tail(updates)
    /\ UNCHANGED <<top, pending, status, wire, clientVars, cuts>>

\* The select receives an update.  A handler whose client is gone receives too
\* (select picks either ready case when the context is done).
HandlerTake(s) ==
    /\ status[s] # "free"
    /\ held[s] = 0
    /\ updates # << >>
    /\ held' = [held EXCEPT ![s] = Head(updates)]
    /\ updates' = Tail(updates)
    /\ UNCHANGED <<top, pending, status, wire, clientVars, cuts>>

\* stream.Send to a live client waits for flow control, then succeeds.
HandlerSend(s) ==
    /\ status[s] = "open"
    /\ held[s] # 0
    /\ Len(wire[s]) < WireCap
    /\ wire' = [wire EXCEPT ![s] = Append(@, held[s])]
    /\ held' = [held EXCEPT ![s] = 0]
    /\ UNCHANGED <<nodeVars, status, clientVars, cuts>>

\* Bad: an update that could not be sent goes back on the channel.
BadHandlerSendLost(s) ==
    /\ status[s] = "cut"
    /\ held[s] # 0
    /\ Len(updates) < UpdatesCap
    /\ updates' = Append(updates, held[s])
    /\ held' = [held EXCEPT ![s] = 0]
    /\ UNCHANGED <<top, pending, status, wire, clientVars, cuts>>

\* Sending to a vanished client: until the transport fails the message is
\* buffered and lost; afterwards Send returns an error and the handler returns.
HandlerSendLost(s) ==
    /\ status[s] = "cut"
    /\ held[s] # 0
    /\ held' = [held EXCEPT ![s] = 0]
    /\ UNCHANGED <<nodeVars, status, wire, clientVars, cuts>>

HandlerReturn(s) ==
    /\ \/ status[s] = "done"
       \/ status[s] = "cut" /\ held[s] # 0
    /\ status' = [status EXCEPT ![s] = "free"]
    /\ held' = [held EXCEPT ![s] = 0]
    /\ UNCHANGED <<nodeVars, wire, clientVars, cuts>>

\* The node's transport notices that the client is gone.
ContextDone(s) ==
    /\ status[s] = "cut"
    /\ status' = [status EXCEPT ![s] = "done"]
    /\ UNCHANGED <<nodeVars, held, wire, clientVars, cuts>>

-----------------------------------------------------------------------------
(* The clients *)

\* Bad: a new stream starts with the current top of book, while updates are
\* still queued.
BadConnect(c, s) ==
    /\ attached[c] = NoStream
    /\ status[s] = "free"
    /\ status' = [status EXCEPT ![s] = "open"]
    /\ attached' = [attached EXCEPT ![c] = s]
    /\ wire' = [wire EXCEPT ![s] = <<top>>]
    /\ UNCHANGED <<nodeVars, held, store, cuts>>

\* runOnce dials and opens the stream; Run only calls it again after the
\* previous stream failed.  The handler sends no initial snapshot.
Connect(c, s) ==
    /\ attached[c] = NoStream
    /\ status[s] = "free"
    /\ status' = [status EXCEPT ![s] = "open"]
    /\ attached' = [attached EXCEPT ![c] = s]
    /\ UNCHANGED <<nodeVars, held, wire, store, cuts>>

\* Recv, and for the aggregator the Upsert that follows it, which overwrites
\* the venue's quote whatever its sequence or receive time.
Recv(c) ==
    LET s == attached[c] IN
    /\ s # NoStream
    /\ wire[s] # << >>
    /\ wire' = [wire EXCEPT ![s] = Tail(@)]
    /\ store' = IF c = Aggregator THEN Head(wire[s]) ELSE store
    /\ UNCHANGED <<nodeVars, status, held, attached, cuts>>

\* The connection of client c breaks, or c quits: what was on the wire is
\* lost, and the node's handler lives on until it notices.
Disconnect(c) ==
    LET s == attached[c] IN
    /\ s # NoStream
    /\ cuts < MaxCuts
    /\ cuts' = cuts + 1
    /\ attached' = [attached EXCEPT ![c] = NoStream]
    /\ status' = [status EXCEPT ![s] = "cut"]
    /\ wire' = [wire EXCEPT ![s] = << >>]
    /\ UNCHANGED <<nodeVars, held, store>>

\* The node process dies and is started again: its channel and handlers are
\* gone, the aggregator keeps the quote it has.
NodeRestart ==
    /\ cuts < MaxCuts
    /\ cuts' = cuts + 1
    /\ pending' = 0 /\ updates' = << >>
    /\ status' = [s \in Streams |-> "free"]
    /\ held' = [s \in Streams |-> 0]
    /\ wire' = [s \in Streams |-> << >>]
    /\ attached' = [c \in Clients |-> NoStream]
    /\ UNCHANGED <<top, store>>

-----------------------------------------------------------------------------

HandlerStep(s) ==
    HandlerTake(s) \/ HandlerSend(s) \/ HandlerSendLost(s)
        \/ HandlerReturn(s) \/ ContextDone(s)

Next ==
    \/ PublishTopOfBook \/ MockTick \/ MockUnblock
    \/ \E s \in Streams : HandlerStep(s)
    \/ \E c \in Clients : Recv(c) \/ Disconnect(c) \/ \E s \in Streams : Connect(c, s)
    \/ NodeRestart

Spec == Init /\ [][Next]_vars

\* Goroutines run and live connections make progress.  Nothing is assumed of
\* the venue, of the network, of users, or of when a dead peer is noticed.
Fairness ==
    /\ WF_vars(MockUnblock)
    /\ \A s \in Streams : WF_vars(HandlerTake(s)) /\ WF_vars(HandlerSend(s))
    /\ \A c \in Clients : WF_vars(Recv(c))

FairSpec == Spec /\ Fairness

-----------------------------------------------------------------------------
(* Properties *)

Increasing(s) == \A i, j \in 1..Len(s) : i < j => s[i] < s[j]
Above(n, s) == \A i \in 1..Len(s) : n < s[i]
Below(s, n) == \A i \in 1..Len(s) : s[i] < n

\* Type correctness of the node, its streams and its clients: the feed's
\* goroutine never has more updates waiting than the channel has room for.
TypeOK ==
    /\ top \in Nat /\ pending \in Nat /\ store \in Nat /\ cuts \in Nat
    /\ updates \in Seq(Nat) /\ Len(updates) <= UpdatesCap
    /\ status \in [Streams -> StreamStatus]
    /\ held \in [Streams -> Nat]
    /\ wire \in [Streams -> Seq(Nat)]
    /\ attached \in [Clients -> Streams \cup {NoStream}]

\* A client receives from a call of its own and a call that ended leaves nothing
\* to the one that reuses its identity: so the model has calls, and the proofs
\* need it said.
StreamsExclusive ==
    /\ \A c \in Clients : attached[c] # NoStream => status[attached[c]] = "open"
    /\ \A c, d \in Clients :
          attached[c] = attached[d] /\ attached[c] # NoStream => c = d
    /\ \A s \in Streams : /\ status[s] # "open" => wire[s] = << >>
                          /\ status[s] = "free" => held[s] = 0

QueueOrder ==
    /\ Increasing(updates)
    /\ \A i \in 1..Len(updates) : updates[i] <= top
    /\ ~MockMode => pending = 0
    /\ pending # 0 => pending = top /\ Below(updates, pending)

\* n is older than all that is still to leave the node's feed.
LeftBefore(n) ==
    n <= top /\ Above(n, updates) /\ (pending # 0 => n < pending)

\* Whatever has left the channel is older than whatever is still on it, for
\* every handler at once, and the channel itself is in publication order.
ChannelOrder == QueueOrder /\ \A s \in Streams : LeftBefore(held[s])

StreamOrder(s) ==
    /\ Increasing(wire[s])
    /\ \A i \in 1..Len(wire[s]) :
          /\ 0 < wire[s][i] /\ LeftBefore(wire[s][i])
          /\ held[s] # 0 => wire[s][i] < held[s]

\* n is older than all that stream s is still to deliver.
OlderThanStream(n, s) == Above(n, wire[s]) /\ (held[s] # 0 => n < held[s])

\* Each stream carries its updates in publication order, and the aggregator's
\* quote is older than everything still on its way to it, whichever streams
\* it was received over.
WireOrder ==
    /\ \A s \in Streams : StreamOrder(s)
    /\ LeftBefore(store)
    /\ attached[Aggregator] # NoStream =>
          OlderThanStream(store, attached[Aggregator])

\* A mock feed loses nothing inside the node: the channel holds consecutive
\* updates up to the one the feed published or is blocked on.
MockKeepsAll ==
    MockMode =>
        /\ \A i \in 1..(Len(updates) - 1) : updates[i + 1] = updates[i] + 1
        /\ updates # << >> =>
              updates[Len(updates)] = IF pending = 0 THEN top ELSE top - 1

\* The venue's quote in the aggregator only moves forward: no reconnect, node
\* restart or lingering handler lets an older top of book overwrite a newer
\* one, or the same one be applied twice, though Upsert never looks at it.
QuoteNeverRegresses == [][store' > store]_store

\* The invariant the proofs use: no conjunct is inductive without the others.
IInv == TypeOK /\ StreamsExclusive /\ ChannelOrder /\ WireOrder

\* The whole of it implements the abstract lossy feed.
Feed == INSTANCE LossyFeed WITH source <- top, sink <- store
ImplementsLossyFeed == Feed!Spec

OnlyStream(s) == \A t \in Streams \ {s} : status[t] = "free"
OnItsWay(n, s) ==
    \/ n = pending \/ n = held[s]
    \/ \E i \in 1..Len(updates) : updates[i] = n
    \/ \E i \in 1..Len(wire[s]) : wire[s][i] = n

\* With one stream, the aggregator's, a queued update reaches the aggregator,
\* or something newer does, unless that stream is lost first.
DeliveredToOnlyStream ==
    \A k \in 0..MaxCuts, n \in 1..MaxTop, s \in Streams :
        (/\ cuts = k /\ attached[Aggregator] = s
         /\ OnlyStream(s) /\ OnItsWay(n, s))
            ~> (store >= n \/ cuts > k \/ ~OnlyStream(s))

\* The claim of docs/README.md ("Maintain latest quote per venue") for one
\* venue: while the aggregator stays connected, a queued update reaches it.
LatestQuoteMaintained ==
    \A k \in 0..MaxCuts, n \in 1..MaxTop :
        (/\ cuts = k /\ attached[Aggregator] # NoStream
         /\ \E i \in 1..Len(updates) : updates[i] = n)
            ~> (store >= n \/ cuts > k)
=============================================================================

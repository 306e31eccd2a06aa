# A verification project for the HIP-4 prediction gateway

The gateway reads binary-outcome order books from three venues, normalises
them to basis points (bps) of probability, consolidates them per market, and
routes orders and announces arbitrage on the consolidated book. It is five Go
processes connected by gRPC streams. Nothing is persisted: what makes it hard
is queues that overflow, streams that break and are opened again while their
old handlers live on, and prices that are used some time after they were true.

This directory holds TLA+ modules translated from the Go source, the TLC
configurations that check them on small instances, and TLAPS proofs of the main
safety properties for all values of the constants. `PROJECT.json` maps each
definition to the lines it stands for. Paths below are relative to `src/`.

## 1. Inventory

```
 venue -ws-> feed -> local book -> updates chan -> StreamTopOfBook -gRPC-> VenueStreamClient
                                                                                  |
 cli <- SubmitIntent,     <- BookStore <- streamMarket <-gRPC- StreamConsolidatedBook <- Store
        StreamOpportunities   (router)                          (aggregator)
```

| component | state | operations | interacts with |
|---|---|---|---|
| Websocket feeds `internal/venue/{hip4,kalshi,polymarket}/ws_feed.go` | connection, message sequence | dial and subscribe, read, handle snapshot / book / delta / price_change, reconnect | the venue; writes the local book; puts tops of book on the node's `updates` channel, dropping them when it is full |
| Mock feeds `mock_feed.go` | random walk | one book per tick | the same, but with a send that blocks |
| Local book `internal/book/book.go` | quantity per price and side, time of the last update | `ApplySnapshot`, `SetLevel`, `ApplyQuantityDelta`, `TopOfBook`, `Snapshot`, `IsStale` | written by the feed's goroutine, read by `GetSnapshot` and `Health`; its mutex is held per operation, not per message |
| Price normalisation `kalshi/normalize.go`, `normalize/price.go`, `hip4/ws_feed.go` | none | cents, decimal strings and floats to bps; a NO bid to a YES ask | called by the feeds |
| Venue node server `server.go` | one `updates` channel | `StreamTopOfBook`, `GetSnapshot`, `Health` | every handler receives from the one channel |
| Aggregator's venue client `aggregator/venue_client.go` | connection | `Run`, `runOnce` | one per venue; upserts what it receives |
| Aggregator store and server `aggregator/store.go`, `server.go` | quotes per market and venue, subscribers | `Upsert`, `Subscribe`, `Unsubscribe`, `GetConsolidatedBook`, `StreamConsolidatedBook` | broadcasts under its mutex to buffered channels |
| Router's aggregator client and cache `router/aggregator_client.go`, `store.go` | a stream per market; last book per market | `runOnce`, `streamMarket`, `Upsert`, `Get` | one failed stream cancels the others |
| Selector and scanner `router/selector.go`, `arbitrage/scanner.go` | none | `SelectRoute`, `Scan` | read a cached book |
| Router server `router/server.go`, `opportunity_loop.go` | subscribers, `lastPublished` | `SubmitIntent`, `StreamOpportunities`, `PublishOpportunities`, the 250 ms loop | the cached books |
| Processes `cmd/*/main.go` | a context, a gRPC server | start, signal, `GracefulStop`, exit | each serves streams and, but for nodes, is a client of others'; a server waits for its handlers, and they for their clients |
| Command-line client `cmd/cli/main.go` | none | one-shot calls and streams | second client of every stream |
| Request signing, configuration, logging, generated code | none | - | - |

What is hard, and what makes each part correct:

- **Feeds and local book.** Protocols differ: whole books, deltas that
  accumulate, new sizes several to a message. A handler may fail half way. The
  local book must be the exchange's once all is read, be right again after a
  reconnect, and what is published must be the exchange's best prices.
- **Venue stream.** One channel, competing handlers, handlers of dead clients,
  two kinds of overflow, no initial snapshot. The aggregator overwrites without
  comparing sequence or time, so *order must hold by construction*.
- **Aggregator stream.** Subscribe, the initial read and the loop are separate
  critical sections that Upserts interleave with. No book may be missed
  between them, calls must not leak, and after every failure the client must
  end up with the newest book.
- **Quotes.** Staleness marks, two sort orders, ties in any order. A route must
  take the best fresh price and an opportunity must be real.
- **Gateway.** Marks are computed when a book is built and used later. How old
  can a quote be that the router uses, and is a dead venue ever avoided?
- **Opportunity stream.** A publication is recorded whether or not anyone is
  told; copies wait in channels and handlers while the window runs; handlers end
  while the loop sends. A client must be told of what stands, and not be flooded.
- **Router client, processes.** One failed stream cancels the streams of all
  markets; every goroutine must be able to report its error although only one
  is read, and be joined before the next connection. Processes are started,
  stopped and killed in any order: every stream must come back, none may be
  leaked, and a shutdown must end once clients have left.

## 2. Modules

| module | what it is |
|---|---|
| `LocalBook` | the local book: operators on a function from side and price to quantity |
| `VenueFeed` | a websocket feed, for any of the three protocols, over `LocalBook` |
| `VenueStream` | a venue node's channel and its `StreamTopOfBook` calls, up to the aggregator's quote |
| `LossyFeed` | abstract: what `VenueStream` promises |
| `AggregatorStream` | the aggregator's store, its `StreamConsolidatedBook` calls, and their clients |
| `ResyncFeed` | abstract: what `AggregatorStream` promises a client of a market |
| `Quotes` | how a consolidated book is built from quotes; route and opportunity |
| `Gateway` | `Quotes` composed with a store, a stream, the router's cache and time |
| `Opportunities` | the router's loop, its dedupe window and the `StreamOpportunities` calls |
| `Processes` | processes and the streams between them: start, connection, failure, reconnection, shutdown |
| `VenueFeedProofs`, `VenueStreamProofs`, `AggregatorStreamProofs`, `QuotesProofs`, `GatewayProofs`, `OpportunitiesProofs`, `ProcessesProofs` | theorems on the module of that name |
| `QuotesFacts` | what `QuotesProofs` and `GatewayProofs` share: theorems on `Quotes` |
| `MC*` | instances for TLC |

Definitions whose name starts with `Bad`, and `SkipInitial`, `LeakyReturn`,
`DeafReturn`, `QueueingUpsert`, `AlwaysRoom`, are no part of the model: each is the
definition that follows it with a plausible bug, and the properties are known to
reject them.

### VenueFeed and LocalBook

`venue` is chosen once and selects the protocol. The local book is the
function `book`, with 0 for a price that is not in the map, which is the same
thing as the code deletes quantities that are not positive (`SetLevel`,
`ApplyQuantityDelta`) and skips them in a snapshot (`LevelsOf`). `Connect` is
dial, subscribe and the exchange's answer. A message is a sequence of parts: a
book or a change of one level. `Read` is `ReadMessage`; `Handle` is what is done
for one part, a step of its own because the book's mutex is released between
two of them and a unary call may come between. After an error the rest of the
message (`todo`) is dropped, so a message that fails leaves its earlier changes
applied and publishes nothing. `Publish` is `publishTopOfBook` with the error of
`TopOfBook` on an empty book; a side without orders is published as zeroes.
`fresh` says that the book's last update is at most `staleAfter` old, and `Age`
is that time passing; `GetSnapshot`, for the depth it is asked for, and `Health`,
which change nothing, are functions of the state.

The Hyperliquid and Polymarket feeds keep sizes in units of 1/10000, rounded:
`Units` does what the conversions do to a size, with `PerUnit` sizes of the
exchange's precision in a unit. A level of less than half a unit is dropped, and
a change to such a size deletes the level. The properties therefore compare the
local book with `Sized`, the exchange's book in units, in which such levels are
not there. Kalshi's quantities are whole numbers and are kept as they are.

Of the exchange it is assumed that its book is never crossed, that it sends
what it changed in order, and a snapshot first; messages may be malformed, the
connection may break, or stay open and dead (`FallSilent`). Only the
Hyperliquid feed has a read deadline. Prices are those of the exchange, in its
precision, mapped to bps by `PriceBps`: for Hyperliquid any monotonic map,
which may merge prices; for Kalshi the inversion of NO bids; for Polymarket,
whose ticks are whole bps, the same price.

### VenueStream

A top of book is its number. One goroutine stamps and publishes, so the order
of numbers is that of receive times. `PublishTopOfBook` is the select with a
default of the websocket feeds; `MockTick`/`MockUnblock` the blocking send
of the mock feeds. A handler's loop is `HandlerTake` (receive), then
`HandlerSend`, `HandlerSendLost` or `HandlerReturn`: `held` is the update in
the handler's local variable. A client that leaves makes its call `cut`; the
handler goes on, and may still take updates, until the transport notices
(`ContextDone`); even then select may choose the channel. `Recv` of the
aggregator includes `Upsert`'s overwrite of the quote. Identities of calls
are reused once a handler has returned.

### AggregatorStream

A book is its market and its revision, so `Upsert(m)` makes the next revision
and, atomically as under the mutex, appends it to the channel of **every**
subscriber that has room. The handler's steps are `Subscribe`, `GetInitial`
(`GetConsolidatedBook`, its own critical section), `Send`, then `Take` and
`Send` in a loop; `Take` skips books of other markets. `Return` and
`Unsubscribe` are its end. `Recv` includes the router's `BookStore.Upsert`.
`floor` and `dropped` are history variables for the properties.
The code's `close(ch)` in `Unsubscribe` cannot meet a send as both are under the
mutex; in the model the same atomicity makes `subscribers` the running handlers.
Each market of a router is a client here and may fail on its own. `runOnce`
cancels all streams when one fails, which is several such failures; the
goroutines that do so are in `Processes`.

### Quotes and Gateway

`Quotes` is pure: `Books(tops)` is the set of books that
`buildConsolidatedBookLocked` can return, all orders of equal prices included,
as map iteration and the unstable sort allow; `RouteQuote` and `Scan` are the selector and the
scanner. `IsStale` leaves out two other parts of the code's condition (`store.go:105`), which are
false in every state reached here: the `Stale` flag an update carries, as a node computes it
right after a message, and the check for a zero time, as every feed stamps what it publishes. The second half says what these should be, in terms of the venues' own
quotes. A node stamps a quote with its own clock and the aggregator measures the
age with its own: `Skew[v]` is the aggregator's clock minus node v's, and
`Measured` the age the aggregator sees. `Gateway` has one market: `Upsert`, `Connect` (with its initial book),
`Deliver` and `Disconnect` summarise `AggregatorStream` as a bounded pipe, and
`Tick` ages every quote and book. The router keeps its book through every disconnection,
as `BookStore` does.

### Opportunities

An opportunity is its key (`opportunityKey`), and `standing` is what `Scan`
finds in the cached book of each market, which is at most one; `BookUpsert`
changes it freely, as `Quotes` says what `Scan` finds. Each market of a round of the loop is
`LoopScan` (`store.Get` and `Scan`, outside the mutex) and
`PublishOpportunities` (the critical section), so books and calls change
between the two. Times since an event are kept instead of times: `last` for
`lastPublished`, the age of each copy on its way, `told` for what a call was
sent, all capped at the window, beyond which no comparison tells them apart; no
entry in `lastPublished` and an expired one have the same effect. The ticker
may fire at any time. A call is `Open`, `Subscribe`, then `Take` and `Send` in
a loop, `Return` and `Unsubscribe`. As in `AggregatorStream` a client that left
is `cut` until the transport notices. The network is left out: `Send`
is the end of a call's path here. A restarted router is a
new `Init`, as the cli's client does not reconnect.

### Processes

`proc` is the life of each process. `Signal` cancels its context and enters
`GracefulStop`; `Exit` is possible once no handler of a stream it serves is left;
`Kill` ends it anywhere. `open` has the streams both ends of which are there, and
`lingering` those whose client has left while the handler does not know:
`HandlerEnds` is the handler finding out. `venueClient` is where each
`VenueStreamClient.Run` is: dialing, streaming, waiting to retry, or stopped.
For the `AggregatorClient`, `phase` is where `Run` and `runOnce` are, `goroutine`
where the goroutine of each market is, and `reports` the number of errors in
`errCh`: `Spawn`, then `Call`, `CallFails`, `StreamFails` and `Report` per market,
`Cancel` when one error is read or the context is done, `Join` for `wg.Wait`. A `Call`
under way may still succeed after `Cancel`; its stream then ends by `StreamFails`. All
markets share a connection and break together; a stream may also fail on its
own, when its call is refused. What the streams carry is left to the modules above.

## 3. Runs

Every property of a passing run is also known to fail for a faulty variant of
some definition of the model (`mutants` in `PROJECT.json`).

| run | instance | shows |
|---|---|---|
| `feeds` | all three protocols; three prices, of which Hyperliquid's rounding merges two; Kalshi quantities up to 2 so that a delta differs from a quantity; on the others a quantity of less than half a unit; up to two changes to a message; one malformed message at a time; any number of breaks; snapshots of one and two levels; 631 thousand states | `InSync`: replaying the wire on the local book gives the exchange's book in units, after any history of failures. `SettledLevels`: in the middle of a message only levels of which a change is still to be handled differ from the exchange's. `PublishesBest`: with nothing left to handle, what was published is the exchange's best bid and ask of at least half a unit. `TopUncrossed`: no crossed top on the way. `SnapshotOrdered`: `GetSnapshot` has the best levels, the best first, in the middle of a message too. `CatchesUp`, `HealthHonest` (liveness): a quiet exchange's book is there in the end, or the node answers `STALE` |
| `polymarket_assets` | Polymarket with two assets, as in `configs/polymarket.yaml` | `MaintainsYesBook` is violated: both tokens have orders, and the NO token's book, the second of the array, replaces the YES token's |
| `venue_ws` | two calls, aggregator and cli, channel and wire of 2, five tops of book, two cuts or restarts | handlers compete and linger and the channel overflows; the channel holds no more than its capacity (in `TypeOK`), order is kept (`ChannelOrder`, `WireOrder`), quotes never regress, `LossyFeed` is implemented |
| `venue_mock` | the same, blocking send | nothing is lost inside the node; delivery while the aggregator is the only client (liveness) |
| `venue_latest` | no failures, two clients | `LatestQuoteMaintained` is violated |
| `aggregator_router` | two markets, a router's client, two calls, channel of 2, three Upserts of its market, one cut or restart | `NoGap`, `ChannelOrder`, `FloorKept`; `EventuallyCurrent` and `CallsEnd` (liveness) |
| `aggregator_clients` | a second client that wants all markets, channel of 1 | `CallsExclusive`; `ResyncFeed` is implemented for every client and market |
| `quotes` | three venues, three prices, missing sides, both sides of the staleness limit, a fee and a slippage of one each, all orders of ties | `RouteIsBest`, `OpportunityIsBest`, `OpportunityFound` |
| `gateway` | a cheap and a dear venue, updates up to two ticks old with a limit of one, the aggregator's clock a tick behind one venue's and a tick ahead of the other's, pipe of 1 | `StalenessBounded`; `DeadVenueAvoided` (liveness) |
| `gateway_stale` | the same, clocks agree | `RouterAvoidsStaleQuotes` is violated |
| `opportunities` | two markets with an opportunity each, one call whose identity is reused, window of 2, channel of 2, any number of disconnections | `CallsOK`, `OncePerWindow`; `StandingAnnounced`, `CallsEnd` (liveness) |
| `processes` | a venue node, the aggregator, a router with two markets, a user at the router; any number of starts, signals, kills, broken connections | `Joined`, `StreamsOwned`, `ReportsFit`: no goroutine outlives its `runOnce`, no stream is leaked, no goroutine blocks on `errCh`. `RunOnceReturns`, `StreamsReopen`, `ShutdownEnds` (liveness) |

**Why these bounds.** Two calls suffice for a client to race its own former
handler or another client's; a third adds only more of the same pair. In `opportunities` one call does:
calls share only `last`, which none of them writes, and the theorems hold for any set of calls. A channel
of 1 or 2 overflows within the bounded number of updates and still orders two elements.
One or two failures include a failure during the recovery from another where
it matters (`venue_*`); in `feeds`, `opportunities` and `processes` failures are unbounded.
Two markets are the least for which an error is reported that nobody reads; venue
clients do not share anything, so one node is enough. In `feeds` each protocol
has its own bounds (`MCQuantities`, `MCDepth`, ...): Kalshi's quantities and two messages
under way for its deltas, all prices and two levels a side for Hyperliquid's
merging and two-level books. With `PerUnit` 3, quantity 1 is less than half a unit
and 2 is one; each venue but Kalshi has both at one price, so that a level
passes from one to the other and the best level may be the one that is dropped. Ages stop at
`AgeCap`, which is above every age the properties compare with. Bounds of
counters (`MaxTop`, `MaxRev`, `MaxCuts`) are guards, named as bounds where they
are declared; the safety theorems hold for all their values.
`CHECK_DEADLOCK FALSE` is used where a bound on updates lets the model stop.

**Fairness.** Weak fairness of goroutines' steps (handlers, feeds' blocked
sends, receiving on a live connection, reconnecting after a delay, the read
deadline of Hyperliquid's feed), as the Go scheduler and gRPC's transport
provide. Nothing is assumed of venues, users, operators or the network: a
liveness property that needs a quiet exchange, a connection that stays up or a
process that is not killed says so in its own premise. Only `Processes` assumes
that the transport notices in the end that a peer is gone (weak fairness of
`HandlerEnds`), without which no `GracefulStop` would end. In `VenueFeed` fairness
is stated on the part of an action that tells it apart (`Dial`, `ReadMessage`,
`Handling`), and time is the disjunction that the book is updated again and
again or found stale again and again. `Gateway` and `Opportunities` assume that
time passes.

## 4. Proofs

All theorems hold for every value of the constants that satisfies the named
assumptions of the modules (`ClientAssumption`, `BoundAssumption`,
`NameAssumption`, `NoBookAssumption`, `QuotesAssumption`, `GatewayAssumption`,
`OpportunityAssumption`, `BookAssumption`, `FeedAssumption`, `SpecialAssumption`,
`PriceAssumption`, `ProcessAssumption`),
which say that sentinels are not members of the sets they are sentinels for,
that capacities are positive, that names of streams and processes differ, that
a higher Hyperliquid price is not lower in bps (outcome prices are scaled and
rounded; a test asset in synthetic mode must not trade on both sides of 1), and
that `AgeCap` is above every age a comparison tells apart.

- **`VenueStreamProofs`**: `TypeOK`, `ChannelOrder`,
  `WireOrder`, `QuoteNeverRegresses`, `MockKeepsAll`, and that the specification
  implements `LossyFeed`. `WireOrder` alone is not inductive: that an update
  taken by a handler is newer than everything on that handler's wire needs
  that everything that left the channel is older than what is on it
  (`ChannelOrder`); that a new call of the aggregator brings nothing older than
  its quote needs that a free call has an empty wire and holds nothing
  (`StreamsExclusive`, which is no result: it says how the model hands out calls).
  `IInv` is their conjunction. The regress of a quote is
  excluded by one fact: a single channel, left in order, and a client that
  receives over one live call.
- **`AggregatorStreamProofs`**: `TypeOK`, `CallsExclusive`, `ChannelOrder`,
  `NoGap`, `FloorKept`, and that every client's view of every market implements
  `ResyncFeed`. `NoGap` follows the newest book through channel, handler and
  wire: `CaughtUp` says where it is in each state of the pipeline, and its
  induction needs `ChannelOrder` (when the channel's last book of the market is
  taken, it is the newest) and `CallsExclusive` (no other client consumes it).
- **`QuotesFacts`**: for all venues, prices, quantities, ages and orders of
  ties, `BestRoute`, `SoundScan`, `CompleteScan`; **`QuotesProofs`** gives with them
  `RouteIsBest`, `OpportunityIsBest` and `OpportunityFound` for the specification. The argument: a side is a
  sequence of exactly the quotes that qualify, sorted; the first one that is
  healthy is therefore no worse than any other healthy one.
- **`GatewayProofs`**: `TypeOK`, with the capacity of the pipe, and `StalenessBounded`. The latter needs the
  invariant that in *every* book, on the way or cached, each quote not marked
  stale is no older than its venue's limit (`QuoteStaleAfter - Skew[v]`, which is
  not negative if such a quote exists) and the book's age together: true when
  built, and a tick adds the same to both sides, even at the cap.
- **`OpportunitiesProofs`**: `TypeOK`, with the capacity of the channels, `CallsOK`, `OncePerWindow`. That at most
  one copy is from the last window is not inductive: a publication adds a new
  one. It is due only when `last` is a window old, and `Recorded` says that no copy anywhere
  is younger than `last`, so all earlier ones are then a window old. `CallsOK`
  gives that a new call starts with nothing of the former one.
- **`VenueFeedProofs`**: `TypeOK`, `SnapshotOrdered`, and, when one asset is
  subscribed to, `InSync`, `SettledLevels`, `PublishesBest` and `TopUncrossed`, for every
  precision of sizes (`PerUnit`). For the first, each
  handler keeps the type of the book and of the top, which for `Best` needs that
  a nonempty finite set of prices has a maximum and a minimum in it. For the
  second, the rank of a price among those of its side is a bijection to
  positions, so `Sorted` has each of the best prices once and in order.

  `InSync` speaks of the book after all that is left to handle, which says
  nothing of the steps on the way. The inductive invariant is `SyncInv`: unless a
  message was malformed, there is a chain of books the exchange can have, `bs`,
  such that the rest of the message in hand leads the local book to `bs[1]`
  (`Rest`), the i-th message on the wire leads from `bs[i]` to `bs[i + 1]`
  (`Leads`), and the last one is the exchange's present book while the connection
  is up. What is left of a message of several changes leads from a book that
  mirrors a mix of two of the exchange's, the levels already handled from the
  new one (`Mix`); this holds for every order of the changes, and is where the
  local book may be crossed. A whole book leads from anything, which is how a
  new connection, and on Hyperliquid the next message, repairs what was lost.
  `PartLeads` says that handling a part keeps `Rest`, and that a top is
  published only of a mirror of `bs[1]`: with the exchange's book uncrossed and
  the conversion of prices monotone, `TopUncrossed` follows; with nothing left,
  `PublishesBest` does. For `SettledLevels`, the books of the chain agree at a price that no
  message on the wire touches, and the mix agrees with `bs[1]` where none of the changes left
  does (`LevelsSettled`). For `InSync`, `PartByPart` and `MessageByMessage` show that
  the folds `Handled` and `Replayed` are the ends of runs of single steps, and
  `Steps` carries the chain along such a run: it is induction over a finite range
  for a set, proved from its least counterexample, since the library's theorem of
  induction takes an operator.

  `OneAsset`, the hypothesis of these four, holds always on Hyperliquid and Kalshi;
  on Polymarket it says that no asset is configured but the YES token. It cannot
  be left out: with a second asset the book is not the YES token's
  (`MaintainsYesBook`, below).
- **`ProcessesProofs`**: `TypeOK` (which no run checks on its own), `Joined`,
  `StreamsOwned`, `ReportsFit`. The last is
  inductive as stated only with the others: each goroutine reports once
  (`Unfinished` loses what `reports` gains), and a new connection starts
  from no reports because all goroutines of the former one are joined.

**Model-checked only**: the liveness properties (the prover does not do
liveness under fairness or ENABLED): `DeliveredToOnlyStream`, `EventuallyCurrent`,
`CallsEnd` of both streams, `DeadVenueAvoided`, `StandingAnnounced`, `CatchesUp`,
`HealthHonest`, `RunOnceReturns`, `StreamsReopen` and `ShutdownEnds`; and the violations below. Every
invariant and every action property that a run checks is proved.

## 5. What was found

1. `LatestQuoteMaintained` (`venue/*/server.go`, the receive in
   `StreamTopOfBook`). docs/README.md:103 has the aggregator "Maintain latest
   quote per venue". Handlers share one channel, so with a second client
   connected, such as `cli --mode node`, updates go to it *instead* of the aggregator.
2. `RouterAvoidsStaleQuotes` (`aggregator/store.go:105`).
   docs/architecture.md:156: "Router avoids stale quotes automatically". Marks
   are set when a book is built, so when no venue publishes the router goes on
   using quotes beyond the limit. What does hold is `StalenessBounded`, and
   `DeadVenueAvoided` when another venue of the market publishes.
3. `MaintainsYesBook` (`venue/polymarket/ws_feed.go:219`). docs/README.md:79:
   "Maintain local YES order book". The handlers ignore asset_id, and the
   configuration subscribes to two: of the books that answer the subscription the
   second replaces the first, so that with the NO token's book second the local
   book has the NO token's orders. The property says so of two tokens that both have
   orders. There is a second mechanism, which its premise leaves out: when the NO
   token's book is empty and comes first, `TopOfBook` fails (ErrEmptyBook,
   `polymarket/ws_feed.go:219-221`), the rest of the array with the YES book in it
   is dropped (`:161-165`), and the local book is empty.

Observed while modelling, and reflected in how properties are stated:

- When a venue's book becomes empty nothing is published and the former top
  stands until it is stale; `PublishesBest` excludes that case.
- A subscriber's view may move *back* briefly: the initial book is read after
  the subscription, so queued books may be older. `ResyncFeed` allows this, down
  to the floor of the subscription.
- A restarted aggregator sends empty books that replace what clients had.
- The `Stale` flag that venue nodes publish is always false, as it is computed
  right after a message; only the aggregator's own check matters.
- A dislocation between two venues is overlooked when a third one's own book is
  crossed or locked and has both best prices; `OpportunityFound` has the
  premise `Uncrossed`.
- Kalshi and Polymarket never notice a connection that is open but dead.
- A level of a size below 0.00005 is dropped by the Hyperliquid and Polymarket feeds
  (`hip4/ws_feed.go:280-283`, `polymarket/ws_feed.go:245-248` and `287-290`), though it may be the
  best: what is published is the best price with at least half a unit, and
  `InSync`, `SettledLevels`, `PublishesBest` and the liveness properties are stated in units.
- A publication is recorded though no subscriber's channel had room, or none was
  there. A late subscriber is told only after the window, and one whose channel
  is full each time may never be: `StandingAnnounced` needs its second disjunct.
- The dedupe window is between publications: copies that waited in a channel
  may arrive back to back.
- Sequence numbers are passed on and displayed, and never compared.
- A node or an aggregator that got SIGTERM runs on while one client stays, and
  accepts no calls; further signals have no effect, as `signal.NotifyContext` goes
  on catching them. `ShutdownEnds` says that a client is the only cause.
- A stopping aggregator has cancelled its venue clients at once: those who stay
  are served a book that no longer changes.
- Clocks: a venue node's clock ahead of the aggregator's makes its quotes look
  younger, and `StalenessBounded` is weaker by the difference; a clock behind makes
  fresh quotes stale, without a message, when it is behind by the limit.
- Levels of Kalshi's mock book below the best may be outside 0..10000 bps.

## 6. Not modelled, and why

- The quantity of a route or opportunity (a minimum of two numbers), sequence
  numbers and message formats: data no property tells apart.
- Drift of clocks: `Skew` is constant. A drift is a change of limit over hours,
  the window is seconds.
- The ping goroutine of the Hyperliquid feed, whose effect is the read deadline;
  that one is left behind by each reconnection is a leak without other effect.
- The levels of mock books below the best, which only `GetSnapshot` shows.
- Printing and the unary calls of the cli; conversions of `normalize` that
  nothing calls.
- Request signing, configuration, logging, generated code: no state.
- The channel of `VenueStream` is left out of `VenueFeed` (its `top` is what is
  offered to the channel); the two compose at that point.
- What streams carry is left out of `Processes`, and which goroutine broke a
  stream out of the stream modules.

## 7. Plan

Order of work, the most important behaviour first; 1-10 are done.

1. `VenueStream` over `LossyFeed`, with proofs.
2. `AggregatorStream` over `ResyncFeed`, with proofs.
3. `Quotes`: pure algorithms against their reference definitions, with proofs.
4. `Gateway`, composing `Quotes` with streams and time, with proofs.
5. `LocalBook` and `VenueFeed`.
6. `Opportunities`, with proofs.
7. `Processes`: the router client's goroutines, start and shutdown, with proofs.
8. `VenueFeed` in steps of one part of a message, `GetSnapshot` and `Health`, and
   proofs of its type invariant and of `SnapshotOrdered`.
9. Clock skew in `Quotes` and `Gateway`.
10. `InSync`, `PublishesBest` and `TopUncrossed` proved, with what is left on the wire
    described by a chain of books.
11. Left: that `Processes` refines the independent clients of `AggregatorStream`
    and `VenueStream` (a mapping from `open` and `lingering` to their calls).

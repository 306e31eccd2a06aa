--------------------------- MODULE Opportunities ---------------------------
(***************************************************************************)
(* The router's opportunity stream: the loop that scans the cached books,  *)
(* the publication with its dedupe window, and the StreamOpportunities     *)
(* calls.                                                                  *)
(*                                                                         *)
(* An opportunity is its key: market, venues and prices.  What the scanner *)
(* finds in a market's cached book (Quotes) is `standing`.  Times since an  *)
(* event are kept instead of times, up to the window; the 250 ms of the    *)
(* loop's ticker are any time.  Every call is a client of its own, as      *)
(* cli --mode opportunities is, which does not reconnect; the network is   *)
(* left out, as AggregatorStream has it.                                   *)
(*                                                                         *)
(* An operator whose name starts with Bad is a faulty variant.             *)
(***************************************************************************)
EXTENDS Integers, Sequences

CONSTANTS
    Opps,          \* opportunities
    MarketOf,      \* the market of each
    Markets,       \* cfg.Markets, a sequence
    AllMarkets,    \* the empty canonical_market_id
    NoOpp,
    Calls,         \* identities of calls; reused once ended
    DedupeWindow,  \* 2 s
    ChanCap        \* capacity of a subscriber's channel (1024)

MarketSet == {Markets[i] : i \in 1..Len(Markets)}

Ages == 0..DedupeWindow

\* An opportunity as it was published, with the time since then.
Copies == [opp : Opps, age : Ages]

ASSUME OpportunityAssumption ==
    /\ Markets \in Seq(MarketSet) /\ AllMarkets \notin MarketSet
    /\ MarketOf \in [Opps -> MarketSet]
    /\ NoOpp \notin Opps \cup Copies
    /\ DedupeWindow \in Nat \ {0} /\ ChanCap \in Nat \ {0}

VARIABLES
    standing,     \* what the scanner finds in each market's cached book
    todo,         \* markets the loop has still to look at in this round
    found,        \* the opportunity it is about to publish, or NoOpp
    last,         \* time since lastPublished; the window if there is none
    subscribers,  \* calls whose channel is in Server.subscribers
    chan,         \* the channel of each call
    missed,       \* opportunities whose last copy found a call's channel full
    pc,           \* where each call's handler is
    req,          \* market each call asked for
    held,         \* copy a handler is about to send, or NoOpp
    link,         \* connection of each call: "up", "cut" or "done"
    told          \* time since publication of the last copy each call was sent

loopVars   == <<todo, found>>
serverVars == <<last, subscribers, chan, missed>>
callVars   == <<pc, req, held, link, told>>
vars == <<standing, loopVars, serverVars, callVars>>

Init ==
    /\ standing = [m \in MarketSet |-> NoOpp]
    /\ todo = << >> /\ found = NoOpp
    /\ last = [o \in Opps |-> DedupeWindow]
    /\ subscribers = {}
    /\ chan = [h \in Calls |-> << >>]
    /\ missed = [h \in Calls |-> {}]
    /\ pc = [h \in Calls |-> "free"]
    /\ req = [h \in Calls |-> AllMarkets]
    /\ held = [h \in Calls |-> NoOpp]
    /\ link = [h \in Calls |-> "done"]
    /\ told = [h \in Calls |-> [o \in Opps |-> DedupeWindow]]

-----------------------------------------------------------------------------
(* The books, the clock and the loop *)

\* A book is cached.
BookUpsert(m) ==
    /\ \E o \in {o \in Opps : MarketOf[o] = m} \cup {NoOpp} :
          standing' = [standing EXCEPT ![m] = o]
    /\ UNCHANGED <<loopVars, serverVars, callVars>>

Older(n) == IF n < DedupeWindow THEN n + 1 ELSE n

AgedCopy(c) == IF c = NoOpp THEN NoOpp ELSE [c EXCEPT !.age = Older(@)]

Tick ==
    /\ last' = [o \in Opps |-> Older(last[o])]
    /\ chan' = [h \in Calls |-> [i \in DOMAIN chan[h] |-> AgedCopy(chan[h][i])]]
    /\ held' = [h \in Calls |-> AgedCopy(held[h])]
    /\ told' = [h \in Calls |-> [o \in Opps |-> Older(told[h][o])]]
    /\ UNCHANGED <<standing, loopVars, subscribers, missed, pc, req, link>>

\* The ticker fires.
LoopTick ==
    /\ todo = << >> /\ found = NoOpp
    /\ todo' = Markets
    /\ UNCHANGED <<standing, found, serverVars, callVars>>

\* store.Get, and Scan of the book it returned.
LoopScan ==
    /\ todo # << >> /\ found = NoOpp
    /\ found' = standing[Head(todo)]
    /\ todo' = Tail(todo)
    /\ UNCHANGED <<standing, serverVars, callVars>>

\* Bad: one tick too early.
BadDue(o) == last[o] + 1 >= DedupeWindow

Due(o) == last[o] >= DedupeWindow

\* Bad: copies wait in a slice, which has no limit.
AlwaysRoom(h) == TRUE

HasRoom(h) == Len(chan[h]) < ChanCap

Broadcast(o) ==
    /\ chan' = [h \in Calls |-> IF h \in subscribers /\ HasRoom(h)
                                THEN Append(chan[h], [opp |-> o, age |-> 0])
                                ELSE chan[h]]
    /\ missed' = [h \in Calls |-> IF h \notin subscribers THEN missed[h]
                                  ELSE IF HasRoom(h) THEN missed[h] \ {o}
                                  ELSE missed[h] \cup {o}]

\* Bad: an opportunity that is not due is recorded as published, too.
BadPublishOpportunities ==
    /\ found # NoOpp
    /\ last' = [last EXCEPT ![found] = 0]
    /\ IF Due(found) THEN Broadcast(found) ELSE UNCHANGED <<chan, missed>>
    /\ found' = NoOpp
    /\ UNCHANGED <<standing, todo, subscribers, callVars>>

\* The critical section of PublishOpportunities.
PublishOpportunities ==
    /\ found # NoOpp
    /\ IF Due(found)
       THEN last' = [last EXCEPT ![found] = 0] /\ Broadcast(found)
       ELSE UNCHANGED <<last, chan, missed>>
    /\ found' = NoOpp
    /\ UNCHANGED <<standing, todo, subscribers, callVars>>

-----------------------------------------------------------------------------
(* The StreamOpportunities calls *)

Open(h) ==
    /\ pc[h] = "free" /\ link[h] = "done"
    /\ pc' = [pc EXCEPT ![h] = "start"]
    /\ link' = [link EXCEPT ![h] = "up"]
    /\ \E m \in MarketSet \cup {AllMarkets} : req' = [req EXCEPT ![h] = m]
    /\ told' = [told EXCEPT ![h] = [o \in Opps |-> DedupeWindow]]
    /\ UNCHANGED <<standing, loopVars, serverVars, held>>

Subscribe(h) ==
    /\ pc[h] = "start"
    /\ pc' = [pc EXCEPT ![h] = "loop"]
    /\ subscribers' = subscribers \cup {h}
    /\ chan' = [chan EXCEPT ![h] = << >>]
    /\ missed' = [missed EXCEPT ![h] = {}]
    /\ UNCHANGED <<standing, loopVars, last, req, held, link, told>>

Wanted(h, o) == req[h] = AllMarkets \/ MarketOf[o] = req[h]

\* The select receives an opportunity; one of another market is skipped.
Take(h) ==
    LET copy == Head(chan[h]) IN
    /\ pc[h] = "loop" /\ chan[h] # << >>
    /\ chan' = [chan EXCEPT ![h] = Tail(@)]
    /\ IF Wanted(h, copy.opp)
       THEN held' = [held EXCEPT ![h] = copy] /\ pc' = [pc EXCEPT ![h] = "send"]
       ELSE UNCHANGED <<held, pc>>
    /\ UNCHANGED <<standing, loopVars, last, subscribers, missed, req, link, told>>

Sent(h) ==
    /\ pc[h] = "send"
    /\ held' = [held EXCEPT ![h] = NoOpp]
    /\ pc' = [pc EXCEPT ![h] = "loop"]
    /\ UNCHANGED <<standing, loopVars, serverVars, req, link>>

\* stream.Send to a live client, and to one that is gone before the transport
\* has noticed.
Send(h) ==
    /\ link[h] = "up" /\ Sent(h)
    /\ told' = [told EXCEPT ![h][held[h].opp] = held[h].age]

SendLost(h) == link[h] = "cut" /\ Sent(h) /\ UNCHANGED told

\* Bad: the select does not wait for the context.
DeafReturn(h) ==
    /\ pc[h] = "send" /\ link[h] # "up"
    /\ pc' = [pc EXCEPT ![h] = "return"]
    /\ held' = [held EXCEPT ![h] = NoOpp]
    /\ UNCHANGED <<standing, loopVars, serverVars, req, link, told>>

\* Send returns an error, or the select sees the context done.
Return(h) ==
    /\ \/ pc[h] = "send" /\ link[h] # "up"
       \/ pc[h] = "loop" /\ link[h] = "done"
    /\ pc' = [pc EXCEPT ![h] = "return"]
    /\ held' = [held EXCEPT ![h] = NoOpp]
    /\ UNCHANGED <<standing, loopVars, serverVars, req, link, told>>

\* Bad: the channel is closed and stays among the subscribers.
BadUnsubscribe(h) ==
    /\ pc[h] = "return"
    /\ pc' = [pc EXCEPT ![h] = "free"]
    /\ UNCHANGED <<standing, loopVars, serverVars, req, held, link, told>>

\* The deferred delete and close.
Unsubscribe(h) ==
    /\ pc[h] = "return"
    /\ subscribers' = subscribers \ {h}
    /\ pc' = [pc EXCEPT ![h] = "free"]
    /\ UNCHANGED <<standing, loopVars, last, chan, missed, req, held, link, told>>

\* The client quits or its connection breaks; the router's transport notices.
Disconnect(h) ==
    /\ link[h] = "up"
    /\ link' = [link EXCEPT ![h] = "cut"]
    /\ UNCHANGED <<standing, loopVars, serverVars, pc, req, held, told>>

ContextDone(h) ==
    /\ link[h] = "cut"
    /\ link' = [link EXCEPT ![h] = "done"]
    /\ UNCHANGED <<standing, loopVars, serverVars, pc, req, held, told>>

-----------------------------------------------------------------------------

CallStep(h) ==
    \/ Open(h) \/ Subscribe(h) \/ Take(h) \/ Send(h) \/ SendLost(h)
    \/ Return(h) \/ Unsubscribe(h) \/ Disconnect(h) \/ ContextDone(h)

Next ==
    \/ \E m \in MarketSet : BookUpsert(m)
    \/ Tick \/ LoopTick \/ LoopScan \/ PublishOpportunities
    \/ \E h \in Calls : CallStep(h)

Spec == Init /\ [][Next]_vars

\* Time passes, and goroutines run; nothing is assumed of books and clients.
Fairness ==
    /\ WF_vars(Tick) /\ WF_vars(LoopTick)
    /\ WF_vars(LoopScan) /\ WF_vars(PublishOpportunities)
    /\ \A h \in Calls :
          /\ WF_vars(Subscribe(h)) /\ WF_vars(Take(h)) /\ WF_vars(Send(h))
          /\ WF_vars(Return(h)) /\ WF_vars(Unsubscribe(h))

FairSpec == Spec /\ Fairness

-----------------------------------------------------------------------------
(* Properties *)

Stages == {"free", "start", "loop", "send", "return"}

\* Type correctness of the loop, the server and its calls: no more copies wait
\* for a client than its channel has room for.
TypeOK ==
    /\ standing \in [MarketSet -> Opps \cup {NoOpp}]
    /\ todo \in Seq(MarketSet) /\ found \in Opps \cup {NoOpp}
    /\ last \in [Opps -> Ages]
    /\ subscribers \subseteq Calls
    /\ chan \in [Calls -> Seq(Copies)] /\ \A h \in Calls : Len(chan[h]) <= ChanCap
    /\ missed \in [Calls -> SUBSET Opps]
    /\ pc \in [Calls -> Stages]
    /\ req \in [Calls -> MarketSet \cup {AllMarkets}]
    /\ held \in [Calls -> Copies \cup {NoOpp}]
    /\ link \in [Calls -> {"up", "cut", "done"}]
    /\ told \in [Calls -> [Opps -> Ages]]

\* The channels of the server are those of the running handlers.
Registered == subscribers = {h \in Calls : pc[h] \in {"loop", "send", "return"}}

HandlerOK(h) ==
    /\ held[h] # NoOpp <=> pc[h] = "send"
    /\ pc[h] = "start" => \A o \in Opps : told[h][o] = DedupeWindow

\* No opportunity is sent on a closed channel: a call is a subscriber from
\* Subscribe to the end of its handler; and a call that begins has nothing of
\* the call that had its identity before.
CallsOK == Registered /\ \A h \in Calls : HandlerOK(h)

\* A copy of opportunity o that was published less than a window ago.
Young(copy, o) == copy # NoOpp /\ copy.opp = o /\ copy.age < DedupeWindow

Once(h, o) ==
    /\ \A i, j \in 1..Len(chan[h]) :
          Young(chan[h][i], o) /\ Young(chan[h][j], o) => i = j
    /\ \A i \in 1..Len(chan[h]) :
          Young(chan[h][i], o) => ~Young(held[h], o) /\ told[h][o] = DedupeWindow
    /\ Young(held[h], o) => told[h][o] = DedupeWindow

\* No copy is younger than lastPublished says.
Recorded(h, o) ==
    /\ \A i \in 1..Len(chan[h]) : chan[h][i].opp = o => last[o] <= chan[h][i].age
    /\ held[h] # NoOpp /\ held[h].opp = o => last[o] <= held[h].age
    /\ last[o] <= told[h][o]

\* Of the copies of an opportunity that a call was sent, holds or has queued
\* at most one was published within the last window, and none later than was
\* recorded: whatever the loop, the handlers and the channel do, a client is
\* told of it once per window.
OncePerWindow == \A h \in subscribers, o \in Opps : Once(h, o) /\ Recorded(h, o)

\* The invariant of the proofs.
IInv == TypeOK /\ CallsOK /\ OncePerWindow

\* An opportunity that stands is sent again and again to every call that
\* stays, also to one that began within a window of the last publication,
\* which was recorded though the call was not told; unless the call's channel
\* is full again and again when it is published.
StandingAnnounced ==
    \A h \in Calls, o \in Opps :
        <>[](link[h] = "up" /\ Wanted(h, o) /\ standing[MarketOf[o]] = o)
            => \/ []<><<Send(h) /\ held[h].opp = o>>_vars
               \/ []<>(o \in missed[h])

\* A call whose end the router has noticed is unsubscribed.
CallsEnd == \A h \in Calls : link[h] = "done" ~> pc[h] = "free"
=============================================================================

------------------------- MODULE VenueStreamProofs -------------------------
(***************************************************************************)
(* Proofs about VenueStream, for any clients, streams, capacities, mode    *)
(* and bounds.  IInv is inductive; every safety property TLC checks on     *)
(* small instances follows from it.                                        *)
(***************************************************************************)
EXTENDS VenueStream, SequenceTheorems, TLAPS

\* A queue in publication order stays so when something newer is appended.
LEMMA AppendOrder ==
    ASSUME NEW q \in Seq(Nat), NEW e \in Nat, Increasing(q), Below(q, e)
    PROVE  Increasing(Append(q, e))
<1>1. /\ Len(q) \in Nat /\ Len(Append(q, e)) = Len(q) + 1
      /\ \A i \in 1..Len(q) : Append(q, e)[i] = q[i]
      /\ Append(q, e)[Len(q) + 1] = e
    BY AppendProperties
<1> QED BY <1>1 DEF Increasing, Below

\* What is older than a queue and than e is older than the queue with e.
LEMMA AppendAbove ==
    ASSUME NEW q \in Seq(Nat), NEW e \in Nat, NEW n \in Nat,
           Above(n, q), n < e
    PROVE  Above(n, Append(q, e))
    BY AppendProperties DEF Above

\* Removing the oldest update of an ordered queue: the rest is ordered, newer
\* than the one removed, and newer than whatever was older than the queue.
LEMMA TailOrder ==
    ASSUME NEW q \in Seq(Nat), q # << >>, Increasing(q)
    PROVE  /\ Increasing(Tail(q))
           /\ Above(Head(q), Tail(q))
           /\ \A n \in Nat : Above(n, q) => n < Head(q) /\ Above(n, Tail(q))
    BY HeadTailProperties DEF Increasing, Above

LEMMA EmptyOrder ==
    Increasing(<< >>) /\ \A n \in Nat : Above(n, << >>) /\ Below(<< >>, n)
    BY DEF Increasing, Above, Below

-----------------------------------------------------------------------------
(* Each part of IInv is preserved by every step *)

USE DEF Clients

LEMMA TypeStep == TypeOK /\ [Next]_vars => TypeOK'
<1> SUFFICES ASSUME TypeOK, [Next]_vars PROVE TypeOK'
    OBVIOUS
<1> USE BoundAssumption DEF TypeOK, StreamStatus
<1>1. CASE PublishTopOfBook
    BY <1>1, AppendProperties
    DEF PublishTopOfBook, streamVars, clientVars
<1>2. CASE MockTick
    <2>1. /\ top + 1 \in Nat /\ Append(updates, top + 1) \in Seq(Nat)
          /\ Len(Append(updates, top + 1)) = Len(updates) + 1 /\ Len(updates) \in Nat
        BY AppendProperties
    <2>2. CASE Len(updates) < UpdatesCap
        <3>1. updates' = Append(updates, top + 1) /\ top' = top + 1 /\ pending' = pending
            BY <1>2, <2>2 DEF MockTick
        <3>2. updates' \in Seq(Nat) /\ Len(updates') <= UpdatesCap
            BY <2>1, <2>2, <3>1
        <3> QED BY <1>2, <2>1, <3>1, <3>2 DEF MockTick, streamVars, clientVars
    <2>3. CASE ~(Len(updates) < UpdatesCap)
        BY <1>2, <2>1, <2>3 DEF MockTick, streamVars, clientVars
    <2> QED BY <2>2, <2>3
<1>3. CASE MockUnblock
    BY <1>3, AppendProperties DEF MockUnblock, streamVars, clientVars
<1>4. ASSUME NEW s \in Streams, HandlerTake(s) PROVE TypeOK'
    BY <1>4, HeadTailProperties DEF HandlerTake, clientVars
<1>5. ASSUME NEW s \in Streams, HandlerSend(s) PROVE TypeOK'
    <2>1. Append(wire[s], held[s]) \in Seq(Nat)
        BY AppendProperties
    <2> QED BY <1>5, <2>1 DEF HandlerSend, nodeVars, clientVars
<1>6. ASSUME NEW s \in Streams, HandlerSendLost(s) PROVE TypeOK'
    BY <1>6 DEF HandlerSendLost, nodeVars, clientVars
<1>7. ASSUME NEW s \in Streams, HandlerReturn(s) PROVE TypeOK'
    BY <1>7 DEF HandlerReturn, nodeVars, clientVars
<1>8. ASSUME NEW s \in Streams, ContextDone(s) PROVE TypeOK'
    BY <1>8 DEF ContextDone, nodeVars, clientVars
<1>9. ASSUME NEW c \in Clients, NEW s \in Streams, Connect(c, s)
      PROVE  TypeOK'
    BY <1>9 DEF Connect, nodeVars
<1>10. ASSUME NEW c \in Clients, Recv(c) PROVE TypeOK'
    <2>1. attached[c] \in Streams
        BY <1>10 DEF Recv
    <2>2. Tail(wire[attached[c]]) \in Seq(Nat) /\ Head(wire[attached[c]]) \in Nat
        BY <1>10, <2>1, HeadTailProperties DEF Recv
    <2> QED BY <1>10, <2>1, <2>2 DEF Recv, nodeVars
<1>11. ASSUME NEW c \in Clients, Disconnect(c) PROVE TypeOK'
    BY <1>11 DEF Disconnect, nodeVars
<1>12. CASE NodeRestart
    BY <1>12 DEF NodeRestart
<1>13. CASE UNCHANGED vars
    BY <1>13 DEF vars, nodeVars, streamVars, clientVars
<1> QED
    BY <1>1, <1>2, <1>3, <1>4, <1>5, <1>6, <1>7, <1>8, <1>9, <1>10, <1>11,
       <1>12, <1>13 DEF Next, HandlerStep

LEMMA ExclusiveStep ==
    TypeOK /\ StreamsExclusive /\ [Next]_vars => StreamsExclusive'
<1> SUFFICES ASSUME TypeOK, StreamsExclusive, [Next]_vars
             PROVE  StreamsExclusive'
    OBVIOUS
<1> USE ClientAssumption DEF TypeOK, StreamsExclusive
<1>1. CASE PublishTopOfBook
    BY <1>1 DEF PublishTopOfBook, streamVars, clientVars
<1>2. CASE MockTick
    BY <1>2 DEF MockTick, streamVars, clientVars
<1>3. CASE MockUnblock
    BY <1>3 DEF MockUnblock, streamVars, clientVars
<1>4. ASSUME NEW s \in Streams, HandlerTake(s) PROVE StreamsExclusive'
    BY <1>4 DEF HandlerTake, clientVars
<1>5. ASSUME NEW s \in Streams, HandlerSend(s) PROVE StreamsExclusive'
    BY <1>5 DEF HandlerSend, clientVars
<1>6. ASSUME NEW s \in Streams, HandlerSendLost(s) PROVE StreamsExclusive'
    BY <1>6 DEF HandlerSendLost, clientVars
<1>7. ASSUME NEW s \in Streams, HandlerReturn(s) PROVE StreamsExclusive'
    BY <1>7 DEF HandlerReturn, clientVars
<1>8. ASSUME NEW s \in Streams, ContextDone(s) PROVE StreamsExclusive'
    BY <1>8 DEF ContextDone, clientVars
<1>9. ASSUME NEW c \in Clients, NEW s \in Streams, Connect(c, s)
      PROVE  StreamsExclusive'
    BY <1>9 DEF Connect
<1>10. ASSUME NEW c \in Clients, Recv(c) PROVE StreamsExclusive'
    BY <1>10 DEF Recv
<1>11. ASSUME NEW c \in Clients, Disconnect(c) PROVE StreamsExclusive'
    BY <1>11 DEF Disconnect
<1>12. CASE NodeRestart
    BY <1>12 DEF NodeRestart
<1>13. CASE UNCHANGED vars
    BY <1>13 DEF vars, streamVars, clientVars
<1> QED
    BY <1>1, <1>2, <1>3, <1>4, <1>5, <1>6, <1>7, <1>8, <1>9, <1>10, <1>11,
       <1>12, <1>13 DEF Next, HandlerStep

\* What a step may do to the channel: leave it alone, or put on it a top of
\* book newer than all that came before.
LEMMA QueueKept ==
    ASSUME UNCHANGED <<top, pending, updates>>
    PROVE  /\ QueueOrder => QueueOrder'
           /\ \A n \in Nat : LeftBefore(n) => LeftBefore(n)'
    BY DEF QueueOrder, LeftBefore

LEMMA QueueAppend ==
    ASSUME TypeOK, QueueOrder, NEW e \in Nat, Below(updates, e),
           updates' = Append(updates, e), pending' = 0, top' \in Nat,
           e <= top', top <= top'
    PROVE  /\ QueueOrder'
           /\ \A n \in Nat : LeftBefore(n) /\ n < e => LeftBefore(n)'
<1> USE DEF TypeOK
<1>1. Increasing(updates')
    BY AppendOrder DEF QueueOrder
<1>2. \A i \in 1..Len(updates') : updates'[i] <= top'
    BY AppendProperties DEF QueueOrder
<1>3. ASSUME NEW n \in Nat, LeftBefore(n), n < e PROVE LeftBefore(n)'
    BY <1>3, AppendAbove DEF LeftBefore
<1> QED BY <1>1, <1>2, <1>3 DEF QueueOrder

\* Every step of the feed keeps the channel in order, and what had left it
\* before the step is still older than all that is to come.
LEMMA FeedStep ==
    ASSUME TypeOK, QueueOrder, PublishTopOfBook \/ MockTick \/ MockUnblock
    PROVE  /\ QueueOrder'
           /\ \A n \in Nat : LeftBefore(n) => LeftBefore(n)'
<1> USE BoundAssumption DEF TypeOK
<1>a. top + 1 \in Nat /\ Below(updates, top + 1)
    BY DEF QueueOrder, Below
<1>b. \A n \in Nat : LeftBefore(n) => n < top + 1
    BY DEF LeftBefore
<1>1. CASE updates' = Append(updates, top + 1) /\ top' = top + 1 /\ pending' = 0
    BY <1>1, <1>a, <1>b, QueueAppend
<1>2. CASE UNCHANGED updates /\ top' = top + 1 /\ pending' = 0
    BY <1>2 DEF QueueOrder, LeftBefore
<1>3. CASE MockMode /\ UNCHANGED updates /\ top' = top + 1 /\ pending' = top + 1
    BY <1>3, <1>a, <1>b DEF QueueOrder, LeftBefore
<1>4. CASE MockUnblock
    <2>1. /\ pending # 0 /\ updates' = Append(updates, pending)
          /\ pending' = 0 /\ top' = top
        BY <1>4 DEF MockUnblock
    <2>2. pending \in Nat /\ pending <= top /\ Below(updates, pending)
        BY <2>1 DEF QueueOrder
    <2>3. \A n \in Nat : LeftBefore(n) => n < pending
        BY <2>1 DEF LeftBefore
    <2> QED BY <2>1, <2>2, <2>3, QueueAppend
<1>5. PublishTopOfBook => (pending = 0 /\ UNCHANGED pending)
    BY DEF PublishTopOfBook, QueueOrder
<1> QED BY <1>1, <1>2, <1>3, <1>4, <1>5 DEF PublishTopOfBook, MockTick

\* A handler takes the oldest update of the channel.
LEMMA TakeStep ==
    ASSUME TypeOK, QueueOrder, NEW s \in Streams, HandlerTake(s)
    PROVE  /\ QueueOrder'
           /\ Head(updates) \in Nat /\ 0 <= Head(updates)
           /\ \A h \in Nat : h = Head(updates) => LeftBefore(h)'
           /\ \A n \in Nat : LeftBefore(n) => n < Head(updates) /\ LeftBefore(n)'
<1> USE DEF TypeOK
<1>1. /\ updates # << >> /\ updates' = Tail(updates)
      /\ UNCHANGED <<top, pending>>
    BY DEF HandlerTake
<1>2. /\ Increasing(updates') /\ Above(Head(updates), updates')
      /\ \A n \in Nat : Above(n, updates) => n < Head(updates) /\ Above(n, updates')
    BY <1>1, TailOrder DEF QueueOrder
<1>3. /\ Head(updates) \in Nat /\ Head(updates) <= top
      /\ \A i \in 1..Len(updates') : updates'[i] <= top
    BY <1>1, HeadTailProperties DEF QueueOrder
<1>4. pending # 0 => Head(updates) < pending /\ Below(updates', pending)
    BY <1>1, HeadTailProperties DEF QueueOrder, Below
<1>5. QueueOrder'
    BY <1>1, <1>2, <1>3, <1>4 DEF QueueOrder
<1>6. ASSUME NEW h \in Nat, h = Head(updates) PROVE LeftBefore(h)'
    BY <1>1, <1>2, <1>3, <1>4, <1>6 DEF LeftBefore
<1>7. ASSUME NEW n \in Nat, LeftBefore(n)
      PROVE  n < Head(updates) /\ LeftBefore(n)'
    BY <1>1, <1>2, <1>7 DEF LeftBefore
<1> QED BY <1>3, <1>5, <1>6, <1>7

\* A node restart empties the channel; nothing is yet to come from it.
LEMMA RestartStep ==
    ASSUME TypeOK, NodeRestart
    PROVE  /\ QueueOrder'
           /\ \A n \in Nat : n <= top => LeftBefore(n)'
    BY EmptyOrder DEF TypeOK, NodeRestart, QueueOrder, LeftBefore

LEMMA ChannelStep ==
    TypeOK /\ ChannelOrder /\ [Next]_vars => ChannelOrder'
<1> SUFFICES ASSUME TypeOK, ChannelOrder, [Next]_vars
             PROVE  QueueOrder' /\ \A t \in Streams : LeftBefore(held[t])'
    BY DEF ChannelOrder
<1> USE DEF TypeOK
<1>0. /\ QueueOrder
      /\ \A t \in Streams : held[t] \in Nat /\ LeftBefore(held[t])
    BY DEF ChannelOrder
\* What a handler holds after a step it held before, or it holds nothing.
<1>a. ASSUME QueueOrder', \A n \in Nat : LeftBefore(n) => LeftBefore(n)',
             \A t \in Streams : held'[t] = held[t] \/ held'[t] = 0
      PROVE  QueueOrder' /\ \A t \in Streams : LeftBefore(held[t])'
    <2>1. ASSUME NEW t \in Streams PROVE LeftBefore(0)
        <3>1. \A i \in 1..Len(updates) : updates[i] \in Nat
            OBVIOUS
        <3> QED BY <1>0, <3>1 DEF LeftBefore, Above
    <2>2. ASSUME NEW t \in Streams PROVE LeftBefore(held[t])'
        <3>1. held'[t] \in Nat /\ (held'[t] = held[t] \/ held'[t] = 0)
            BY <1>0, <1>a
        <3>2. \A n \in Nat : n = held'[t] => LeftBefore(n)
            BY <1>0, <2>1, <3>1 DEF LeftBefore
        <3>3. \A n \in Nat : n = held'[t] => LeftBefore(n)'
            BY <1>a, <3>2
        <3> QED BY <3>1, <3>3 DEF LeftBefore
    <2> QED BY <1>a, <2>2
<1>b. ASSUME UNCHANGED <<top, pending, updates>>,
             \A t \in Streams : held'[t] = held[t] \/ held'[t] = 0
      PROVE  QueueOrder' /\ \A t \in Streams : LeftBefore(held[t])'
    BY <1>0, <1>a, <1>b, QueueKept
<1>1. CASE PublishTopOfBook \/ MockTick \/ MockUnblock
    <2>1. UNCHANGED held
        BY <1>1 DEF PublishTopOfBook, MockTick, MockUnblock, streamVars
    <2> QED BY <1>0, <1>1, <1>a, <2>1, FeedStep
<1>4. ASSUME NEW s \in Streams, HandlerTake(s)
      PROVE  QueueOrder' /\ \A t \in Streams : LeftBefore(held[t])'
    <2>1. ASSUME NEW t \in Streams PROVE LeftBefore(held[t])'
        <3>1. held'[t] = held[t] \/ held'[t] = Head(updates)
            BY <1>4 DEF HandlerTake
        <3>2. held'[t] \in Nat /\ LeftBefore(held[t])
            BY <1>0, <1>4, <3>1, TakeStep
        <3>3. \A n \in Nat : n = held'[t] => LeftBefore(n)'
            BY <1>0, <1>4, <3>1, <3>2, TakeStep
        <3> QED BY <3>2, <3>3 DEF LeftBefore
    <2> QED BY <1>0, <1>4, <2>1, TakeStep
<1>5. ASSUME NEW s \in Streams,
             HandlerSend(s) \/ HandlerSendLost(s) \/ HandlerReturn(s)
      PROVE  QueueOrder' /\ \A t \in Streams : LeftBefore(held[t])'
    BY <1>5, <1>b DEF HandlerSend, HandlerSendLost, HandlerReturn, nodeVars
<1>8. ASSUME NEW s \in Streams, ContextDone(s)
      PROVE  QueueOrder' /\ \A t \in Streams : LeftBefore(held[t])'
    BY <1>8, <1>b DEF ContextDone, nodeVars
<1>9. ASSUME NEW c \in Clients,
             Recv(c) \/ Disconnect(c) \/ \E s \in Streams : Connect(c, s)
      PROVE  QueueOrder' /\ \A t \in Streams : LeftBefore(held[t])'
    BY <1>9, <1>b DEF Connect, Recv, Disconnect, nodeVars
<1>12. CASE NodeRestart
    <2>1. \A t \in Streams : held'[t] = 0
        BY <1>12 DEF NodeRestart
    <2>2. \A n \in Nat : n = 0 => LeftBefore(n)'
        BY <1>12, RestartStep
    <2> QED BY <1>12, <2>1, <2>2, RestartStep DEF LeftBefore
<1>13. CASE UNCHANGED vars
    BY <1>13, <1>b DEF vars, nodeVars, streamVars
<1> QED
    BY <1>1, <1>4, <1>5, <1>8, <1>9, <1>12, <1>13 DEF Next, HandlerStep

\* A step that leaves a stream's wire alone keeps the stream's order, when its
\* handler keeps or drops what it holds and the feed's order is kept.
LEMMA StreamKept ==
    ASSUME TypeOK, NEW s \in Streams, wire'[s] = wire[s],
           held'[s] = held[s] \/ held'[s] = 0,
           \A n \in Nat : LeftBefore(n) => LeftBefore(n)'
    PROVE  /\ StreamOrder(s) => StreamOrder(s)'
           /\ \A n \in Nat : OlderThanStream(n, s) => OlderThanStream(n, s)'
<1>1. ASSUME StreamOrder(s) PROVE StreamOrder(s)'
    <2>1. \A i \in 1..Len(wire[s]) :
            wire[s][i] \in Nat /\ LeftBefore(wire[s][i])
        BY <1>1 DEF StreamOrder, TypeOK
    <2>2. \A n \in Nat : \A i \in 1..Len(wire'[s]) :
            n = wire'[s][i] => LeftBefore(n)'
        BY <2>1
    <2>3. \A i \in 1..Len(wire'[s]) : LeftBefore(wire[s][i])'
        BY <2>1, <2>2 DEF LeftBefore
    <2> QED BY <1>1, <2>3 DEF StreamOrder
<1>2. ASSUME NEW n \in Nat, OlderThanStream(n, s) PROVE OlderThanStream(n, s)'
    BY <1>2 DEF OlderThanStream
<1> QED BY <1>1, <1>2

\* A stream with nothing on its wire is in order, and everything is older than
\* what it is still to deliver when its handler holds nothing either.
LEMMA StreamEmpty ==
    ASSUME NEW s \in Streams, wire[s] = << >>
    PROVE  /\ StreamOrder(s)
           /\ held[s] = 0 => \A n \in Nat : OlderThanStream(n, s)
    BY EmptyOrder DEF StreamOrder, OlderThanStream

LEMMA SendOrder ==
    ASSUME TypeOK, ChannelOrder, NEW s \in Streams, StreamOrder(s),
           HandlerSend(s)
    PROVE  /\ StreamOrder(s)'
           /\ \A n \in Nat : OlderThanStream(n, s) => OlderThanStream(n, s)'
<1> USE DEF TypeOK
<1>1. /\ held[s] # 0 /\ held'[s] = 0 /\ held[s] \in Nat
      /\ wire[s] \in Seq(Nat) /\ wire'[s] = Append(wire[s], held[s])
      /\ UNCHANGED <<top, pending, updates>>
    BY DEF HandlerSend, nodeVars
<1>2. Increasing(wire[s]) /\ Below(wire[s], held[s])
    BY <1>1 DEF StreamOrder, Below
<1>3. Increasing(wire'[s])
    BY <1>1, <1>2, AppendOrder
<1>4. \A i \in 1..Len(wire'[s]) :
        wire'[s][i] \in Nat /\ 0 < wire'[s][i] /\ LeftBefore(wire'[s][i])
    <2>1. LeftBefore(held[s]) /\ 0 < held[s]
        BY <1>1 DEF ChannelOrder
    <2>2. \A i \in 1..Len(wire[s]) :
            wire[s][i] \in Nat /\ 0 < wire[s][i] /\ LeftBefore(wire[s][i])
        BY <1>1 DEF StreamOrder
    <2>3. \A i \in 1..Len(wire'[s]) :
            wire'[s][i] = held[s]
              \/ (i \in 1..Len(wire[s]) /\ wire'[s][i] = wire[s][i])
        BY <1>1, AppendProperties
    <2> QED BY <1>1, <2>1, <2>2, <2>3
<1>5. \A i \in 1..Len(wire'[s]) : LeftBefore(wire[s][i])'
    BY <1>1, <1>4 DEF LeftBefore
<1>6. StreamOrder(s)'
    BY <1>1, <1>3, <1>4, <1>5 DEF StreamOrder
<1>7. ASSUME NEW n \in Nat, OlderThanStream(n, s) PROVE OlderThanStream(n, s)'
    BY <1>1, <1>7, AppendAbove DEF OlderThanStream
<1> QED BY <1>6, <1>7

LEMMA RecvOrder ==
    ASSUME TypeOK, NEW c \in Clients, Recv(c), StreamOrder(attached[c])
    PROVE  /\ attached[c] \in Streams /\ wire[attached[c]] # << >>
           /\ StreamOrder(attached[c])'
           /\ Head(wire[attached[c]]) \in Nat
           /\ LeftBefore(Head(wire[attached[c]]))
           /\ \A n \in Nat : OlderThanStream(n, attached[c]) =>
                /\ OlderThanStream(n, attached[c])'
                /\ n < Head(wire[attached[c]])
           /\ \A n \in Nat : n = Head(wire[attached[c]]) =>
                OlderThanStream(n, attached[c])'
<1> DEFINE s == attached[c]
<1>1. /\ s \in Streams /\ wire[s] # << >> /\ wire'[s] = Tail(wire[s])
      /\ wire[s] \in Seq(Nat) /\ UNCHANGED <<top, pending, updates, held, attached>>
    BY DEF TypeOK, Recv, nodeVars
<1>2. /\ Increasing(wire'[s]) /\ Above(Head(wire[s]), wire'[s])
      /\ \A n \in Nat : Above(n, wire[s]) =>
            n < Head(wire[s]) /\ Above(n, wire'[s])
    BY <1>1, TailOrder DEF StreamOrder
<1>3. /\ Head(wire[s]) \in Nat /\ Head(wire[s]) = wire[s][1]
      /\ 1 \in 1..Len(wire[s])
      /\ \A i \in 1..Len(wire'[s]) :
            i + 1 \in 1..Len(wire[s]) /\ wire'[s][i] = wire[s][i + 1]
    BY <1>1, HeadTailProperties
<1>4. \A i \in 1..Len(wire[s]) :
        /\ 0 < wire[s][i] /\ LeftBefore(wire[s][i])
        /\ held[s] # 0 => wire[s][i] < held[s]
    BY DEF StreamOrder
<1>5. \A i \in 1..Len(wire'[s]) :
        /\ 0 < wire'[s][i] /\ LeftBefore(wire'[s][i])
        /\ held[s] # 0 => wire'[s][i] < held[s]
    BY <1>3, <1>4
<1>6. \A i \in 1..Len(wire'[s]) : LeftBefore(wire[s][i])'
    BY <1>1, <1>5 DEF LeftBefore
<1>7. StreamOrder(s)'
    BY <1>1, <1>2, <1>5, <1>6 DEF StreamOrder
<1>8. LeftBefore(Head(wire[s])) /\ (held[s] # 0 => Head(wire[s]) < held[s])
    BY <1>3, <1>4
<1>9. ASSUME NEW n \in Nat, OlderThanStream(n, s)
      PROVE  OlderThanStream(n, s)' /\ n < Head(wire[s])
    BY <1>1, <1>2, <1>9 DEF OlderThanStream
<1>10. ASSUME NEW n \in Nat, n = Head(wire[s]) PROVE OlderThanStream(n, s)'
    BY <1>1, <1>2, <1>8, <1>10 DEF OlderThanStream
<1> QED BY <1>1, <1>3, <1>7, <1>8, <1>9, <1>10

\* The aggregator's half of WireOrder: its quote against what is to come.
QuoteOrder ==
    /\ LeftBefore(store)
    /\ attached[Aggregator] # NoStream =>
          OlderThanStream(store, attached[Aggregator])

LEMMA WireStep ==
    IInv /\ [Next]_vars => WireOrder'
<1> SUFFICES ASSUME TypeOK, StreamsExclusive, ChannelOrder, WireOrder, [Next]_vars
             PROVE  (\A t \in Streams : StreamOrder(t)') /\ QuoteOrder'
    BY DEF IInv, WireOrder, QuoteOrder
<1> DEFINE a == attached[Aggregator]
           Goal == (\A t \in Streams : StreamOrder(t)') /\ QuoteOrder'
<1>0. /\ \A t \in Streams : StreamOrder(t) /\ held[t] \in Nat
      /\ store \in Nat /\ LeftBefore(store)
      /\ a # NoStream => a \in Streams /\ OlderThanStream(store, a)
      /\ Aggregator \in Clients /\ QueueOrder
    BY DEF TypeOK, WireOrder, ChannelOrder
\* A step that is not the aggregator's, under which the streams keep their
\* order, keeps the quote older than what is to come.
<1>a. ASSUME UNCHANGED store, attached'[Aggregator] = a,
             \A n \in Nat : LeftBefore(n) => LeftBefore(n)',
             a # NoStream => \A n \in Nat :
                OlderThanStream(n, a) => OlderThanStream(n, a)'
      PROVE  QuoteOrder'
    <2>1. LeftBefore(store)'
        BY <1>0, <1>a DEF LeftBefore
    <2>2. ASSUME a # NoStream PROVE OlderThanStream(store, attached[Aggregator])'
        <3>1. \A n \in Nat : n = store => OlderThanStream(n, a)'
            BY <1>0, <1>a, <2>2
        <3> QED BY <1>0, <1>a, <3>1 DEF OlderThanStream
    <2> QED BY <1>a, <2>1, <2>2 DEF QuoteOrder
<1>b. ASSUME UNCHANGED <<wire, clientVars>>,
             \A t \in Streams : held'[t] = held[t] \/ held'[t] = 0,
             \A n \in Nat : LeftBefore(n) => LeftBefore(n)'
      PROVE  Goal
    BY <1>0, <1>a, <1>b, StreamKept DEF clientVars
<1>c. ASSUME UNCHANGED <<nodeVars, wire, clientVars>>,
             \A t \in Streams : held'[t] = held[t] \/ held'[t] = 0
      PROVE  Goal
    BY <1>b, <1>c, QueueKept DEF nodeVars
<1>1. CASE PublishTopOfBook \/ MockTick \/ MockUnblock
    <2>1. UNCHANGED <<held, wire, clientVars>>
        BY <1>1 DEF PublishTopOfBook, MockTick, MockUnblock, streamVars
    <2> QED BY <1>0, <1>1, <1>b, <2>1, FeedStep
<1>2. ASSUME NEW s \in Streams, HandlerTake(s) PROVE Goal
    <2>1. /\ UNCHANGED <<wire, clientVars>> /\ held'[s] = Head(updates)
          /\ \A t \in Streams \ {s} : held'[t] = held[t]
        BY <1>2 DEF HandlerTake, TypeOK
    <2>2. /\ Head(updates) \in Nat
          /\ \A n \in Nat : LeftBefore(n) => n < Head(updates) /\ LeftBefore(n)'
        BY <1>0, <1>2, TakeStep
    <2>3. /\ \A t \in Streams \ {s} : StreamOrder(t)'
          /\ \A t \in Streams \ {s} : \A n \in Nat :
                OlderThanStream(n, t) => OlderThanStream(n, t)'
        BY <1>0, <2>1, <2>2, StreamKept
    <2>4. /\ Increasing(wire[s])
          /\ \A i \in 1..Len(wire[s]) :
                wire[s][i] \in Nat /\ 0 < wire[s][i] /\ LeftBefore(wire[s][i])
        BY <1>0 DEF StreamOrder, TypeOK
    <2>5. StreamOrder(s)'
        <3>1. \A i \in 1..Len(wire'[s]) : 0 < wire'[s][i] /\ wire'[s][i] < held'[s]
            BY <2>1, <2>2, <2>4
        <3>2. \A n \in Nat : \A i \in 1..Len(wire'[s]) :
                n = wire'[s][i] => LeftBefore(n)'
            BY <2>1, <2>2, <2>4
        <3>3. \A i \in 1..Len(wire'[s]) : LeftBefore(wire[s][i])'
            BY <2>1, <2>4, <3>2 DEF LeftBefore
        <3> QED BY <2>1, <2>4, <3>1, <3>3 DEF StreamOrder
    <2>6. CASE a = s
        <3>1. store < Head(updates)
            BY <1>0, <2>2
        <3>2. LeftBefore(store)'
            BY <1>0, <2>1, <2>2 DEF LeftBefore, clientVars
        <3>3. a # NoStream => OlderThanStream(store, attached[Aggregator])'
            BY <1>0, <2>1, <2>6, <3>1 DEF OlderThanStream, clientVars
        <3> QED BY <2>1, <2>3, <2>5, <3>2, <3>3 DEF QuoteOrder, clientVars
    <2>7. CASE a # s
        <3>1. a # NoStream => \A n \in Nat :
                OlderThanStream(n, a) => OlderThanStream(n, a)'
            BY <1>0, <2>1, <2>3, <2>7 DEF clientVars
        <3>2. QuoteOrder'
            BY <1>a, <2>1, <2>2, <3>1 DEF clientVars
        <3> QED BY <2>3, <2>5, <3>2
    <2> QED BY <2>6, <2>7
<1>3. ASSUME NEW s \in Streams, HandlerSend(s) PROVE Goal
    <2>1. /\ UNCHANGED <<nodeVars, clientVars>>
          /\ \A t \in Streams \ {s} : wire'[t] = wire[t] /\ held'[t] = held[t]
        BY <1>3 DEF HandlerSend, TypeOK
    <2>2. \A n \in Nat : LeftBefore(n) => LeftBefore(n)'
        BY <2>1, QueueKept DEF nodeVars
    <2>3. \A t \in Streams : /\ StreamOrder(t)'
                             /\ \A n \in Nat :
                                  OlderThanStream(n, t) => OlderThanStream(n, t)'
        BY <1>0, <1>3, <2>1, <2>2, StreamKept, SendOrder
    <2>4. QuoteOrder'
        BY <1>0, <1>a, <2>1, <2>2, <2>3 DEF clientVars
    <2> QED BY <2>3, <2>4
<1>4. ASSUME NEW s \in Streams,
             HandlerSendLost(s) \/ HandlerReturn(s) \/ ContextDone(s)
      PROVE  Goal
    <2>1. /\ UNCHANGED <<nodeVars, wire, clientVars>>
          /\ \A t \in Streams : held'[t] = held[t] \/ held'[t] = 0
        BY <1>0, <1>4 DEF HandlerSendLost, HandlerReturn, ContextDone, TypeOK
    <2> QED BY <1>c, <2>1
<1>5. ASSUME NEW c \in Clients, NEW s \in Streams, Connect(c, s) PROVE Goal
    <2>1. /\ UNCHANGED <<nodeVars, held, wire, store>> /\ status[s] = "free"
          /\ attached' = [attached EXCEPT ![c] = s]
        BY <1>5 DEF Connect
    <2>2. /\ \A n \in Nat : LeftBefore(n) => LeftBefore(n)'
          /\ QueueOrder'
        BY <1>0, <2>1, QueueKept DEF nodeVars
    <2>3. \A t \in Streams : /\ StreamOrder(t)'
                             /\ \A n \in Nat :
                                  OlderThanStream(n, t) => OlderThanStream(n, t)'
        BY <1>0, <2>1, <2>2, StreamKept
    <2>4. CASE c = Aggregator
        <3>1. OlderThanStream(store, s)
            BY <1>0, <2>1, StreamEmpty DEF StreamsExclusive
        <3>2. attached'[Aggregator] = s
            BY <2>1, <2>4 DEF TypeOK
        <3>3. OlderThanStream(store, attached[Aggregator])'
            BY <2>1, <3>1, <3>2 DEF OlderThanStream
        <3>4. LeftBefore(store)'
            BY <1>0, <2>1, <2>2 DEF LeftBefore, nodeVars
        <3> QED BY <2>3, <3>3, <3>4 DEF QuoteOrder
    <2>5. CASE c # Aggregator
        BY <1>0, <1>a, <2>1, <2>2, <2>3, <2>5 DEF TypeOK
    <2> QED BY <2>4, <2>5
<1>6. ASSUME NEW c \in Clients, Recv(c) PROVE Goal
    <2> DEFINE s == attached[c]
    <2>1. /\ UNCHANGED <<nodeVars, held, attached>>
          /\ s \in Streams
          /\ \A t \in Streams \ {s} : wire'[t] = wire[t] /\ held'[t] = held[t]
          /\ store' = IF c = Aggregator THEN Head(wire[s]) ELSE store
        BY <1>6 DEF Recv, TypeOK
    <2>2. \A n \in Nat : LeftBefore(n) => LeftBefore(n)'
        BY <2>1, QueueKept DEF nodeVars
    <2>3. \A t \in Streams : /\ StreamOrder(t)'
                             /\ \A n \in Nat :
                                  OlderThanStream(n, t) => OlderThanStream(n, t)'
        BY <1>0, <1>6, <2>1, <2>2, StreamKept, RecvOrder
    <2>4. CASE c = Aggregator
        <3>1. /\ Head(wire[s]) \in Nat /\ store' = Head(wire[s])
              /\ LeftBefore(Head(wire[s]))
              /\ \A n \in Nat : n = Head(wire[s]) => OlderThanStream(n, s)'
            BY <1>0, <1>6, <2>1, <2>4, RecvOrder
        <3>2. LeftBefore(store)'
            BY <2>1, <3>1 DEF LeftBefore, nodeVars
        <3>3. OlderThanStream(store, attached[Aggregator])'
            BY <2>1, <2>4, <3>1 DEF OlderThanStream
        <3> QED BY <2>3, <3>2, <3>3 DEF QuoteOrder
    <2>5. CASE c # Aggregator
        BY <1>0, <1>a, <2>1, <2>2, <2>3, <2>5
    <2> QED BY <2>4, <2>5
<1>7. ASSUME NEW c \in Clients, Disconnect(c) PROVE Goal
    <2> DEFINE s == attached[c]
    <2>1. /\ UNCHANGED <<nodeVars, held, store>> /\ s \in Streams
          /\ wire'[s] = << >>
          /\ \A t \in Streams \ {s} : wire'[t] = wire[t]
          /\ attached' = [attached EXCEPT ![c] = NoStream]
        BY <1>7 DEF Disconnect, TypeOK
    <2>2. \A n \in Nat : LeftBefore(n) => LeftBefore(n)'
        BY <2>1, QueueKept DEF nodeVars
    <2>3. \A t \in Streams : StreamOrder(t)'
        BY <1>0, <2>1, <2>2, StreamKept, EmptyOrder DEF StreamOrder
    <2>4. CASE c = Aggregator
        BY <1>0, <2>1, <2>2, <2>3, <2>4 DEF QuoteOrder, LeftBefore, nodeVars, TypeOK
    <2>5. CASE c # Aggregator
        <3>1. a # NoStream => a # s
            BY <1>0, <2>1, <2>5 DEF StreamsExclusive
        <3>2. a # NoStream => \A n \in Nat :
                OlderThanStream(n, a) => OlderThanStream(n, a)'
            BY <1>0, <2>1, <2>2, <3>1, StreamKept
        <3> QED BY <1>0, <1>a, <2>1, <2>2, <2>3, <2>5, <3>2 DEF TypeOK
    <2> QED BY <2>4, <2>5
<1>8. CASE NodeRestart
    <2>1. /\ \A t \in Streams : wire'[t] = << >>
          /\ \A c \in Clients : attached'[c] = NoStream
          /\ store' = store
        BY <1>8 DEF NodeRestart
    <2>2. \A t \in Streams : StreamOrder(t)'
        BY <2>1, EmptyOrder DEF StreamOrder
    <2>3. LeftBefore(store)'
        BY <1>0, <1>8, <2>1, RestartStep DEF LeftBefore
    <2> QED BY <1>0, <2>1, <2>2, <2>3 DEF QuoteOrder
<1>9. CASE UNCHANGED vars
    BY <1>9, <1>c DEF vars, streamVars
<1> QED
    BY <1>1, <1>2, <1>3, <1>4, <1>5, <1>6, <1>7, <1>8, <1>9 DEF Next, HandlerStep

-----------------------------------------------------------------------------
(* The theorems *)

LEMMA InitInv == Init => IInv
<1> SUFFICES ASSUME Init PROVE IInv
    OBVIOUS
<1> USE BoundAssumption, ClientAssumption DEF Init
<1>1. TypeOK /\ StreamsExclusive
    BY DEF TypeOK, StreamsExclusive, StreamStatus
<1>2. QueueOrder /\ LeftBefore(0) /\ LeftBefore(store)
    BY EmptyOrder DEF QueueOrder, LeftBefore
<1>3. ChannelOrder
    BY <1>2 DEF ChannelOrder, LeftBefore
<1>4. \A s \in Streams : StreamOrder(s)
    BY StreamEmpty
<1> QED BY <1>1, <1>2, <1>3, <1>4 DEF IInv, WireOrder

\* IInv is an invariant: together with the other three each of TypeOK,
\* StreamsExclusive, ChannelOrder and WireOrder is preserved by every step.
THEOREM Invariance == Spec => []IInv
<1>1. IInv /\ [Next]_vars => IInv'
    BY TypeStep, ExclusiveStep, ChannelStep, WireStep DEF IInv
<1> QED BY <1>1, InitInv, PTL DEF Spec

\* The node, its calls and its clients are always well formed.
THEOREM TypeCorrect == Spec => []TypeOK
BY Invariance, PTL DEF IInv

\* The channel holds updates in the order of their publication, whatever was
\* dropped and taken.
THEOREM ChannelInOrder == Spec => []ChannelOrder
BY Invariance, PTL DEF IInv

\* Updates are always in publication order, in the channel, in the handlers
\* and on every wire, and the aggregator's quote is older than all of them.
THEOREM UpdatesOrdered == Spec => [](ChannelOrder /\ WireOrder)
BY Invariance, PTL DEF IInv

\* Whatever a step does to the aggregator's quote, it moves it forward, and
\* never past the newest top of book of the node.
LEMMA QuoteStep ==
    IInv /\ [Next]_vars => (store' > store /\ store' <= top) \/ store' = store
<1> SUFFICES ASSUME IInv, [Next]_vars
             PROVE  (store' > store /\ store' <= top) \/ store' = store
    OBVIOUS
<1>1. CASE \E c \in Clients : Recv(c) /\ c = Aggregator
    <2>1. PICK c \in Clients : Recv(c) /\ c = Aggregator
        BY <1>1
    <2>2. /\ attached[c] \in Streams /\ attached[c] # NoStream
          /\ store' = Head(wire[attached[c]]) /\ store \in Nat
        BY <2>1 DEF Recv, IInv, TypeOK
    <2>3. StreamOrder(attached[c]) /\ OlderThanStream(store, attached[c])
        BY <2>1, <2>2 DEF IInv, WireOrder
    <2>4. store < store' /\ LeftBefore(Head(wire[attached[c]]))
        BY <2>1, <2>2, <2>3, RecvOrder DEF IInv
    <2> QED BY <2>2, <2>4 DEF LeftBefore
<1>2. CASE ~ \E c \in Clients : Recv(c) /\ c = Aggregator
    BY <1>2 DEF Next, HandlerStep, PublishTopOfBook, MockTick, MockUnblock,
        HandlerTake, HandlerSend, HandlerSendLost, HandlerReturn, ContextDone,
        Connect, Recv, Disconnect, NodeRestart, vars, nodeVars, clientVars
<1> QED BY <1>1, <1>2

\* The aggregator's quote for the venue only moves forward, over any number of
\* reconnects and restarts and whoever else streams from the node.
THEOREM NoRegress == Spec => QuoteNeverRegresses
<1>1. IInv /\ [Next]_vars => [store' > store]_store
    BY QuoteStep
<1> QED BY <1>1, Invariance, PTL DEF Spec, QuoteNeverRegresses

\* The node, its clients and the network between them implement LossyFeed:
\* every step produces a value, delivers one, or is invisible.
THEOREM Implementation == Spec => ImplementsLossyFeed
<1>1. Init => Feed!Init
    BY DEF Init, Feed!Init
<1>2. IInv /\ [Next]_vars => [Feed!Next]_Feed!vars
    <2> SUFFICES ASSUME IInv, [Next]_vars PROVE [Feed!Next]_Feed!vars
        OBVIOUS
    <2>1. \/ top' = top + 1 /\ store' = store
          \/ top' = top
        BY DEF Next, HandlerStep, PublishTopOfBook, MockTick, MockUnblock,
            HandlerTake, HandlerSend, HandlerSendLost, HandlerReturn,
            ContextDone, Connect, Recv, Disconnect, NodeRestart, vars,
            nodeVars, clientVars
    <2>2. store \in Nat /\ top \in Nat /\ (store' = store \/ store' \in Nat)
        BY TypeStep DEF IInv, TypeOK
    <2> QED BY <2>1, <2>2, QuoteStep
        DEF Feed!Next, Feed!Produce, Feed!Deliver, Feed!vars
<1> QED BY <1>1, <1>2, Invariance, PTL DEF Spec, ImplementsLossyFeed, Feed!Spec

LEMMA MockStep ==
    IInv /\ MockKeepsAll /\ [Next]_vars => MockKeepsAll'
<1> SUFFICES ASSUME IInv, MockKeepsAll, [Next]_vars, MockMode
             PROVE  MockKeepsAll'
    BY DEF MockKeepsAll
<1> USE DEF IInv, TypeOK, ChannelOrder, QueueOrder
<1>0. /\ \A i \in 1..(Len(updates) - 1) : updates[i + 1] = updates[i] + 1
      /\ updates # << >> =>
            updates[Len(updates)] = IF pending = 0 THEN top ELSE top - 1
    BY DEF MockKeepsAll
<1>a. ASSUME NEW e \in Nat, updates' = Append(updates, e), pending' = 0,
             top' = e, updates # << >> => updates[Len(updates)] = e - 1
      PROVE  MockKeepsAll'
    <2>1. /\ Len(updates') = Len(updates) + 1 /\ updates'[Len(updates')] = e
          /\ \A i \in 1..Len(updates) : updates'[i] = updates[i]
        BY <1>a, AppendProperties
    <2>2. ASSUME NEW i \in 1..(Len(updates') - 1)
          PROVE  updates'[i + 1] = updates'[i] + 1
        <3>1. CASE i = Len(updates)
            BY <1>a, <2>1, <3>1
        <3>2. CASE i # Len(updates)
            <4>1. i \in 1..(Len(updates) - 1) /\ i + 1 \in 1..Len(updates)
                BY <2>1, <3>2
            <4>2. i \in 1..Len(updates) /\ updates[i + 1] = updates[i] + 1
                BY <1>0, <4>1
            <4>3. updates'[i] = updates[i] /\ updates'[i + 1] = updates[i + 1]
                BY ONLY <2>1, <4>1, <4>2
            <4> QED BY ONLY <4>2, <4>3
        <3> QED BY <3>1, <3>2
    <2> QED BY <1>a, <2>1, <2>2 DEF MockKeepsAll
<1>1. CASE MockTick
    <2>1. CASE Len(updates) < UpdatesCap
        <3>1. /\ top' = top + 1 /\ updates' = Append(updates, top + 1)
              /\ pending = 0 /\ pending' = 0 /\ top + 1 \in Nat
            BY <1>1, <2>1 DEF MockTick
        <3>2. updates # << >> => updates[Len(updates)] = (top + 1) - 1
            BY <1>0, <3>1
        <3> QED BY <1>a, <3>1, <3>2
    <2>2. CASE ~(Len(updates) < UpdatesCap)
        BY <1>0, <1>1, <2>2 DEF MockTick, MockKeepsAll
    <2> QED BY <2>1, <2>2
<1>2. CASE MockUnblock
    BY <1>0, <1>2, <1>a DEF MockUnblock
<1>3. ASSUME NEW s \in Streams, HandlerTake(s) PROVE MockKeepsAll'
    <2>1. /\ updates # << >> /\ updates' = Tail(updates)
          /\ UNCHANGED <<top, pending>>
        BY <1>3 DEF HandlerTake
    <2>2. /\ Len(updates') = Len(updates) - 1 /\ Len(updates) \in Nat
          /\ \A i \in 1..Len(updates') : updates'[i] = updates[i + 1]
        BY <2>1, HeadTailProperties
    <2>3. ASSUME NEW i \in 1..(Len(updates') - 1)
          PROVE  updates'[i + 1] = updates'[i] + 1
        <3>1. /\ i \in 1..Len(updates') /\ i + 1 \in 1..Len(updates')
              /\ i + 1 \in 1..(Len(updates) - 1)
            BY <2>2
        <3>2. updates[(i + 1) + 1] = updates[i + 1] + 1
            BY <1>0, <3>1
        <3> QED BY <2>2, <3>1, <3>2
    <2>4. updates' # << >> => updates'[Len(updates')] = updates[Len(updates)]
        BY <2>1, <2>2
    <2> QED BY <1>0, <2>1, <2>3, <2>4 DEF MockKeepsAll
<1>4. CASE NodeRestart
    BY <1>4 DEF NodeRestart, MockKeepsAll
<1>5. CASE UNCHANGED nodeVars
    BY <1>5 DEF nodeVars, MockKeepsAll
<1> QED
    BY <1>1, <1>2, <1>3, <1>4, <1>5 DEF Next, HandlerStep, PublishTopOfBook,
        HandlerSend, HandlerSendLost, HandlerReturn, ContextDone, Connect,
        Recv, Disconnect, vars

\* A mock feed skips nothing: the channel is always a run of consecutive
\* updates that ends at the feed's newest, or just before the blocked one.
THEOREM MockComplete == Spec => []MockKeepsAll
<1>1. Init => MockKeepsAll
    BY DEF Init, MockKeepsAll
<1> QED BY <1>1, MockStep, Invariance, PTL DEF Spec
=============================================================================

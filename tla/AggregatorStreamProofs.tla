----------------------- MODULE AggregatorStreamProofs -----------------------
(***************************************************************************)
(* Proofs about AggregatorStream, for any markets, clients, calls,         *)
(* capacities and bounds.  IInv is inductive, and every safety property    *)
(* TLC checks on small instances follows from it.                          *)
(***************************************************************************)
EXTENDS AggregatorStream, SequenceTheorems, TLAPS

IInv == TypeOK /\ CallsExclusive /\ ChannelOrder /\ NoGap /\ FloorKept

USE NameAssumption, BoundAssumption, NoBookAssumption

LEMMA BookFacts ==
    /\ \A m \in Keys, r \in Nat : Book(m, r) \in Books
    /\ \A b \in Books : b.market \in Keys /\ b.rev \in Nat
    /\ \A m \in Keys, r \in Nat : Book(m, r).market = m /\ Book(m, r).rev = r
    /\ \A b \in Books, m \in Keys, r \in Nat :
            b = Book(m, r) <=> b.market = m /\ b.rev = r
    /\ NoBook \notin Books
    BY DEF Books, Book, Keys

-----------------------------------------------------------------------------
(* Type correctness *)

LEMMA TypeStep == TypeOK /\ CallsExclusive /\ [Next]_vars => TypeOK'
<1> SUFFICES ASSUME TypeOK, CallsExclusive, [Next]_vars PROVE TypeOK'
    OBVIOUS
<1> USE DEF TypeOK, storeVars, handlerVars, netVars, clientVars
<1>1. ASSUME NEW m \in Markets, Upsert(m) PROVE TypeOK'
    <2>1. m \in Keys /\ rev[m] + 1 \in Nat /\ Book(m, rev[m] + 1) \in Books
        BY BookFacts DEF Keys
    <2>2. \A h \in Calls : Append(chan[h], Book(m, rev[m] + 1)) \in Seq(Books)
        BY <2>1, AppendProperties
    <2>3. chan' \in [Calls -> Seq(Books)]
        BY <1>1, <2>2 DEF Upsert
    <2>4. dropped' \in [Calls -> SUBSET Markets]
        BY <1>1 DEF Upsert
    <2>5. rev' \in [Keys -> Nat]
        BY <1>1, <2>1 DEF Upsert
    <2> QED BY <1>1, <2>3, <2>4, <2>5 DEF Upsert
<1>2. ASSUME NEW h \in Calls, Subscribe(h) PROVE TypeOK'
    <2>1. chan' \in [Calls -> Seq(Books)]
        BY <1>2 DEF Subscribe
    <2>2. floor' \in [Clients -> [Keys -> Nat]]
        BY <1>2 DEF Subscribe
    <2>3. pc' \in [Calls -> Stages] /\ dropped' \in [Calls -> SUBSET Markets]
        BY <1>2 DEF Subscribe, Stages
    <2> QED BY <1>2, <2>1, <2>2, <2>3 DEF Subscribe
<1>3. ASSUME NEW h \in Calls, GetInitial(h) PROVE TypeOK'
    BY <1>3, BookFacts DEF GetInitial, Stages
<1>4. ASSUME NEW h \in Calls, Take(h) PROVE TypeOK'
    <2>1. Head(chan[h]) \in Books /\ Tail(chan[h]) \in Seq(Books)
        BY <1>4, HeadTailProperties DEF Take
    <2>2. held' \in [Calls -> Books \cup {NoBook}] /\ pc' \in [Calls -> Stages]
        <3>1. CASE Matches(h, Head(chan[h]))
            <4>1. /\ held' = [held EXCEPT ![h] = Head(chan[h])]
                  /\ pc' = [pc EXCEPT ![h] = "send"]
                BY <1>4, <3>1 DEF Take
            <4> QED BY <2>1, <4>1 DEF Stages
        <3>2. CASE ~Matches(h, Head(chan[h]))
            BY <1>4, <3>2 DEF Take
        <3> QED BY <3>1, <3>2
    <2> QED BY <1>4, <2>1, <2>2 DEF Take
<1>5. ASSUME NEW h \in Calls, Send(h) PROVE TypeOK'
    <2>1. held[h] \in Books
        BY <1>5 DEF Send, CallsExclusive, CallOK
    <2>2. Append(wire[h], held[h]) \in Seq(Books)
        BY <2>1, AppendProperties
    <2> QED BY <1>5, <2>2 DEF Send, Stages
<1>6. ASSUME NEW h \in Calls, SendLost(h) \/ Return(h) PROVE TypeOK'
    BY <1>6 DEF SendLost, Return, Stages
<1>7. ASSUME NEW h \in Calls, Unsubscribe(h) \/ ContextDone(h) PROVE TypeOK'
    BY <1>7 DEF Unsubscribe, ContextDone, Stages
<1>8. ASSUME NEW c \in Clients, NEW h \in Calls, Open(c, h) PROVE TypeOK'
    BY <1>8 DEF Open, Stages, Keys
<1>9. ASSUME NEW c \in Clients, Recv(c) PROVE TypeOK'
    <2> DEFINE h == attached[c]
    <2>1. h \in Calls /\ wire[h] # << >>
        BY <1>9 DEF Recv
    <2>2. Head(wire[h]) \in Books /\ Tail(wire[h]) \in Seq(Books)
        BY <2>1, HeadTailProperties
    <2>3. Head(wire[h]).market \in Keys /\ Head(wire[h]).rev \in Nat
        BY <2>2, BookFacts
    <2> QED BY <1>9, <2>1, <2>2, <2>3 DEF Recv
<1>10. ASSUME NEW c \in Clients, Disconnect(c) PROVE TypeOK'
    BY <1>10 DEF Disconnect
<1>11. CASE AggregatorRestart
    BY <1>11 DEF AggregatorRestart, Stages
<1>12. CASE UNCHANGED vars
    BY <1>12 DEF vars
<1> QED
    BY <1>1, <1>2, <1>3, <1>4, <1>5, <1>6, <1>7, <1>8, <1>9, <1>10, <1>11,
       <1>12 DEF Next, HandlerStep

-----------------------------------------------------------------------------
(* Calls, subscriptions and clients *)

LEMMA ExclusiveStep ==
    TypeOK /\ CallsExclusive /\ [Next]_vars => CallsExclusive'
<1> SUFFICES ASSUME TypeOK, Registered, ClientsOK, \A h \in Calls : CallOK(h),
                    [Next]_vars
             PROVE  Registered' /\ ClientsOK' /\ \A h \in Calls : CallOK(h)'
    BY DEF CallsExclusive
<1> DEFINE Goal == Registered' /\ ClientsOK' /\ \A h \in Calls : CallOK(h)'
<1> USE DEF TypeOK, storeVars, handlerVars, netVars, clientVars
\* A call that a step leaves alone stays as it should be.
<1>a. ASSUME NEW h \in Calls, held'[h] = held[h], pc'[h] = pc[h],
             req'[h] = req[h], link'[h] = link[h], wire'[h] = wire[h]
      PROVE  CallOK(h)'
    BY <1>a DEF CallOK, Sending, Matches
<1>1. ASSUME NEW m \in Markets, Upsert(m) PROVE Goal
    BY <1>1, <1>a DEF Upsert, Registered, ClientsOK, Running
<1>2. ASSUME NEW h \in Calls, Subscribe(h) PROVE Goal
    <2>1. \A g \in Calls \ {h} : CallOK(g)'
        BY <1>2, <1>a DEF Subscribe
    <2>2. CallOK(h)'
        BY <1>2 DEF Subscribe, CallOK, Sending, Matches
    <2>3. Registered' /\ ClientsOK'
        BY <1>2 DEF Subscribe, Registered, ClientsOK, Running
    <2> QED BY <2>1, <2>2, <2>3
<1>3. ASSUME NEW h \in Calls, GetInitial(h) PROVE Goal
    <2>1. \A g \in Calls \ {h} : CallOK(g)'
        BY <1>3, <1>a DEF GetInitial
    <2>2. Book(req[h], rev[req[h]]) # NoBook
          /\ Book(req[h], rev[req[h]]).market = req[h]
        BY BookFacts
    <2>3. CallOK(h)'
        BY <1>3, <2>2 DEF GetInitial, CallOK, Sending, Matches
    <2>4. Registered' /\ ClientsOK'
        BY <1>3 DEF GetInitial, Registered, ClientsOK, Running
    <2> QED BY <2>1, <2>3, <2>4
<1>4. ASSUME NEW h \in Calls, Take(h) PROVE Goal
    <2>1. \A g \in Calls \ {h} : CallOK(g)'
        BY <1>4, <1>a DEF Take
    <2>2. Head(chan[h]) # NoBook
        BY <1>4, HeadTailProperties, BookFacts DEF Take
    <2>3. CallOK(h)'
        <3>1. CASE Matches(h, Head(chan[h]))
            BY <1>4, <2>2, <3>1 DEF Take, CallOK, Sending, Matches
        <3>2. CASE ~Matches(h, Head(chan[h]))
            BY <1>4, <3>2, <1>a DEF Take
        <3> QED BY <3>1, <3>2
    <2>4. Registered' /\ ClientsOK'
        BY <1>4 DEF Take, Registered, ClientsOK, Running
    <2> QED BY <2>1, <2>3, <2>4
<1>5. ASSUME NEW h \in Calls, Send(h) PROVE Goal
    <2>1. \A g \in Calls \ {h} : CallOK(g)'
        BY <1>5, <1>a DEF Send
    <2>2. /\ held[h] \in Books /\ Matches(h, held[h])
          /\ \A i \in 1..Len(wire[h]) : Matches(h, wire[h][i])
          /\ wire'[h] = Append(wire[h], held[h]) /\ held'[h] = NoBook
          /\ pc'[h] = "loop" /\ link'[h] = "up" /\ req' = req
        BY <1>5 DEF Send, CallOK
    <2>3. \A i \in 1..Len(wire'[h]) : Matches(h, wire'[h][i])
        BY <2>2, AppendProperties
    <2>4. CallOK(h)'
        BY <2>2, <2>3 DEF CallOK, Sending, Matches
    <2>5. Registered' /\ ClientsOK'
        BY <1>5 DEF Send, Sending, Registered, ClientsOK, Running
    <2> QED BY <2>1, <2>4, <2>5
<1>6. ASSUME NEW h \in Calls, SendLost(h) \/ Return(h) PROVE Goal
    <2>1. \A g \in Calls \ {h} : CallOK(g)'
        BY <1>6, <1>a DEF SendLost, Return
    <2>2. CallOK(h)'
        BY <1>6 DEF SendLost, Return, CallOK, Sending, Matches
    <2>3. Running(h) /\ UNCHANGED <<subscribers, attached, link, req>>
          /\ pc' = [pc EXCEPT ![h] = IF SendLost(h) THEN "loop" ELSE "return"]
          /\ link[h] # "up"
        BY <1>6 DEF SendLost, Return, Sending, Running
    <2>4. Registered'
        BY <2>3 DEF Registered, Running
    <2>5. ClientsOK'
        BY <2>3 DEF ClientsOK
    <2> QED BY <2>1, <2>2, <2>4, <2>5
<1>7. ASSUME NEW h \in Calls, Unsubscribe(h) \/ ContextDone(h) PROVE Goal
    <2>1. \A g \in Calls \ {h} : CallOK(g)'
        BY <1>7, <1>a DEF Unsubscribe, ContextDone
    <2>2. CallOK(h)'
        BY <1>7 DEF Unsubscribe, ContextDone, CallOK, Sending, Matches
    <2>3. Registered' /\ ClientsOK'
        BY <1>7 DEF Unsubscribe, ContextDone, Registered, ClientsOK, Running
    <2> QED BY <2>1, <2>2, <2>3
<1>8. ASSUME NEW c \in Clients, NEW h \in Calls, Open(c, h) PROVE Goal
    <2>1. \A g \in Calls \ {h} : CallOK(g)'
        BY <1>8, <1>a DEF Open
    <2>2. /\ wire'[h] = << >> /\ held'[h] = NoBook
          /\ pc'[h] = "start" /\ link'[h] = "up"
        BY <1>8 DEF Open, CallOK, Sending
    <2>4. CallOK(h)'
        BY <2>2 DEF CallOK, Sending, Matches
    <2>3. Registered' /\ ClientsOK'
        BY <1>8 DEF Open, Registered, ClientsOK, Running
    <2> QED BY <2>1, <2>3, <2>4
<1>9. ASSUME NEW c \in Clients, Recv(c) PROVE Goal
    <2>0. PICK h \in Calls : h = attached[c]
        BY <1>9 DEF Recv
    <2>1. wire[h] # << >> /\ wire'[h] = Tail(wire[h])
        BY <1>9, <2>0 DEF Recv
    <2>2. \A g \in Calls \ {h} : CallOK(g)'
        BY <1>9, <1>a, <2>0 DEF Recv
    <2>3. \A i \in 1..Len(wire'[h]) : Matches(h, wire'[h][i])
        <3>1. \A i \in 1..Len(wire'[h]) :
                i + 1 \in 1..Len(wire[h]) /\ wire'[h][i] = wire[h][i + 1]
            BY <2>1, HeadTailProperties
        <3> QED BY <2>1, <3>1 DEF CallOK
    <2>4. CallOK(h)'
        BY <1>9, <2>0, <2>1, <2>3 DEF Recv, CallOK, Sending, Matches
    <2>5. Registered' /\ ClientsOK'
        BY <1>9 DEF Recv, Registered, ClientsOK, Running
    <2> QED BY <2>1, <2>2, <2>4, <2>5
<1>10. ASSUME NEW c \in Clients, Disconnect(c) PROVE Goal
    <2>0. PICK h \in Calls : h = attached[c]
        BY <1>10 DEF Disconnect
    <2>1. /\ wire'[h] = << >> /\ link'[h] = "cut"
          /\ UNCHANGED <<pc, req, held>>
        BY <1>10, <2>0 DEF Disconnect
    <2>2. \A g \in Calls \ {h} : CallOK(g)'
        BY <1>10, <1>a, <2>0 DEF Disconnect
    <2>3. CallOK(h)'
        <3>1. CallOK(h)
            OBVIOUS
        <3> QED BY <2>1, <3>1 DEF CallOK, Sending, Matches
    <2>4. Registered'
        BY <1>10 DEF Disconnect, Registered, Running
    <2>5. attached' = [attached EXCEPT ![c] = NoCall] /\ UNCHANGED <<pc, req>>
        BY <1>10 DEF Disconnect
    <2>6. \A g \in Calls \ {h} : link'[g] = link[g]
        BY <1>10, <2>0 DEF Disconnect
    <2>7. \A d \in Clients :
            attached'[d] # NoCall =>
                attached'[d] = attached[d] /\ link'[attached'[d]] = link[attached[d]]
        <3>1. \A d \in Clients : attached'[d] = IF d = c THEN NoCall ELSE attached[d]
            BY <2>5
        <3>2. \A d \in Clients \ {c} :
                attached[d] # NoCall => attached[d] \in Calls \ {h}
            BY <2>0 DEF ClientsOK
        <3> QED BY <2>6, <3>1, <3>2
    <2>8. ClientsOK'
        BY <2>5, <2>7 DEF ClientsOK
    <2> QED BY <2>1, <2>2, <2>3, <2>4, <2>8
<1>11. CASE AggregatorRestart
    BY <1>11 DEF AggregatorRestart, Registered, ClientsOK, CallOK, Running,
        Sending, Matches
<1>12. CASE UNCHANGED vars
    BY <1>12, <1>a DEF vars, Registered, ClientsOK, Running
<1> QED
    BY <1>1, <1>2, <1>3, <1>4, <1>5, <1>6, <1>7, <1>8, <1>9, <1>10, <1>11,
       <1>12 DEF Next, HandlerStep

-----------------------------------------------------------------------------
(* The channels *)

\* A book of the market it is asked about, newer than those before it, keeps
\* a queue in order when it is appended.
LEMMA AppendOrder ==
    ASSUME NEW q \in Seq(Books), NEW b \in Books, Ordered(q),
           \A i \in 1..Len(q) : q[i].market = b.market => q[i].rev < b.rev
    PROVE  Ordered(Append(q, b))
<1> DEFINE r == Append(q, b)
<1>1. /\ Len(q) \in Nat /\ Len(r) = Len(q) + 1
      /\ \A i \in 1..Len(q) : r[i] = q[i]
      /\ r[Len(q) + 1] = b
    BY AppendProperties
<1> HIDE DEF r
<1>2. ASSUME NEW i \in 1..Len(r), NEW j \in 1..Len(r), i < j,
             r[i].market = r[j].market
      PROVE  r[i].rev < r[j].rev
    <2>1. i \in 1..Len(q) /\ r[i] = q[i]
        BY <1>1, <1>2
    <2>2. CASE j = Len(q) + 1
        BY <1>1, <1>2, <2>1, <2>2
    <2>3. CASE j # Len(q) + 1
        <3>1. j \in 1..Len(q) /\ r[j] = q[j]
            BY <1>1, <2>3
        <3> QED BY <1>2, <2>1, <3>1 DEF Ordered
    <2> QED BY <2>2, <2>3
<1>3. Ordered(r)
    BY <1>2 DEF Ordered
<1> QED BY <1>3 DEF r

\* Taking the oldest book leaves the rest in order and, of its own market,
\* newer.
LEMMA TailOrder ==
    ASSUME NEW q \in Seq(Books), q # << >>, Ordered(q)
    PROVE  /\ Ordered(Tail(q))
           /\ \A i \in 1..Len(Tail(q)) :
                Tail(q)[i].market = Head(q).market => Head(q).rev < Tail(q)[i].rev
<1>1. /\ Len(q) \in Nat /\ Len(q) >= 1 /\ Head(q) = q[1]
      /\ Len(Tail(q)) = Len(q) - 1
      /\ \A i \in 1..Len(Tail(q)) : Tail(q)[i] = q[i + 1]
    BY HeadTailProperties
<1>2. 1 \in 1..Len(q) /\ \A i \in 1..Len(Tail(q)) : i + 1 \in 1..Len(q) /\ 1 < i + 1
    BY <1>1
<1> QED BY <1>1, <1>2 DEF Ordered

LEMMA NewestStep ==
    TypeOK /\ ChannelOrder /\ [Next]_vars => ChannelOrder'
<1> SUFFICES ASSUME TypeOK, ChannelOrder, [Next]_vars,
                    NEW h \in subscribers', NEW m \in Markets
             PROVE  NewestQueued(h, m)'
    BY DEF ChannelOrder
<1> USE DEF storeVars, handlerVars, netVars, clientVars
<1>0. h \in Calls /\ m \in Keys
    <2>1. subscribers' \subseteq Calls
        <3>1. ASSUME NEW g \in Calls, HandlerStep(g)
              PROVE  subscribers' \subseteq Calls
            BY <3>1 DEF TypeOK, HandlerStep, Subscribe, GetInitial, Take, Send,
                SendLost, Return, Unsubscribe, ContextDone
        <3>2. CASE UNCHANGED subscribers
            BY <3>2 DEF TypeOK
        <3>3. CASE AggregatorRestart
            BY <3>3 DEF AggregatorRestart
        <3> QED
            BY <3>1, <3>2, <3>3 DEF Next, Upsert, Open, Recv, Disconnect, vars
    <2> QED BY <2>1 DEF Keys
<1>a. ASSUME h \in subscribers, UNCHANGED <<rev, chan, dropped>>
      PROVE  NewestQueued(h, m)'
    BY <1>a DEF ChannelOrder, NewestQueued, Ordered, Has
<1>1. ASSUME NEW n \in Markets, Upsert(n) PROVE NewestQueued(h, m)'
    <2>0. h \in subscribers /\ NewestQueued(h, m) /\ chan[h] \in Seq(Books)
        BY <1>0, <1>1 DEF Upsert, ChannelOrder, TypeOK
    <2>1. /\ rev[m] \in Nat /\ rev[n] \in Nat
          /\ rev'[m] = IF m = n THEN rev[n] + 1 ELSE rev[m]
        BY <1>0, <1>1 DEF Upsert, TypeOK, Keys
    <2>2. CASE HasRoom(h)
        <3> DEFINE b == Book(n, rev[n] + 1)
        <3>1. /\ chan'[h] = Append(chan[h], b) /\ b \in Books
              /\ b.market = n /\ b.rev = rev[n] + 1
              /\ m \notin dropped'[h] \/ m # n
              /\ m # n => (m \in dropped'[h] <=> m \in dropped[h])
            BY <1>0, <1>1, <2>0, <2>1, <2>2, BookFacts DEF Upsert, Keys, TypeOK
        <3>2. /\ Len(chan[h]) \in Nat /\ Len(chan'[h]) = Len(chan[h]) + 1
              /\ \A i \in 1..Len(chan[h]) : chan'[h][i] = chan[h][i]
              /\ chan'[h][Len(chan[h]) + 1] = b
            BY <2>0, <3>1, AppendProperties
        <3>3. Ordered(chan'[h])
            <4>1. NewestQueued(h, n)
                BY <2>0 DEF ChannelOrder
            <4>2. \A i \in 1..Len(chan[h]) :
                    chan[h][i] \in Books /\ (chan[h][i].market = n =>
                        chan[h][i].rev <= rev[n] /\ chan[h][i].rev \in Nat)
                BY <2>0, <4>1, BookFacts DEF NewestQueued
            <4> HIDE DEF b
            <4>3. \A i \in 1..Len(chan[h]) :
                    chan[h][i].market = b.market => chan[h][i].rev < b.rev
                BY <2>1, <3>1, <4>2
            <4> QED BY <2>0, <3>1, <4>1, <4>3, AppendOrder DEF NewestQueued
        <3>4. \A i \in 1..Len(chan'[h]) :
                chan'[h][i].market = m => chan'[h][i].rev <= rev'[m]
            <4>1. \A i \in 1..Len(chan[h]) : chan[h][i] \in Books
                BY <2>0
            <4>2. \A i \in 1..Len(chan[h]) :
                    chan[h][i].market = m =>
                        chan[h][i].rev <= rev[m] /\ chan[h][i].rev \in Nat
                BY <2>0, <4>1, BookFacts DEF NewestQueued
            <4> HIDE DEF b
            <4> QED BY <2>1, <3>1, <3>2, <4>2
        <3>5. m \notin dropped'[h] /\ Has(chan'[h], m) =>
                \E i \in 1..Len(chan'[h]) : chan'[h][i] = Book(m, rev'[m])
            <4>1. CASE m = n
                <5>1. Len(chan[h]) + 1 \in 1..Len(chan'[h])
                    BY <3>2
                <5>2. chan'[h][Len(chan[h]) + 1] = Book(m, rev'[m])
                    BY <2>1, <3>2, <4>1
                <5> QED BY <5>1, <5>2
            <4>2. CASE m # n
                <5>1. Has(chan'[h], m) => Has(chan[h], m)
                    BY <3>1, <3>2, <4>2 DEF Has
                <5>2. rev'[m] = rev[m]
                    BY <2>1, <4>2
                <5> QED BY <2>0, <3>1, <3>2, <4>2, <5>1, <5>2 DEF NewestQueued
            <4> QED BY <4>1, <4>2
        <3> QED BY <3>3, <3>4, <3>5 DEF NewestQueued
    <2>3. CASE ~HasRoom(h)
        <3>1. /\ chan'[h] = chan[h] /\ rev[m] <= rev'[m]
              /\ m = n => m \in dropped'[h]
              /\ m # n => dropped'[h] \subseteq dropped[h] \cup {n}
                          /\ dropped[h] \subseteq dropped'[h]
                          /\ rev'[m] = rev[m]
            BY <1>0, <1>1, <2>0, <2>1, <2>3 DEF Upsert
        <3>2. \A i \in 1..Len(chan[h]) :
                chan[h][i].market = m =>
                    chan[h][i].rev <= rev[m] /\ chan[h][i].rev \in Nat
            BY <2>0, BookFacts DEF NewestQueued
        <3>3. \A i \in 1..Len(chan'[h]) :
                chan'[h][i].market = m => chan'[h][i].rev <= rev'[m]
            BY <2>1, <3>1, <3>2
        <3> QED BY <2>0, <3>1, <3>3 DEF NewestQueued, Has
    <2> QED BY <2>2, <2>3
<1>2. ASSUME NEW g \in Calls, Subscribe(g) PROVE NewestQueued(h, m)'
    <2>1. CASE h = g
        <3>1. chan'[h] = << >>
            BY <1>2, <2>1 DEF Subscribe, TypeOK
        <3> QED BY <3>1 DEF NewestQueued, Ordered, Has
    <2>2. CASE h # g
        <3>1. /\ h \in subscribers /\ chan'[h] = chan[h] /\ rev' = rev
              /\ dropped'[h] = dropped[h]
            BY <1>0, <1>2, <2>2 DEF Subscribe, TypeOK
        <3> QED BY <3>1 DEF ChannelOrder, NewestQueued, Ordered, Has
    <2> QED BY <2>1, <2>2
<1>3. ASSUME NEW g \in Calls, Take(g) PROVE NewestQueued(h, m)'
    <2>0. /\ h \in subscribers /\ NewestQueued(h, m) /\ rev' = rev
          /\ dropped' = dropped /\ chan[h] \in Seq(Books)
        BY <1>0, <1>3 DEF Take, ChannelOrder, TypeOK
    <2>1. CASE h = g
        <3>1. chan[h] # << >> /\ chan'[h] = Tail(chan[h])
            BY <1>3, <2>1 DEF Take, TypeOK
        <3>2. /\ Ordered(chan'[h])
              /\ \A i \in 1..Len(chan'[h]) :
                    chan'[h][i].market = Head(chan[h]).market =>
                        Head(chan[h]).rev < chan'[h][i].rev
            BY <2>0, <3>1, TailOrder DEF NewestQueued
        <3>3. /\ Len(chan[h]) \in Nat /\ Head(chan[h]) = chan[h][1]
              /\ Head(chan[h]) \in Books /\ Len(chan'[h]) = Len(chan[h]) - 1
              /\ \A i \in 1..Len(chan'[h]) : chan'[h][i] = chan[h][i + 1]
              /\ chan'[h] \in Seq(Books)
            BY <2>0, <3>1, HeadTailProperties
        <3>4. \A i \in 1..Len(chan'[h]) : i + 1 \in 1..Len(chan[h])
            BY <3>3
        <3>5. \A i \in 1..Len(chan'[h]) :
                chan'[h][i].market = m => chan'[h][i].rev <= rev[m]
            BY <2>0, <3>3, <3>4 DEF NewestQueued
        <3>6. ASSUME m \notin dropped[h], Has(chan'[h], m)
              PROVE  \E i \in 1..Len(chan'[h]) : chan'[h][i] = Book(m, rev[m])
            <4>1. PICK k \in 1..Len(chan'[h]) : chan'[h][k].market = m
                BY <3>6 DEF Has
            <4>2. Has(chan[h], m)
                BY <3>3, <3>4, <4>1 DEF Has
            <4>3. PICK i \in 1..Len(chan[h]) : chan[h][i] = Book(m, rev[m])
                BY <2>0, <3>6, <4>2 DEF NewestQueued
            <4>4. i # 1
                <5> SUFFICES ASSUME i = 1 PROVE FALSE
                    OBVIOUS
                <5>1. Head(chan[h]).market = m /\ Head(chan[h]).rev = rev[m]
                    BY <1>0, <3>3, <4>3, BookFacts DEF TypeOK
                <5>2. rev[m] < chan'[h][k].rev /\ chan'[h][k].rev <= rev[m]
                    BY <3>2, <3>5, <4>1, <5>1
                <5>3. rev[m] \in Nat /\ chan'[h][k].rev \in Nat
                    BY <1>0, <3>3, <4>1, BookFacts DEF TypeOK
                <5> QED BY <5>2, <5>3
            <4>5. i - 1 \in 1..Len(chan'[h]) /\ chan'[h][i - 1] = chan[h][i]
                BY <3>3, <4>3, <4>4
            <4> QED BY <4>3, <4>5
        <3> QED BY <2>0, <3>2, <3>5, <3>6 DEF NewestQueued
    <2>2. CASE h # g
        <3>1. chan'[h] = chan[h]
            BY <1>3, <2>2 DEF Take, TypeOK
        <3> QED BY <2>0, <3>1 DEF NewestQueued, Ordered, Has
    <2> QED BY <2>1, <2>2
<1>4. ASSUME NEW g \in Calls, Unsubscribe(g) PROVE NewestQueued(h, m)'
    BY <1>4, <1>a DEF Unsubscribe
<1>5. ASSUME NEW g \in Calls,
             \/ GetInitial(g) \/ Send(g) \/ SendLost(g) \/ Return(g)
             \/ ContextDone(g)
      PROVE  NewestQueued(h, m)'
    BY <1>5, <1>a DEF GetInitial, Send, SendLost, Return, ContextDone
<1>6. ASSUME NEW c \in Clients,
             Recv(c) \/ Disconnect(c) \/ \E g \in Calls : Open(c, g)
      PROVE  NewestQueued(h, m)'
    BY <1>6, <1>a DEF Recv, Disconnect, Open
<1>7. CASE AggregatorRestart
    BY <1>7 DEF AggregatorRestart
<1>8. CASE UNCHANGED vars
    BY <1>8, <1>a DEF vars
<1> QED
    BY <1>1, <1>2, <1>3, <1>4, <1>5, <1>6, <1>7, <1>8 DEF Next, HandlerStep

-----------------------------------------------------------------------------
(* The bounds of what is in flight *)

LEMMA ToSetDef ==
    ASSUME NEW q \in Seq(Books)
    PROVE  \A x : x \in ToSet(q) <=> \E i \in 1..Len(q) : x = q[i]
    BY DEF ToSet

\* The elements of a queue after an Append or a Tail.
LEMMA ElementFacts ==
    ASSUME NEW q \in Seq(Books)
    PROVE  /\ ToSet(q) \subseteq Books
           /\ \A b \in Books : ToSet(Append(q, b)) = ToSet(q) \cup {b}
           /\ q # << >> => Head(q) \in ToSet(q) /\ ToSet(Tail(q)) \subseteq ToSet(q)
           /\ ToSet(<< >>) = {}
<1>1. \A b : b \in ToSet(q) <=> \E i \in 1..Len(q) : b = q[i]
    BY DEF ToSet
<1>2. ASSUME NEW b \in Books PROVE ToSet(Append(q, b)) = ToSet(q) \cup {b}
    <2>1. /\ Append(q, b) \in Seq(Books) /\ Len(q) \in Nat
          /\ Len(Append(q, b)) = Len(q) + 1
          /\ \A i \in 1..Len(q) : Append(q, b)[i] = q[i]
          /\ Append(q, b)[Len(q) + 1] = b
        BY AppendProperties
    <2>2. \A x : x \in ToSet(Append(q, b)) <=>
                    \E i \in 1..(Len(q) + 1) : x = Append(q, b)[i]
        BY <2>1 DEF ToSet
    <2>3. \A i \in 1..(Len(q) + 1) : i \in 1..Len(q) \/ i = Len(q) + 1
        BY <2>1
    <2>4. 1..Len(q) \subseteq 1..(Len(q) + 1) /\ Len(q) + 1 \in 1..(Len(q) + 1)
        BY <2>1
    <2> QED BY <1>1, <2>1, <2>2, <2>3, <2>4
<1>3. ASSUME q # << >>
      PROVE  Head(q) \in ToSet(q) /\ ToSet(Tail(q)) \subseteq ToSet(q)
    <2>1. /\ Len(q) \in Nat /\ Len(q) >= 1 /\ Head(q) = q[1]
          /\ Tail(q) \in Seq(Books) /\ Len(Tail(q)) = Len(q) - 1
          /\ \A i \in 1..Len(Tail(q)) : Tail(q)[i] = q[i + 1]
        BY <1>3, HeadTailProperties
    <2>2. \A x : x \in ToSet(Tail(q)) <=> \E i \in 1..Len(Tail(q)) : x = Tail(q)[i]
        BY <2>1, ToSetDef
    <2>3. 1 \in 1..Len(q) /\ \A i \in 1..Len(Tail(q)) : i + 1 \in 1..Len(q)
        BY <2>1
    <2> QED BY <1>1, <2>1, <2>2, <2>3
<1>4. ToSet(<< >>) = {}
    BY DEF ToSet
<1> QED BY <1>1, <1>2, <1>3, <1>4

LEMMA FlightBooks ==
    ASSUME TypeOK, NEW h \in Calls
    PROVE  InFlight(h) \subseteq Books
    BY ElementFacts DEF InFlight, TypeOK

\* A client whose call carries nothing new stays within its bounds, whatever
\* the store's revisions gain.
LEMMA PathStep ==
    ASSUME TypeOK, NEW c \in Clients, PathKept(c),
           attached'[c] = attached[c], floor'[c] = floor[c],
           \A m \in Keys : rev'[m] \in Nat /\ rev[m] <= rev'[m],
           attached[c] # NoCall =>
             /\ Running(attached[c])' => Running(attached[c])
             /\ \A b \in InFlight(attached[c])' :
                    b \in InFlight(attached[c])
                      \/ (b \in Books /\ b.rev = rev'[b.market]
                            /\ floor[c][b.market] <= rev[b.market])
    PROVE  PathKept(c)'
<1> SUFFICES ASSUME attached[c] # NoCall, Running(attached[c])',
                    NEW b \in InFlight(attached[c])'
             PROVE  InRange(b, c)'
    BY DEF PathKept
<1>1. b \in Books /\ b.market \in Keys /\ b.rev \in Nat
    BY FlightBooks, BookFacts DEF TypeOK
<1>2. CASE b \in InFlight(attached[c])
    BY <1>1, <1>2 DEF PathKept, InRange, TypeOK
<1>3. CASE b.rev = rev'[b.market] /\ floor[c][b.market] <= rev[b.market]
    BY <1>1, <1>3 DEF InRange, TypeOK
<1> QED BY <1>2, <1>3

\* What a step can put in flight on a call: nothing, or a market's newest book.
LEMMA FlightStep ==
    ASSUME TypeOK, CallsExclusive, [Next]_vars, NEW h \in Calls
    PROVE  \A b \in InFlight(h)' :
              b \in InFlight(h) \/ (b \in Books /\ b.rev = rev'[b.market])
<1> USE DEF TypeOK, storeVars, handlerVars, netVars, clientVars
<1> DEFINE Goal == \A b \in InFlight(h)' :
                b \in InFlight(h) \/ (b \in Books /\ b.rev = rev'[b.market])
<1>0. chan[h] \in Seq(Books) /\ wire[h] \in Seq(Books)
    OBVIOUS
\* The three places a book can be in, each unchanged, shorter or moved from.
<1>a. ASSUME ToSet(chan'[h]) \subseteq InFlight(h),
             held'[h] = NoBook \/ held'[h] \in InFlight(h),
             ToSet(wire'[h]) \subseteq InFlight(h)
      PROVE  Goal
    BY <1>a DEF InFlight
<1>b. ASSUME chan'[h] = chan[h], held'[h] = held[h], wire'[h] = wire[h]
      PROVE  Goal
    BY <1>b DEF InFlight
<1>1. ASSUME NEW m \in Markets, Upsert(m) PROVE Goal
    <2>0. m \in Keys /\ rev[m] + 1 \in Nat /\ rev'[m] = rev[m] + 1
        BY <1>1 DEF Upsert, Keys
    <2> DEFINE b == Book(m, rev[m] + 1)
    <2>1. b \in Books /\ b.rev = rev'[b.market]
        BY <2>0, BookFacts
    <2>2. chan'[h] = chan[h] \/ chan'[h] = Append(chan[h], b)
        BY <1>1 DEF Upsert
    <2>4. held' = held /\ wire' = wire
        BY <1>1 DEF Upsert
    <2> HIDE DEF b
    <2>3. ToSet(chan'[h]) \subseteq ToSet(chan[h]) \cup {b}
        <3>1. ToSet(Append(chan[h], b)) = ToSet(chan[h]) \cup {b}
            BY <1>0, <2>1, ElementFacts
        <3>2. CASE chan'[h] = chan[h]
            BY <3>2
        <3>3. CASE chan'[h] = Append(chan[h], b)
            BY <3>1, <3>3
        <3> QED BY <2>2, <3>2, <3>3
    <2> QED BY <2>1, <2>3, <2>4 DEF InFlight
<1>2. ASSUME NEW g \in Calls, Subscribe(g) PROVE Goal
    <2>1. chan'[h] = chan[h] \/ chan'[h] = << >>
        BY <1>2 DEF Subscribe
    <2>2. ToSet(chan'[h]) \subseteq ToSet(chan[h])
        BY <1>0, <2>1, ElementFacts
    <2>3. held' = held /\ wire' = wire
        BY <1>2 DEF Subscribe
    <2> QED BY <2>2, <2>3 DEF InFlight
<1>3. ASSUME NEW g \in Calls, GetInitial(g) PROVE Goal
    <2> DEFINE b == Book(req[g], rev[req[g]])
    <2>1. b \in Books /\ b.rev = rev'[b.market]
        BY <1>3, BookFacts DEF GetInitial
    <2>2. /\ chan' = chan /\ wire' = wire
          /\ held'[h] = held[h] \/ held'[h] = b
        BY <1>3 DEF GetInitial
    <2> HIDE DEF b
    <2> QED BY <2>1, <2>2 DEF InFlight
<1>4. ASSUME NEW g \in Calls, Take(g) PROVE Goal
    <2>1. CASE g = h
        <3>1. /\ chan[h] # << >> /\ chan'[h] = Tail(chan[h]) /\ wire' = wire
              /\ held'[h] = held[h] \/ held'[h] = Head(chan[h])
            BY <1>4, <2>1 DEF Take
        <3>2. /\ ToSet(chan'[h]) \subseteq ToSet(chan[h])
              /\ Head(chan[h]) \in ToSet(chan[h])
            BY <1>0, <3>1, ElementFacts
        <3> QED BY <3>1, <3>2 DEF InFlight
    <2>2. CASE g # h
        BY <1>4, <1>b, <2>2 DEF Take
    <2> QED BY <2>1, <2>2
<1>5. ASSUME NEW g \in Calls, Send(g) PROVE Goal
    <2>1. CASE g = h
        <3>1. /\ chan' = chan /\ wire'[h] = Append(wire[h], held[h])
              /\ held'[h] = NoBook /\ held[h] \in Books
            BY <1>5, <2>1 DEF Send, CallsExclusive, CallOK
        <3>2. ToSet(wire'[h]) = ToSet(wire[h]) \cup {held[h]}
            BY <1>0, <3>1, ElementFacts
        <3> QED BY <3>1, <3>2 DEF InFlight
    <2>2. CASE g # h
        BY <1>5, <1>b, <2>2 DEF Send
    <2> QED BY <2>1, <2>2
<1>6. ASSUME NEW g \in Calls, SendLost(g) \/ Return(g) PROVE Goal
    <2>1. /\ chan' = chan /\ wire' = wire
          /\ held'[h] = held[h] \/ held'[h] = NoBook
        BY <1>6 DEF SendLost, Return
    <2> QED BY <2>1 DEF InFlight
<1>7. ASSUME NEW g \in Calls, Unsubscribe(g) \/ ContextDone(g) PROVE Goal
    BY <1>7, <1>b DEF Unsubscribe, ContextDone
<1>8. ASSUME NEW c \in Clients, NEW g \in Calls, Open(c, g) PROVE Goal
    BY <1>8, <1>b DEF Open
<1>9. ASSUME NEW c \in Clients, Recv(c) PROVE Goal
    <2>1. /\ chan' = chan /\ held' = held
          /\ wire'[h] = wire[h] \/ (wire[h] # << >> /\ wire'[h] = Tail(wire[h]))
        BY <1>9 DEF Recv
    <2>2. ToSet(wire'[h]) \subseteq ToSet(wire[h])
        BY <1>0, <2>1, ElementFacts
    <2> QED BY <2>1, <2>2 DEF InFlight
<1>10. ASSUME NEW c \in Clients, Disconnect(c) PROVE Goal
    <2>1. /\ chan' = chan /\ held' = held
          /\ wire'[h] = wire[h] \/ wire'[h] = << >>
        BY <1>10 DEF Disconnect
    <2>2. ToSet(wire'[h]) \subseteq ToSet(wire[h])
        BY <1>0, <2>1, ElementFacts
    <2> QED BY <2>1, <2>2 DEF InFlight
<1>11. CASE AggregatorRestart
    <2>1. chan'[h] = << >> /\ held'[h] = NoBook /\ wire'[h] = << >>
        BY <1>11 DEF AggregatorRestart
    <2> QED BY <1>0, <2>1, ElementFacts DEF InFlight
<1>12. CASE UNCHANGED vars
    BY <1>12, <1>b DEF vars
<1> QED
    BY <1>1, <1>2, <1>3, <1>4, <1>5, <1>6, <1>7, <1>8, <1>9, <1>10, <1>11,
       <1>12 DEF Next, HandlerStep

\* What a step may do to the store's revisions and to what a client knows.
LEMMA RevStep ==
    ASSUME TypeOK, [Next]_vars
    PROVE  \A m \in Keys : rev[m] \in Nat /\ rev'[m] \in Nat /\ rev[m] <= rev'[m]
<1> USE DEF TypeOK
<1>1. CASE \E m \in Markets : Upsert(m)
    BY <1>1 DEF Upsert
<1>2. CASE AggregatorRestart
    BY <1>2 DEF AggregatorRestart
<1>3. CASE UNCHANGED rev
    BY <1>3
<1> QED
    BY <1>1, <1>2, <1>3 DEF Next, HandlerStep, Subscribe, GetInitial, Take, Send,
        SendLost, Return, Unsubscribe, ContextDone, Open, Recv, Disconnect,
        vars, storeVars

LEMMA PathsStep ==
    ASSUME TypeOK, CallsExclusive, FloorKept, [Next]_vars, NEW c \in Clients
    PROVE  PathKept(c)'
<1> USE DEF storeVars, handlerVars, netVars, clientVars
<1>0. /\ PathKept(c) /\ TypeOK' /\ attached[c] \in Calls \cup {NoCall}
      /\ \A m \in Keys : floor[c][m] <= rev[m]
    BY TypeStep DEF FloorKept, TypeOK
<1>a. CASE /\ attached'[c] = attached[c] /\ floor'[c] = floor[c]
           /\ attached[c] # NoCall =>
                (Running(attached[c])' => Running(attached[c]))
    <2>1. \A b \in Books : b.market \in Keys
        BY BookFacts
    <2>2. CASE attached[c] = NoCall
        BY <1>a, <2>2 DEF PathKept
    <2>3. CASE attached[c] # NoCall
        <3>1. PICK h \in Calls : h = attached[c]
            BY <1>0, <2>3
        <3>2. \A b \in InFlight(h)' :
                b \in InFlight(h)
                  \/ (b \in Books /\ b.rev = rev'[b.market]
                        /\ floor[c][b.market] <= rev[b.market])
            BY <1>0, <2>1, FlightStep
        <3>3. \A b \in InFlight(attached[c])' :
                b \in InFlight(attached[c])
                  \/ (b \in Books /\ b.rev = rev'[b.market]
                        /\ floor[c][b.market] <= rev[b.market])
            BY <1>a, <3>1, <3>2 DEF InFlight
        <3> QED BY <1>0, <1>a, <3>3, RevStep, PathStep
    <2> QED BY <2>2, <2>3
<1>1. CASE \E h \in Calls : Subscribe(h) /\ attached[c] = h
    <2>1. PICK h \in Calls : Subscribe(h) /\ attached[c] = h
        BY <1>1
    <2>2. /\ chan'[h] = << >> /\ held'[h] = NoBook /\ wire'[h] = << >>
          /\ attached' = attached
        BY <2>1 DEF Subscribe, CallsExclusive, CallOK, Sending, TypeOK
    <2>3. ToSet(<< >>) = {}
        BY DEF ToSet
    <2>4. InFlight(h)' = {}
        BY <2>2, <2>3 DEF InFlight
    <2>5. InFlight(attached[c])' = {}
        BY <2>1, <2>2, <2>4 DEF InFlight
    <2> QED BY <2>5 DEF PathKept
<1>2. ASSUME NEW h \in Calls, Subscribe(h), attached[c] # h PROVE PathKept(c)'
    BY <1>0, <1>2, <1>a DEF Subscribe, TypeOK, Running
<1>3. ASSUME NEW d \in Clients, NEW h \in Calls, Open(d, h) PROVE PathKept(c)'
    <2>1. CASE c = d
        BY <1>3, <2>1 DEF Open, PathKept, Running, TypeOK
    <2>2. CASE c # d
        <3>1. /\ attached'[c] = attached[c] /\ floor'[c] = floor[c]
              /\ pc' = [pc EXCEPT ![h] = "start"]
            BY <1>3, <2>2 DEF Open, TypeOK
        <3> QED BY <1>a, <1>0, <3>1 DEF Running, TypeOK
    <2> QED BY <2>1, <2>2
<1>4. ASSUME NEW d \in Clients, Disconnect(d) PROVE PathKept(c)'
    <2>1. CASE c = d
        BY <1>4, <2>1 DEF Disconnect, PathKept, TypeOK
    <2>2. CASE c # d
        BY <1>a, <1>4, <2>2 DEF Disconnect, Running, TypeOK
    <2> QED BY <2>1, <2>2
<1>5. CASE AggregatorRestart
    BY <1>5 DEF AggregatorRestart, PathKept
<1>6. ASSUME NEW h \in Calls,
             \/ GetInitial(h) \/ Take(h) \/ Send(h) \/ SendLost(h) \/ Return(h)
             \/ Unsubscribe(h)
      PROVE  PathKept(c)'
    <2>1. /\ UNCHANGED <<attached, floor>>
          /\ \A g \in Calls : Running(g)' => Running(g)
        <3>1. Running(h)
            BY <1>6 DEF GetInitial, Take, Send, SendLost, Return, Unsubscribe,
                Sending, Running
        <3>2. \A g \in Calls \ {h} : pc'[g] = pc[g]
            BY <1>6 DEF GetInitial, Take, Send, SendLost, Return, Unsubscribe,
                TypeOK
        <3> QED BY <1>6, <3>1, <3>2 DEF GetInitial, Take, Send, SendLost,
                Return, Unsubscribe, Running
    <2> QED BY <1>0, <1>a, <2>1 DEF Running
<1>7. CASE UNCHANGED <<attached, floor, pc>>
    BY <1>7, <1>a DEF Running
<1> QED
    BY <1>1, <1>2, <1>3, <1>4, <1>5, <1>6, <1>7
    DEF Next, HandlerStep, Upsert, Recv, ContextDone, vars

\* What a client receives is within its bounds.
LEMMA RecvRange ==
    ASSUME TypeOK, CallsExclusive, FloorKept, NEW c \in Clients, Recv(c),
           NEW m \in Keys
    PROVE  /\ floor' = floor /\ rev' = rev
           /\ view'[c][m] = view[c][m]
                \/ (floor[c][m] <= view'[c][m] /\ view'[c][m] <= rev[m])
<1> USE DEF TypeOK
<1>1. PICK h \in Calls : h = attached[c] /\ wire[h] # << >>
    BY DEF Recv
<1>2. Head(wire[h]) \in ToSet(wire[h]) /\ ToSet(wire[h]) \subseteq Books
    BY <1>1, ElementFacts
<1>3. Running(h)
    BY <1>1 DEF Running, CallsExclusive, CallOK
<1>4. InRange(Head(wire[h]), c)
    BY <1>1, <1>2, <1>3 DEF FloorKept, PathKept, InFlight
<1>5. /\ floor' = floor /\ rev' = rev
      /\ view'[c][m] = view[c][m]
            \/ (m = Head(wire[h]).market /\ view'[c][m] = Head(wire[h]).rev)
    BY <1>1 DEF Recv, storeVars
<1> QED BY <1>4, <1>5 DEF InRange

LEMMA BoundsStep ==
    ASSUME TypeOK, CallsExclusive, FloorKept, [Next]_vars,
           NEW c \in Clients, NEW m \in Keys
    PROVE  floor'[c][m] <= rev'[m] /\ view'[c][m] <= rev'[m]
<1> USE DEF TypeOK
<1>0. /\ rev[m] \in Nat /\ rev'[m] \in Nat /\ rev[m] <= rev'[m]
      /\ floor[c][m] \in Nat /\ view[c][m] \in Nat \cup {-1}
      /\ floor[c][m] <= rev[m] /\ view[c][m] <= rev[m]
    BY RevStep DEF FloorKept
<1>1. CASE floor'[c] = floor[c] /\ view'[c] = view[c]
    BY <1>0, <1>1
<1>2. ASSUME NEW h \in Calls, Subscribe(h)
      PROVE  floor'[c][m] <= rev'[m] /\ view'[c][m] <= rev'[m]
    BY <1>0, <1>2 DEF Subscribe, clientVars
<1>3. ASSUME Recv(c)
      PROVE  floor'[c][m] <= rev'[m] /\ view'[c][m] <= rev'[m]
    BY <1>0, <1>3, RecvRange
<1>4. ASSUME NEW d \in Clients, Recv(d), d # c
      PROVE  floor'[c] = floor[c] /\ view'[c] = view[c]
    BY <1>4 DEF Recv
<1> QED
    BY <1>1, <1>2, <1>3, <1>4 DEF Next, HandlerStep, Upsert, GetInitial, Take,
        Send, SendLost, Return, Unsubscribe, ContextDone, Open, Disconnect,
        AggregatorRestart, vars, clientVars

LEMMA FloorStep ==
    TypeOK /\ CallsExclusive /\ FloorKept /\ [Next]_vars => FloorKept'
    BY PathsStep, BoundsStep DEF FloorKept

-----------------------------------------------------------------------------
(* No gap between what a client has and the store *)

LEMMA GapStep ==
    TypeOK /\ CallsExclusive /\ ChannelOrder /\ NoGap /\ [Next]_vars => NoGap'
<1> SUFFICES ASSUME TypeOK, CallsExclusive, ChannelOrder, NoGap, [Next]_vars,
                    NEW c \in Clients, attached'[c] # NoCall,
                    Wants[c] \in Markets,
                    pc'[attached'[c]] \in {"initial", "loop", "send"}
             PROVE  CaughtUp(c, attached[c], Wants[c])'
    BY DEF NoGap
<1> DEFINE m == Wants[c]
<1> USE DEF storeVars, handlerVars, netVars, clientVars
<1>0. TypeOK' /\ CallsExclusive'
    BY TypeStep, ExclusiveStep
<1>1. PICK h \in Calls : h = attached'[c]
    BY <1>0 DEF TypeOK
<1>2. SUFFICES CaughtUp(c, h, m)'
    BY <1>1 DEF CaughtUp
\* The client was attached to the same call before the step.
<1>3. attached[c] = h
    <2>1. ASSUME NEW d \in Clients, NEW g \in Calls, Open(d, g)
          PROVE  attached'[c] = attached[c]
        BY <1>1, <2>1 DEF Open, TypeOK
    <2>2. ASSUME NEW d \in Clients, Disconnect(d)
          PROVE  attached'[c] = attached[c]
        BY <1>1, <2>2 DEF Disconnect, TypeOK
    <2>3. ~AggregatorRestart
        BY <1>1 DEF AggregatorRestart
    <2>4. CASE UNCHANGED attached
        BY <1>1, <2>4
    <2> QED BY <1>1, <2>1, <2>2, <2>3, <2>4 DEF Next, HandlerStep, Upsert,
            Subscribe, GetInitial, Take, Send, SendLost, Return, Unsubscribe,
            ContextDone, Recv, vars
<1>4. /\ m \in Markets /\ m \in Keys /\ m # AllMarkets /\ rev[m] \in Nat
      /\ req[h] = m /\ link[h] = "up" /\ CallOK(h)
      /\ pc[h] \notin {"free", "return"} /\ pc'[h] \in {"initial", "loop", "send"}
      /\ chan[h] \in Seq(Books) /\ wire[h] \in Seq(Books)
      /\ held[h] \in Books \cup {NoBook}
    BY <1>1, <1>3 DEF CallsExclusive, ClientsOK, TypeOK, Keys
<1>5. /\ pc[h] \in {"initial", "loop", "send"} => CaughtUp(c, h, m)
      /\ pc[h] # "start" => NewestQueued(h, m)
    BY <1>3, <1>4 DEF NoGap, ChannelOrder, CallsExclusive, Registered, Running
\* A step of another actor.
<1>b. ASSUME pc'[h] = pc[h], rev'[m] = rev[m], dropped'[h] = dropped[h],
             chan'[h] = chan[h], held'[h] = held[h], wire'[h] = wire[h],
             view'[c] = view[c]
      PROVE  CaughtUp(c, h, m)'
    BY <1>4, <1>5, <1>b DEF CaughtUp, Has
<1>6. ASSUME NEW n \in Markets, Upsert(n) PROVE CaughtUp(c, h, m)'
    <2>1. UNCHANGED <<pc, held, wire, view>>
        BY <1>6 DEF Upsert
    <2>2. CASE HasRoom(h) /\ h \in subscribers
        <3> DEFINE b == Book(n, rev[n] + 1)
        <3>1. chan'[h] = Append(chan[h], b) /\ dropped'[h] = dropped[h] \ {n}
            BY <1>6, <2>2 DEF Upsert
        <3>2. b \in Books /\ b.market = n
            BY <1>6, BookFacts DEF TypeOK, Keys
        <3> HIDE DEF b
        <3>3. /\ Len(chan'[h]) = Len(chan[h]) + 1 /\ Len(chan[h]) \in Nat
              /\ \A i \in 1..Len(chan[h]) : chan'[h][i] = chan[h][i]
              /\ chan'[h][Len(chan[h]) + 1] = b
            BY <1>4, <3>1, <3>2, AppendProperties
        <3>4. CASE m = n
            BY <3>2, <3>3, <3>4 DEF CaughtUp, Has
        <3>5. CASE m # n
            <4>1. Has(chan[h], m) => Has(chan'[h], m)
                BY <3>3 DEF Has
            <4>2. rev'[m] = rev[m] /\ (m \in dropped[h] => m \in dropped'[h])
                BY <1>6, <3>1, <3>5 DEF Upsert
            <4> QED BY <1>4, <1>5, <2>1, <4>1, <4>2 DEF CaughtUp
        <3> QED BY <3>4, <3>5
    <2>3. CASE ~(HasRoom(h) /\ h \in subscribers)
        <3>1. /\ chan'[h] = chan[h] /\ h \in subscribers /\ ~HasRoom(h)
            BY <1>4, <1>6, <2>1, <2>3 DEF Upsert, CallsExclusive, Registered, Running
        <3>2. dropped'[h] = dropped[h] \cup {n}
            BY <1>6, <3>1 DEF Upsert
        <3>3. CASE m = n
            BY <3>2, <3>3 DEF CaughtUp
        <3>4. CASE m # n
            <4>1. rev'[m] = rev[m]
                BY <1>6, <3>4 DEF Upsert
            <4> QED BY <1>4, <1>5, <2>1, <3>1, <3>2, <4>1 DEF CaughtUp
        <3> QED BY <3>3, <3>4
    <2> QED BY <2>2, <2>3
<1>7. ASSUME NEW g \in Calls, Subscribe(g) PROVE CaughtUp(c, h, m)'
    <2>1. g # h
        BY <1>4, <1>7 DEF Subscribe, TypeOK
    <2> QED BY <1>7, <1>b, <2>1 DEF Subscribe, TypeOK
<1>8. ASSUME NEW g \in Calls, GetInitial(g) PROVE CaughtUp(c, h, m)'
    <2>1. CASE g = h
        <3>1. held'[h] = Book(m, rev'[m]) /\ held'[h] # NoBook
            BY <1>4, <1>8, <2>1, BookFacts DEF GetInitial, TypeOK
        <3> QED BY <3>1 DEF CaughtUp
    <2>2. CASE g # h
        BY <1>8, <1>b, <2>2 DEF GetInitial, TypeOK
    <2> QED BY <2>1, <2>2
<1>9. ASSUME NEW g \in Calls, Take(g) PROVE CaughtUp(c, h, m)'
    <2>1. CASE g = h
        <3>0. pc[h] = "loop" /\ UNCHANGED <<rev, dropped, wire, view>>
            BY <1>9, <2>1 DEF Take
        <3>a. held[h] = NoBook
            BY <1>4, <3>0 DEF CallOK, Sending
        <3>b. chan[h] # << >> /\ chan'[h] = Tail(chan[h])
            BY <1>4, <1>9, <2>1 DEF Take, TypeOK
        <3>1. /\ pc[h] = "loop" /\ chan[h] # << >> /\ chan'[h] = Tail(chan[h])
              /\ UNCHANGED <<rev, dropped, wire, view>> /\ held[h] = NoBook
            BY <3>0, <3>a, <3>b
        <3>2. /\ Len(chan[h]) \in Nat /\ Head(chan[h]) = chan[h][1]
              /\ Head(chan[h]) \in Books /\ Len(chan'[h]) = Len(chan[h]) - 1
              /\ \A i \in 1..Len(chan'[h]) : chan'[h][i] = chan[h][i + 1]
            BY <1>4, <3>1, HeadTailProperties
        <3>3. \A i \in 1..Len(chan[h]) :
                i # 1 => i - 1 \in 1..Len(chan'[h]) /\ chan'[h][i - 1] = chan[h][i]
            BY <3>2
        <3>4. CASE Head(chan[h]).market = m
            <4>1. held'[h] = Head(chan[h]) /\ held'[h] # NoBook
                <5>1. /\ held \in [Calls -> Books \cup {NoBook}] /\ req[h] = m
                      /\ h \in Calls /\ Head(chan[h]) # NoBook
                    BY <1>4, <3>2, BookFacts DEF TypeOK
                <5>2. Matches(h, Head(chan[h]))
                    BY <3>4, <5>1 DEF Matches
                <5>3. held' = [held EXCEPT ![h] = Head(chan[h])]
                    BY <1>9, <2>1, <5>2 DEF Take
                <5> QED BY <5>1, <5>3
            <4>2. ASSUME m \notin dropped[h], ~Has(chan'[h], m)
                  PROVE  held'[h] = Book(m, rev[m])
                <5>1. 1 \in 1..Len(chan[h])
                    BY <1>4, <3>1, HeadTailProperties
                <5>2. Has(chan[h], m)
                    BY <3>2, <3>4, <5>1 DEF Has
                <5>3. PICK i \in 1..Len(chan[h]) : chan[h][i] = Book(m, rev[m])
                    BY <1>5, <3>1, <4>2, <5>2 DEF NewestQueued
                <5>4. chan[h][i].market = m
                    BY <1>4, <5>3, BookFacts
                <5>5. i = 1
                    BY <3>3, <4>2, <5>3, <5>4 DEF Has
                <5> QED BY <3>2, <4>1, <5>3, <5>5
            <4> QED BY <3>1, <4>1, <4>2 DEF CaughtUp
        <3>5. CASE Head(chan[h]).market # m
            <4>1. held'[h] = held[h]
                <5>1. held[h] \in Books \cup {NoBook} /\ req[h] = m /\ m # AllMarkets
                    BY <1>4 DEF TypeOK
                <5>2. ~Matches(h, Head(chan[h]))
                    BY <3>5, <5>1 DEF Matches
                <5>3. UNCHANGED held
                    BY <1>9, <2>1, <5>2 DEF Take
                <5> QED BY <5>3
            <4>2. Has(chan[h], m) => Has(chan'[h], m)
                <5>1. SUFFICES ASSUME NEW i \in 1..Len(chan[h]), chan[h][i].market = m
                               PROVE  Has(chan'[h], m)
                    BY DEF Has
                <5>2. i # 1
                    BY ONLY <3>2, <3>5, <5>1
                <5>3. i - 1 \in 1..Len(chan'[h]) /\ chan'[h][i - 1] = chan[h][i]
                    BY ONLY <3>3, <5>2
                <5> QED BY ONLY <5>1, <5>3 DEF Has
            <4>3. m \notin dropped'[h] /\ ~Has(chan'[h], m) =>
                    m \notin dropped[h] /\ ~Has(chan[h], m)
                BY <3>1, <4>2
            <4>4. CaughtUp(c, h, m)
                BY <1>5, <3>1
            <4> QED BY <3>1, <4>1, <4>3, <4>4 DEF CaughtUp
        <3> QED BY <3>4, <3>5
    <2>2. CASE g # h
        BY <1>9, <1>b, <2>2 DEF Take, TypeOK
    <2> QED BY <2>1, <2>2
<1>10. ASSUME NEW g \in Calls, Send(g) PROVE CaughtUp(c, h, m)'
    <2>1. CASE g = h
        <3>1. /\ held[h] \in Books /\ held'[h] = NoBook /\ held[h] # NoBook
              /\ wire'[h] = Append(wire[h], held[h])
              /\ UNCHANGED <<rev, dropped, chan, view>>
              /\ pc[h] \in {"initial", "loop", "send"}
            BY <1>4, <1>10, <2>1, BookFacts DEF Send, Sending, CallOK, TypeOK
        <3>2. wire'[h] # << >> /\ wire'[h][Len(wire'[h])] = held[h]
            <4> DEFINE q == Append(wire[h], held[h])
            <4>1. q # << >> /\ q[Len(q)] = held[h]
                BY <1>4, <3>1, AppendProperties
            <4>2. wire'[h] = q
                BY <3>1
            <4> HIDE DEF q
            <4> QED BY <4>1, <4>2
        <3> QED BY <1>5, <3>1, <3>2 DEF CaughtUp
    <2>2. CASE g # h
        BY <1>10, <1>b, <2>2 DEF Send, TypeOK
    <2> QED BY <2>1, <2>2
<1>11. ASSUME NEW g \in Calls,
              SendLost(g) \/ Return(g) \/ Unsubscribe(g) \/ ContextDone(g)
       PROVE  CaughtUp(c, h, m)'
    <2>1. g # h
        BY <1>4, <1>11 DEF SendLost, Return, Unsubscribe, ContextDone, TypeOK
    <2> QED BY <1>11, <1>b, <2>1 DEF SendLost, Return, Unsubscribe, ContextDone,
            TypeOK
<1>12. ASSUME NEW d \in Clients, NEW g \in Calls, Open(d, g)
       PROVE  CaughtUp(c, h, m)'
    <2>1. g # h
        BY <1>4, <1>12 DEF Open
    <2> QED BY <1>12, <1>b, <2>1 DEF Open, TypeOK
<1>13. ASSUME NEW d \in Clients, Recv(d) PROVE CaughtUp(c, h, m)'
    <2>1. CASE d = c
        <3>1. /\ wire[h] # << >> /\ wire'[h] = Tail(wire[h])
              /\ view' = [view EXCEPT ![c][Head(wire[h]).market] = Head(wire[h]).rev]
              /\ UNCHANGED <<rev, dropped, chan, held, pc>>
            BY <1>3, <1>13, <2>1 DEF Recv, TypeOK
        <3>2. /\ Len(wire[h]) \in Nat /\ Len(wire[h]) >= 1
              /\ Head(wire[h]) = wire[h][1]
              /\ Len(wire'[h]) = Len(wire[h]) - 1 /\ wire'[h] \in Seq(Books)
              /\ \A i \in 1..Len(wire'[h]) : wire'[h][i] = wire[h][i + 1]
            BY <1>4, <3>1, HeadTailProperties
        <3>3. ASSUME m \notin dropped[h], ~Has(chan[h], m), held[h] = NoBook
              PROVE  IF wire'[h] # << >>
                     THEN wire'[h][Len(wire'[h])] = Book(m, rev[m])
                     ELSE view'[c][m] = rev[m]
            <4>1. wire[h][Len(wire[h])] = Book(m, rev[m])
                BY <1>4, <1>5, <3>1, <3>3 DEF CaughtUp
            <4>2. CASE wire'[h] # << >>
                <5>1. Len(wire'[h]) \in 1..Len(wire'[h])
                    BY <3>2, <4>2
                <5>2. wire'[h][Len(wire'[h])] = wire[h][Len(wire'[h]) + 1]
                    BY <3>2, <5>1
                <5>3. Len(wire'[h]) + 1 = Len(wire[h])
                    BY <3>2
                <5> QED BY <4>1, <4>2, <5>2, <5>3
            <4>3. CASE wire'[h] = << >>
                <5>1. Len(wire[h]) = 1
                    BY <3>2, <4>3
                <5>2. Head(wire[h]).market = m /\ Head(wire[h]).rev = rev[m]
                    BY <1>4, <3>2, <4>1, <5>1, BookFacts
                <5> QED BY <1>4, <3>1, <4>3, <5>2 DEF TypeOK
            <4> QED BY <4>2, <4>3
        <3> QED BY <1>4, <1>5, <3>1, <3>3 DEF CaughtUp
    <2>2. CASE d # c
        <3>1. attached[d] # h
            BY <1>3, <2>2 DEF CallsExclusive, ClientsOK, TypeOK
        <3> QED BY <1>13, <1>b, <2>2, <3>1 DEF Recv, TypeOK
    <2> QED BY <2>1, <2>2
<1>14. ASSUME NEW d \in Clients, Disconnect(d) PROVE CaughtUp(c, h, m)'
    <2>1. d # c
        BY <1>1, <1>14 DEF Disconnect, TypeOK
    <2>2. attached[d] # h
        BY <1>3, <2>1 DEF CallsExclusive, ClientsOK, TypeOK
    <2> QED BY <1>14, <1>b, <2>2 DEF Disconnect, TypeOK
<1>15. CASE AggregatorRestart
    BY <1>1, <1>15 DEF AggregatorRestart
<1>16. CASE UNCHANGED vars
    BY <1>16, <1>b DEF vars
<1> QED
    BY <1>6, <1>7, <1>8, <1>9, <1>10, <1>11, <1>12, <1>13, <1>14, <1>15, <1>16
    DEF Next, HandlerStep

-----------------------------------------------------------------------------
(* The theorems *)

LEMMA InitInv == Init => IInv
<1> SUFFICES ASSUME Init PROVE IInv
    OBVIOUS
<1> USE DEF Init
<1>1. TypeOK
    BY DEF TypeOK, Stages, Keys
<1>2. CallsExclusive
    BY DEF CallsExclusive, Registered, ClientsOK, CallOK, Running, Sending
<1>3. ChannelOrder /\ NoGap /\ FloorKept
    BY DEF ChannelOrder, NoGap, FloorKept, PathKept
<1> QED BY <1>1, <1>2, <1>3 DEF IInv

\* IInv is an invariant: each of its parts is preserved by every step that
\* starts in a state where all of them hold.
THEOREM Invariance == Spec => []IInv
<1>1. IInv /\ [Next]_vars => IInv'
    BY TypeStep, ExclusiveStep, NewestStep, GapStep, FloorStep DEF IInv
<1> QED BY <1>1, InitInv, PTL DEF Spec

\* The store, its calls and its clients are always well formed.
THEOREM TypeCorrect == Spec => []TypeOK
BY Invariance, PTL DEF IInv

\* Subscribers and running handlers are always the same, and no client ever
\* receives over another's call or a book it did not ask for.
THEOREM ExclusiveCalls == Spec => []CallsExclusive
BY Invariance, PTL DEF IInv

\* Unless it overflowed, a subscriber's channel ends with the newest book of
\* every market it holds, and holds each market's books in order.
THEOREM ChannelsOrdered == Spec => []ChannelOrder
BY Invariance, PTL DEF IInv

\* No Upsert ever falls between a call's subscription, its initial read and
\* the books it forwards.
THEOREM GapFree == Spec => []NoGap
BY Invariance, PTL DEF IInv

\* Nothing a client receives is older than its call's subscription.
THEOREM FloorsKept == Spec => []FloorKept
BY Invariance, PTL DEF IInv

\* For every client and market the system implements ResyncFeed: every step
\* produces a revision, subscribes, delivers a revision no older than the
\* subscription and no newer than the store's, or is invisible.
THEOREM Implementation == Spec => ImplementsResyncFeed
<1>1. Init => \A c \in Clients, m \in Keys : Feed(c, m)!Init
    BY DEF Init, Feed!Init
<1>2. IInv /\ [Next]_vars =>
        \A c \in Clients, m \in Keys : [Feed(c, m)!Next]_(Feed(c, m)!vars)
    <2> SUFFICES ASSUME IInv, [Next]_vars, NEW c \in Clients, NEW m \in Keys
                 PROVE  [Feed(c, m)!Next]_(Feed(c, m)!vars)
        OBVIOUS
    <2> USE DEF Feed!Next, Feed!vars, Feed!Produce, Feed!Resubscribe, Feed!Deliver
    <2>0. TypeOK /\ TypeOK' /\ CallsExclusive /\ FloorKept
        BY TypeStep DEF IInv
    <2>1. ASSUME NEW n \in Markets, Upsert(n)
          PROVE  [Feed(c, m)!Next]_(Feed(c, m)!vars)
        <3>1. /\ rev'[m] = rev[m] \/ rev'[m] = rev[m] + 1
              /\ floor' = floor /\ view' = view
            BY <2>0, <2>1 DEF Upsert, clientVars, TypeOK
        <3> QED BY <3>1
    <2>2. CASE AggregatorRestart
        <3>1. /\ rev'[m] = rev[m] \/ rev'[m] = rev[m] + 1
              /\ floor' = floor /\ view' = view
            BY <2>2 DEF AggregatorRestart
        <3> QED BY <3>1
    <2>3. ASSUME NEW h \in Calls, Subscribe(h)
          PROVE  [Feed(c, m)!Next]_(Feed(c, m)!vars)
        <3>1. /\ floor'[c][m] = floor[c][m] \/ floor'[c][m] = rev[m]
              /\ rev' = rev /\ view' = view
            BY <2>0, <2>3 DEF Subscribe, clientVars, TypeOK
        <3> QED BY <3>1
    <2>4. ASSUME Recv(c) PROVE [Feed(c, m)!Next]_(Feed(c, m)!vars)
        <3>1. /\ floor' = floor /\ rev' = rev
              /\ view'[c][m] = view[c][m]
                    \/ (floor[c][m] <= view'[c][m] /\ view'[c][m] <= rev[m])
            BY <2>0, <2>4, RecvRange
        <3>2. floor[c][m] \in Nat /\ rev[m] \in Nat /\ view'[c][m] \in Int
            BY <2>0 DEF TypeOK
        <3> QED BY <3>1, <3>2
    <2>5. ASSUME NEW d \in Clients, Recv(d), d # c
          PROVE  [Feed(c, m)!Next]_(Feed(c, m)!vars)
        <3>1. view'[c] = view[c] /\ floor' = floor /\ rev' = rev
            BY <2>0, <2>5 DEF Recv, storeVars, TypeOK
        <3> QED BY <3>1
    <2>6. CASE UNCHANGED <<rev, floor, view>>
        BY <2>6
    <2> QED
        BY <2>1, <2>2, <2>3, <2>4, <2>5, <2>6 DEF Next, HandlerStep, GetInitial,
            Take, Send, SendLost, Return, Unsubscribe, ContextDone, Open,
            Disconnect, vars, storeVars, clientVars
<1> QED BY <1>1, <1>2, Invariance, PTL DEF Spec, ImplementsResyncFeed
=============================================================================

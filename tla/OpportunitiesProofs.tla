------------------------ MODULE OpportunitiesProofs ------------------------
(***************************************************************************)
(* That a client is told of an opportunity once per window, for all        *)
(* markets, calls, windows and capacities.                                 *)
(*                                                                         *)
(* A copy is queued when the record of the last publication is a window    *)
(* old.  No copy is younger than that record (Recorded), so every earlier  *)
(* copy is then a window old, too.  CallsOK makes a call start without     *)
(* copies of a former one.                                                 *)
(***************************************************************************)
EXTENDS Opportunities, SequenceTheorems, TLAPS

USE OpportunityAssumption

LEMMA OlderFacts ==
    ASSUME NEW n \in Ages
    PROVE  /\ Older(n) \in Ages /\ n <= Older(n)
           /\ Older(n) < DedupeWindow => n < DedupeWindow
           /\ n = DedupeWindow => Older(n) = DedupeWindow
           /\ \A k \in Ages : k <= n => Older(k) <= Older(n)
    BY DEF Older, Ages

\* What a tick does to a copy.
LEMMA AgedFacts ==
    ASSUME NEW c \in Copies \cup {NoOpp}
    PROVE  /\ AgedCopy(c) \in Copies \cup {NoOpp}
           /\ c = NoOpp <=> AgedCopy(c) = NoOpp
           /\ c \in Copies => /\ AgedCopy(c) \in Copies
                              /\ AgedCopy(c).opp = c.opp
                              /\ AgedCopy(c).age = Older(c.age)
<1>1. CASE c = NoOpp
    BY <1>1 DEF AgedCopy
<1>2. CASE c \in Copies
    <2>1. c # NoOpp /\ c.opp \in Opps /\ c.age \in Ages
        BY <1>2 DEF Copies
    <2>2. AgedCopy(c) = [c EXCEPT !.age = Older(c.age)]
        BY <2>1 DEF AgedCopy
    <2>3. AgedCopy(c) = [opp |-> c.opp, age |-> Older(c.age)]
        BY <1>2, <2>2 DEF Copies
    <2>4. Older(c.age) \in Ages
        BY <2>1, OlderFacts
    <2>5. AgedCopy(c) \in Copies
        BY <2>1, <2>3, <2>4 DEF Copies
    <2> QED BY <2>1, <2>3, <2>5
<1> QED BY <1>1, <1>2

-----------------------------------------------------------------------------
(* Types *)

LEMMA CopyFacts ==
    /\ \A o \in Opps : [opp |-> o, age |-> 0] \in Copies
    /\ \A c \in Copies : c.opp \in Opps /\ c.age \in Ages /\ c # NoOpp
    /\ DedupeWindow \in Ages /\ 0 \in Ages
    BY DEF Copies, Ages

LEMMA TickType ==
    ASSUME TypeOK, Tick
    PROVE  TypeOK'
<1> USE DEF TypeOK, Tick, loopVars
<1>1. last' \in [Opps -> Ages]
    BY OlderFacts
<1>2. told' \in [Calls -> [Opps -> Ages]]
    BY OlderFacts
<1>3. held' \in [Calls -> Copies \cup {NoOpp}]
    BY AgedFacts
<1>4. ASSUME NEW h \in Calls
      PROVE  [i \in DOMAIN chan[h] |-> AgedCopy(chan[h][i])] \in Seq(Copies)
    <2>1. chan[h] \in Seq(Copies)
        OBVIOUS
    <2>2. Len(chan[h]) \in Nat /\ DOMAIN chan[h] = 1..Len(chan[h])
        BY <2>1
    <2>3. \A i \in DOMAIN chan[h] : AgedCopy(chan[h][i]) \in Copies
        BY <2>1, AgedFacts
    <2> QED BY <2>2, <2>3
<1>5. chan' \in [Calls -> Seq(Copies)]
    BY <1>4
<1> QED BY <1>1, <1>2, <1>3, <1>5

LEMMA PublishType ==
    ASSUME TypeOK, PublishOpportunities
    PROVE  TypeOK'
<1> USE DEF TypeOK, PublishOpportunities, callVars
<1>1. found \in Opps /\ found' = NoOpp
    OBVIOUS
<1>2. CASE Due(found)
    <2>1. last' \in [Opps -> Ages]
        BY <1>1, <1>2, CopyFacts
    <2>2. \A h \in Calls : Append(chan[h], [opp |-> found, age |-> 0]) \in Seq(Copies)
        BY <1>1, CopyFacts
    <2> DEFINE longer(h) == IF h \in subscribers /\ HasRoom(h)
                            THEN Append(chan[h], [opp |-> found, age |-> 0]) ELSE chan[h]
               other(h) == IF h \notin subscribers THEN missed[h]
                           ELSE IF HasRoom(h) THEN missed[h] \ {found}
                           ELSE missed[h] \cup {found}
    <2>3. \A h \in Calls : longer(h) \in Seq(Copies) /\ other(h) \in SUBSET Opps
        BY <1>1, <2>2
    <2>6. ASSUME NEW h \in Calls
          PROVE  Len(longer(h)) <= ChanCap
        <3>1. /\ Len(chan[h]) \in Nat /\ Len(chan[h]) <= ChanCap /\ ChanCap \in Nat
              /\ Len(Append(chan[h], [opp |-> found, age |-> 0])) = Len(chan[h]) + 1
            BY OpportunityAssumption, AppendProperties
        <3> QED BY <3>1 DEF HasRoom
    <2>4. chan' = [h \in Calls |-> longer(h)] /\ missed' = [h \in Calls |-> other(h)]
        BY <1>2 DEF Broadcast
    <2> HIDE DEF longer, other
    <2>5. /\ chan' \in [Calls -> Seq(Copies)] /\ missed' \in [Calls -> SUBSET Opps]
          /\ \A h \in Calls : Len(chan'[h]) <= ChanCap
        BY <2>3, <2>4, <2>6
    <2> QED BY <1>1, <2>1, <2>5
<1>3. CASE ~Due(found)
    BY <1>1, <1>3
<1> QED BY <1>2, <1>3

LEMMA TakeType ==
    ASSUME TypeOK, NEW h \in Calls, Take(h)
    PROVE  TypeOK'
<1> USE DEF TypeOK, Take, loopVars, Stages
<1>1. chan[h] \in Seq(Copies) /\ chan[h] # << >>
    OBVIOUS
<1>2. Head(chan[h]) \in Copies /\ Tail(chan[h]) \in Seq(Copies)
    BY <1>1, HeadTailProperties
<1>3. chan' \in [Calls -> Seq(Copies)]
    BY <1>2
<1>4. held' \in [Calls -> Copies \cup {NoOpp}] /\ pc' \in [Calls -> Stages]
    <2>1. CASE Wanted(h, Head(chan[h]).opp)
        <3>1. /\ held' = [held EXCEPT ![h] = Head(chan[h])]
              /\ pc' = [pc EXCEPT ![h] = "send"]
            BY <2>1
        <3>2. held \in [Calls -> Copies \cup {NoOpp}] /\ pc \in [Calls -> Stages]
            OBVIOUS
        <3>3. Head(chan[h]) \in Copies \cup {NoOpp}
            BY <1>2
        <3> QED BY ONLY <3>1, <3>2, <3>3 DEF Stages
    <2>2. CASE ~Wanted(h, Head(chan[h]).opp)
        BY <2>2
    <2> QED BY <2>1, <2>2
<1> QED BY <1>3, <1>4

LEMMA SentType ==
    ASSUME TypeOK, CallsOK, NEW h \in Calls, Send(h) \/ SendLost(h)
    PROVE  TypeOK'
<1> USE DEF TypeOK, Sent, Send, SendLost, loopVars, serverVars, Stages
<1>1. held[h] \in Copies
    BY DEF CallsOK, HandlerOK
<1>2. held[h].opp \in Opps /\ held[h].age \in Ages
    BY <1>1, CopyFacts
<1>3. told' \in [Calls -> [Opps -> Ages]]
    <2>1. [told[h] EXCEPT ![held[h].opp] = held[h].age] \in [Opps -> Ages]
        BY <1>2
    <2>2. CASE Send(h)
        BY <2>1, <2>2
    <2>3. CASE SendLost(h)
        BY <2>3
    <2> QED BY <2>2, <2>3
<1> QED BY <1>3

LEMMA CallType ==
    ASSUME TypeOK, CallsOK, NEW h \in Calls, CallStep(h)
    PROVE  TypeOK'
<1> USE DEF TypeOK, loopVars, serverVars, Stages
<1>1. CASE Open(h)
    <2>1. told' \in [Calls -> [Opps -> Ages]]
        BY <1>1, CopyFacts DEF Open
    <2> QED BY <1>1, <2>1 DEF Open
<1>2. CASE Subscribe(h)
    <2>1. << >> \in Seq(Copies)
        OBVIOUS
    <2> QED BY <1>2, <2>1 DEF Subscribe
<1>3. CASE Take(h)
    BY <1>3, TakeType
<1>4. CASE Send(h) \/ SendLost(h)
    BY <1>4, SentType
<1>5. CASE Return(h)
    BY <1>5 DEF Return
<1>6. CASE Unsubscribe(h)
    BY <1>6 DEF Unsubscribe
<1>7. CASE Disconnect(h)
    BY <1>7 DEF Disconnect
<1>8. CASE ContextDone(h)
    BY <1>8 DEF ContextDone
<1> QED BY <1>1, <1>2, <1>3, <1>4, <1>5, <1>6, <1>7, <1>8 DEF CallStep

LEMMA TypeStep == TypeOK /\ CallsOK /\ [Next]_vars => TypeOK'
<1> SUFFICES ASSUME TypeOK, CallsOK, [Next]_vars PROVE TypeOK'
    OBVIOUS
<1> USE DEF loopVars, serverVars, callVars
<1>1. ASSUME NEW m \in MarketSet, BookUpsert(m) PROVE TypeOK'
    BY <1>1 DEF TypeOK, BookUpsert
<1>2. CASE Tick
    BY <1>2, TickType
<1>3. CASE LoopTick
    BY <1>3 DEF TypeOK, LoopTick
<1>4. CASE LoopScan
    <2>1. todo \in Seq(MarketSet) /\ todo # << >>
        BY <1>4 DEF TypeOK, LoopScan
    <2>2. Head(todo) \in MarketSet /\ Tail(todo) \in Seq(MarketSet)
        BY <2>1, HeadTailProperties
    <2> QED BY <1>4, <2>2 DEF TypeOK, LoopScan
<1>5. CASE PublishOpportunities
    BY <1>5, PublishType
<1>6. ASSUME NEW h \in Calls, CallStep(h) PROVE TypeOK'
    BY <1>6, CallType
<1>7. CASE UNCHANGED vars
    BY <1>7 DEF TypeOK, vars
<1> QED BY <1>1, <1>2, <1>3, <1>4, <1>5, <1>6, <1>7 DEF Next

-----------------------------------------------------------------------------
(* Calls *)

LEMMA CallsStep == TypeOK /\ CallsOK /\ [Next]_vars => CallsOK'
<1> SUFFICES ASSUME TypeOK, CallsOK, [Next]_vars PROVE CallsOK'
    OBVIOUS
<1> USE DEF CallsOK, Registered, HandlerOK, loopVars, serverVars, callVars
<1>1. ASSUME NEW m \in MarketSet, BookUpsert(m) PROVE CallsOK'
    BY <1>1 DEF BookUpsert
<1>2. CASE Tick
    <2>1. ASSUME NEW h \in Calls PROVE held'[h] # NoOpp <=> pc'[h] = "send"
        BY <1>2, AgedFacts DEF Tick, TypeOK
    <2>2. ASSUME NEW h \in Calls, NEW o \in Opps, pc'[h] = "start"
          PROVE  told'[h][o] = DedupeWindow
        <3>1. told[h][o] = DedupeWindow
            BY <1>2, <2>2 DEF Tick
        <3> QED BY <1>2, <3>1, OlderFacts, CopyFacts DEF Tick
    <2> QED BY <1>2, <2>1, <2>2 DEF Tick
<1>3. CASE LoopTick \/ LoopScan
    BY <1>3 DEF LoopTick, LoopScan
<1>4. CASE PublishOpportunities
    BY <1>4 DEF PublishOpportunities
<1>5. ASSUME NEW h \in Calls, CallStep(h) PROVE CallsOK'
    <2>1. CASE Open(h)
        BY <2>1 DEF Open, TypeOK
    <2>2. CASE Subscribe(h)
        BY <2>2 DEF Subscribe, TypeOK
    <2>3. CASE Take(h)
        <3>1. Head(chan[h]) # NoOpp
            BY <2>3, HeadTailProperties, CopyFacts DEF Take, TypeOK
        <3>2. CASE UNCHANGED <<held, pc>>
            BY <2>3, <3>2 DEF Take
        <3>3. CASE /\ held' = [held EXCEPT ![h] = Head(chan[h])]
                   /\ pc' = [pc EXCEPT ![h] = "send"]
            <4>1. \A g \in Calls : held'[g] # NoOpp <=> pc'[g] = "send"
                BY <3>1, <3>3 DEF TypeOK
            <4>2. subscribers' = {g \in Calls : pc'[g] \in {"loop", "send", "return"}}
                BY <2>3, <3>3 DEF Take, TypeOK
            <4> QED BY <2>3, <3>3, <4>1, <4>2 DEF Take, TypeOK
        <3> QED BY <2>3, <3>2, <3>3 DEF Take
    <2>4. CASE Send(h) \/ SendLost(h)
        <3>1. /\ pc[h] = "send" /\ UNCHANGED subscribers
              /\ pc' = [pc EXCEPT ![h] = "loop"]
              /\ held' = [held EXCEPT ![h] = NoOpp]
            BY <2>4 DEF Send, SendLost, Sent
        <3>2. ASSUME NEW g \in Calls, g # h PROVE told'[g] = told[g]
            BY <2>4, <3>2 DEF Send, SendLost, TypeOK
        <3>3. Registered'
            BY ONLY <3>1, Registered, TypeOK DEF Registered, TypeOK
        <3>4. ASSUME NEW g \in Calls PROVE HandlerOK(g)'
            <4>1. CASE g = h
                BY <3>1, <4>1 DEF TypeOK
            <4>2. CASE g # h
                <5>1. pc'[g] = pc[g] /\ held'[g] = held[g] /\ told'[g] = told[g]
                    BY <3>1, <3>2, <4>2 DEF TypeOK
                <5> QED BY <5>1
            <4> QED BY <4>1, <4>2
        <3> QED BY ONLY <3>3, <3>4 DEF CallsOK
    <2>5. CASE Return(h)
        BY <2>5 DEF Return, TypeOK
    <2>6. CASE Unsubscribe(h)
        BY <2>6 DEF Unsubscribe, TypeOK
    <2>7. CASE Disconnect(h) \/ ContextDone(h)
        BY <2>7 DEF Disconnect, ContextDone
    <2> QED BY <1>5, <2>1, <2>2, <2>3, <2>4, <2>5, <2>6, <2>7 DEF CallStep
<1>6. CASE UNCHANGED vars
    BY <1>6 DEF vars
<1> QED BY <1>1, <1>2, <1>3, <1>4, <1>5, <1>6 DEF Next

-----------------------------------------------------------------------------
(* Once per window *)

\* What the invariant says of a call and an opportunity.
LEMMA OnceNow ==
    ASSUME TypeOK, OncePerWindow, NEW h \in subscribers, NEW o \in Opps
    PROVE  /\ h \in Calls /\ Once(h, o) /\ Recorded(h, o)
           /\ chan[h] \in Seq(Copies) /\ Len(chan[h]) \in Nat
           /\ \A i \in 1..Len(chan[h]) : chan[h][i] \in Copies
           /\ held[h] \in Copies \cup {NoOpp}
           /\ last[o] \in Ages /\ told[h][o] \in Ages
    BY DEF OncePerWindow, TypeOK

LEMMA OnceTick ==
    ASSUME TypeOK, OncePerWindow, Tick, NEW h \in subscribers, NEW o \in Opps
    PROVE  Once(h, o)' /\ Recorded(h, o)'
<1>1. /\ Once(h, o) /\ Recorded(h, o)
      /\ \A i \in 1..Len(chan[h]) : chan[h][i] \in Copies
      /\ held[h] \in Copies \cup {NoOpp}
      /\ last[o] \in Ages /\ told[h][o] \in Ages
    BY OnceNow
<1>2. /\ last'[o] = Older(last[o]) /\ told'[h][o] = Older(told[h][o])
      /\ held'[h] = AgedCopy(held[h])
      /\ chan'[h] = [i \in DOMAIN chan[h] |-> AgedCopy(chan[h][i])]
    BY OnceNow DEF Tick
<1>3. /\ Len(chan'[h]) = Len(chan[h])
      /\ \A i \in 1..Len(chan[h]) : chan'[h][i] = AgedCopy(chan[h][i])
    BY <1>2, OnceNow
<1>4. ASSUME NEW c \in Copies \cup {NoOpp}
      PROVE  /\ Young(AgedCopy(c), o) => Young(c, o)
             /\ c # NoOpp /\ last[o] <= c.age => last'[o] <= AgedCopy(c).age
    <2>1. CASE c = NoOpp
        BY <2>1, AgedFacts DEF Young
    <2>2. CASE c \in Copies
        <3>1. /\ c.age \in Ages /\ AgedCopy(c).opp = c.opp
              /\ AgedCopy(c).age = Older(c.age)
            BY <2>2, AgedFacts, CopyFacts
        <3>2. Older(c.age) < DedupeWindow => c.age < DedupeWindow
            BY <3>1, OlderFacts
        <3>3. last[o] <= c.age => Older(last[o]) <= Older(c.age)
            BY <1>1, <3>1, OlderFacts
        <3> QED BY <1>2, <2>2, <3>1, <3>2, <3>3, CopyFacts DEF Young
    <2> QED BY <2>1, <2>2
<1>5. told[h][o] = DedupeWindow => told'[h][o] = DedupeWindow
    BY <1>2, OlderFacts, CopyFacts
<1>6. last'[o] <= told'[h][o]
    BY <1>1, <1>2, OlderFacts DEF Recorded
<1>7. Once(h, o)'
    BY <1>1, <1>2, <1>3, <1>4, <1>5 DEF Once
<1>8. ASSUME NEW i \in 1..Len(chan'[h]), chan'[h][i].opp = o
      PROVE  last'[o] <= chan'[h][i].age
    <2>1. i \in 1..Len(chan[h]) /\ chan'[h][i] = AgedCopy(chan[h][i])
        BY <1>3, <1>8
    <2>2. chan[h][i] \in Copies /\ chan[h][i] # NoOpp
        BY <1>1, <2>1, CopyFacts
    <2>3. chan[h][i].opp = o
        BY <1>8, <2>1, <2>2, AgedFacts
    <2>4. last[o] <= chan[h][i].age
        BY <1>1, <2>1, <2>3 DEF Recorded
    <2> QED BY <1>4, <2>1, <2>2, <2>4
<1>9. ASSUME held'[h] # NoOpp, held'[h].opp = o PROVE last'[o] <= held'[h].age
    <2>1. held[h] \in Copies /\ held[h] # NoOpp
        BY <1>1, <1>2, <1>9, AgedFacts
    <2>2. held[h].opp = o
        BY <1>2, <1>9, <2>1, AgedFacts
    <2>3. last[o] <= held[h].age
        BY <1>1, <2>1, <2>2 DEF Recorded
    <2> QED BY <1>2, <1>4, <2>1, <2>3
<1>10. Recorded(h, o)'
    BY <1>6, <1>8, <1>9 DEF Recorded
<1> QED BY <1>7, <1>10

LEMMA OncePublish ==
    ASSUME TypeOK, OncePerWindow, PublishOpportunities,
           NEW h \in subscribers, NEW o \in Opps
    PROVE  Once(h, o)' /\ Recorded(h, o)'
<1>1. /\ h \in Calls /\ Once(h, o) /\ Recorded(h, o)
      /\ chan[h] \in Seq(Copies) /\ Len(chan[h]) \in Nat
      /\ \A i \in 1..Len(chan[h]) : chan[h][i] \in Copies
      /\ held[h] \in Copies \cup {NoOpp}
      /\ last[o] \in Ages /\ told[h][o] \in Ages
    BY OnceNow
<1>2. held' = held /\ told' = told
    BY DEF PublishOpportunities, callVars
<1>3. CASE ~Due(found)
    BY <1>1, <1>2, <1>3 DEF PublishOpportunities, Once, Recorded
<1>4. CASE Due(found)
    <2> DEFINE copy == [opp |-> found, age |-> 0]
    <2>1. /\ found \in Opps /\ copy \in Copies
          /\ copy.opp = found /\ copy.age = 0
        BY CopyFacts DEF PublishOpportunities, TypeOK
    <2> HIDE DEF copy
    <2>2. /\ last'[o] = IF o = found THEN 0 ELSE last[o]
          /\ chan'[h] = chan[h] \/ chan'[h] = Append(chan[h], copy)
        BY <1>1, <1>4, <2>1 DEF PublishOpportunities, Broadcast, TypeOK, copy
    <2>3. o = found => last[o] = DedupeWindow
        BY <1>1, <1>4 DEF Due, Ages
    \* All earlier copies are a window old.
    <2>4. o = found => /\ \A i \in 1..Len(chan[h]) : ~Young(chan[h][i], o)
                       /\ ~Young(held[h], o) /\ told[h][o] = DedupeWindow
        BY <1>1, <2>3, CopyFacts DEF Recorded, Young, Ages
    <2>5. last'[o] <= last[o] /\ last'[o] \in Ages
        BY <1>1, <2>2, CopyFacts DEF Ages
    \* The new lastPublished is no later than any of them, either.
    <2>6. \A i \in 1..Len(chan[h]) :
              chan[h][i].opp = o => last'[o] <= chan[h][i].age
        BY <1>1, <2>5, CopyFacts DEF Recorded, Ages
    <2>7. /\ held[h] # NoOpp /\ held[h].opp = o => last'[o] <= held[h].age
          /\ last'[o] <= told[h][o]
        <3>1. last'[o] <= told[h][o]
            BY <1>1, <2>5 DEF Recorded, Ages
        <3> QED BY <1>1, <2>5, <3>1, CopyFacts DEF Recorded, Ages
    <2>8. CASE chan'[h] = chan[h]
        <3>1. Once(h, o)'
            BY <1>1, <1>2, <2>8 DEF Once
        <3>2. Recorded(h, o)'
            BY ONLY <1>2, <2>8, <2>6, <2>7 DEF Recorded
        <3> QED BY <3>1, <3>2
    <2>9. CASE chan'[h] = Append(chan[h], copy)
        <3>1. /\ Len(chan'[h]) = Len(chan[h]) + 1
              /\ \A i \in 1..Len(chan[h]) : chan'[h][i] = chan[h][i]
              /\ chan'[h][Len(chan[h]) + 1] = copy
            BY <1>1, <2>1, <2>9, AppendProperties
        <3>2. \A i \in 1..(Len(chan[h]) + 1) : i \in 1..Len(chan[h]) \/ i = Len(chan[h]) + 1
            BY <1>1
        <3>3. o # found => ~Young(copy, o)
            BY <2>1 DEF Young
        <3>4. Once(h, o)'
            <4>1. CASE o = found
                BY <1>1, <1>2, <2>4, <3>1, <3>2, <4>1 DEF Once
            <4>2. CASE o # found
                BY <1>1, <1>2, <3>1, <3>2, <3>3, <4>2 DEF Once
            <4> QED BY <4>1, <4>2
        <3>5. Recorded(h, o)'
            <4>1. \A i \in 1..Len(chan'[h]) :
                      chan'[h][i].opp = o => last'[o] <= chan'[h][i].age
                <5>2. copy.opp = o => last'[o] <= copy.age
                    BY <2>1, <2>2
                <5> QED BY <2>6, <3>1, <3>2, <5>2
            <4> QED BY ONLY <1>2, <2>7, <4>1 DEF Recorded
        <3> QED BY <3>4, <3>5
    <2> QED BY <2>2, <2>8, <2>9
<1> QED BY <1>3, <1>4

\* A step of another call, or of this one that leaves it no other copies.
LEMMA OnceSame ==
    ASSUME TypeOK, OncePerWindow, NEW h \in subscribers, NEW o \in Opps,
           last' = last, chan'[h] = chan[h], told'[h] = told[h],
           held'[h] \in {held[h], NoOpp}
    PROVE  Once(h, o)' /\ Recorded(h, o)'
<1>1. Once(h, o) /\ Recorded(h, o)
    BY OnceNow
<1>2. Young(held'[h], o) => Young(held[h], o)
    BY DEF Young
<1>3. held'[h] # NoOpp => held'[h] = held[h]
    OBVIOUS
<1>4. Once(h, o)'
    BY <1>1, <1>2 DEF Once
<1>5. Recorded(h, o)'
    BY <1>1, <1>3 DEF Recorded
<1> QED BY <1>4, <1>5

LEMMA OnceSubscribe ==
    ASSUME TypeOK, CallsOK, NEW h \in Calls, Subscribe(h), NEW o \in Opps
    PROVE  Once(h, o)' /\ Recorded(h, o)'
<1>1. chan'[h] = << >> /\ told' = told /\ last' = last /\ held' = held
    BY DEF Subscribe, TypeOK
<1>2. held[h] = NoOpp /\ told[h][o] = DedupeWindow
    BY DEF Subscribe, CallsOK, HandlerOK
<1>3. 1..Len(chan'[h]) = {}
    BY <1>1
<1>4. last[o] <= DedupeWindow
    BY DEF TypeOK, Ages
<1> QED BY <1>1, <1>2, <1>3, <1>4 DEF Once, Recorded, Young

LEMMA OnceTake ==
    ASSUME TypeOK, CallsOK, OncePerWindow, NEW h \in subscribers, Take(h),
           NEW o \in Opps
    PROVE  Once(h, o)' /\ Recorded(h, o)'
<1>1. /\ h \in Calls /\ Once(h, o) /\ Recorded(h, o)
      /\ chan[h] \in Seq(Copies) /\ chan[h] # << >>
    BY OnceNow DEF Take
<1>2. /\ Len(chan[h]) \in Nat /\ Len(chan[h]) >= 1
      /\ Head(chan[h]) = chan[h][1] /\ chan'[h] = Tail(chan[h])
      /\ Len(chan'[h]) = Len(chan[h]) - 1
      /\ \A i \in 1..Len(chan'[h]) : chan'[h][i] = chan[h][i + 1]
    BY <1>1, HeadTailProperties DEF Take, TypeOK
<1>3. last' = last /\ told' = told
    BY DEF Take
<1>4. held[h] = NoOpp /\ held'[h] \in {NoOpp, chan[h][1]}
    BY <1>1, <1>2 DEF Take, TypeOK, CallsOK, HandlerOK
<1>5. 1 \in 1..Len(chan[h]) /\ \A i \in 1..Len(chan'[h]) : i + 1 \in 1..Len(chan[h])
    BY <1>2
<1>6. Young(held'[h], o) => Young(chan[h][1], o)
    BY <1>4 DEF Young
<1>7. \A i, j \in 1..Len(chan'[h]) :
          Young(chan'[h][i], o) /\ Young(chan'[h][j], o) => i = j
    <2>1. ASSUME NEW i \in 1..Len(chan'[h]), NEW j \in 1..Len(chan'[h]),
                 Young(chan'[h][i], o), Young(chan'[h][j], o)
          PROVE  i = j
        <3>1. i + 1 = j + 1
            BY <1>1, <1>2, <1>5, <2>1 DEF Once
        <3> QED BY <1>2, <3>1
    <2> QED BY <2>1
<1>8. \A i \in 1..Len(chan'[h]) :
          Young(chan'[h][i], o) => ~Young(held'[h], o) /\ told'[h][o] = DedupeWindow
    <2>1. ASSUME NEW i \in 1..Len(chan'[h]), Young(chan'[h][i], o)
          PROVE  ~Young(held'[h], o) /\ told'[h][o] = DedupeWindow
        <3>1. i + 1 \in 1..Len(chan[h]) /\ Young(chan[h][i + 1], o) /\ i + 1 # 1
            BY <1>2, <1>5, <2>1
        <3>2. ~Young(chan[h][1], o)
            BY <1>1, <1>5, <3>1 DEF Once
        <3> QED BY <1>1, <1>3, <1>6, <3>1, <3>2 DEF Once
    <2> QED BY <2>1
<1>9. Young(held'[h], o) => told'[h][o] = DedupeWindow
    BY <1>1, <1>3, <1>5, <1>6 DEF Once
<1>10. Once(h, o)'
    BY <1>7, <1>8, <1>9 DEF Once
<1>11. Recorded(h, o)'
    BY <1>1, <1>2, <1>3, <1>4, <1>5 DEF Recorded
<1> QED BY <1>10, <1>11

LEMMA OnceSend ==
    ASSUME TypeOK, CallsOK, OncePerWindow, NEW h \in subscribers, Send(h),
           NEW o \in Opps
    PROVE  Once(h, o)' /\ Recorded(h, o)'
<1>1. h \in Calls /\ Once(h, o) /\ Recorded(h, o)
    BY OnceNow
<1>2. last' = last /\ chan' = chan /\ held'[h] = NoOpp
    BY <1>1 DEF Send, Sent, serverVars, TypeOK
<1>3. held[h] \in Copies /\ held[h] # NoOpp
    BY <1>1 DEF Send, Sent, CallsOK, HandlerOK, TypeOK
<1>4. told'[h][o] = IF o = held[h].opp THEN held[h].age ELSE told[h][o]
    BY <1>1 DEF Send, TypeOK
<1>5. CASE o # held[h].opp
    BY <1>1, <1>2, <1>4, <1>5 DEF Once, Recorded, Young
<1>6. CASE o = held[h].opp
    <2>1. held[h].age \in Ages /\ (~Young(held[h], o) => held[h].age = DedupeWindow)
        BY <1>3, <1>6, CopyFacts DEF Young, Ages
    <2>2. \A i \in 1..Len(chan[h]) : Young(chan[h][i], o) => told'[h][o] = DedupeWindow
        BY <1>1, <1>4, <1>6, <2>1 DEF Once
    <2>3. Once(h, o)'
        BY <1>1, <1>2, <2>2 DEF Once, Young
    <2>4. Recorded(h, o)'
        BY <1>1, <1>2, <1>3, <1>4, <1>6 DEF Recorded
    <2> QED BY <2>3, <2>4
<1> QED BY <1>5, <1>6

\* The other steps, and those of other calls, give a call no copies.
LEMMA OnceCall ==
    ASSUME TypeOK, CallsOK, OncePerWindow, NEW k \in Calls, CallStep(k),
           NEW h \in subscribers', NEW o \in Opps
    PROVE  Once(h, o)' /\ Recorded(h, o)'
<1> USE DEF serverVars, loopVars
<1>1. CASE Open(k)
    <2>1. h \in subscribers /\ h # k
        BY <1>1 DEF Open, CallsOK, Registered
    <2> QED BY <1>1, <2>1, OnceNow, OnceSame DEF Open, TypeOK
<1>2. CASE Subscribe(k)
    <2>1. CASE h = k
        BY <1>2, <2>1, OnceSubscribe
    <2>2. CASE h # k
        <3>1. h \in subscribers
            BY <1>2, <2>2 DEF Subscribe
        <3> QED BY <1>2, <2>2, <3>1, OnceNow, OnceSame DEF Subscribe, TypeOK
    <2> QED BY <2>1, <2>2
<1>3. CASE Take(k)
    <2>1. h \in subscribers
        BY <1>3 DEF Take
    <2>2. CASE h = k
        BY <1>3, <2>1, <2>2, OnceTake
    <2>3. CASE h # k
        <3>1. last' = last /\ told' = told /\ chan'[h] = chan[h]
            BY <1>3, <2>1, <2>3 DEF Take, TypeOK
        <3>2. held'[h] = held[h]
            BY <1>3, <2>1, <2>3 DEF Take, TypeOK
        <3> QED BY <2>1, <3>1, <3>2, OnceSame
    <2> QED BY <2>2, <2>3
<1>4. CASE Send(k)
    <2>1. h \in subscribers
        BY <1>4 DEF Send, Sent
    <2>2. CASE h = k
        BY <1>4, <2>1, <2>2, OnceSend
    <2>3. CASE h # k
        <3>1. last' = last /\ chan' = chan /\ held'[h] = held[h] /\ told'[h] = told[h]
            BY <1>4, <2>1, <2>3, OnceNow DEF Send, Sent, TypeOK
        <3> QED BY <2>1, <3>1, OnceSame
    <2> QED BY <2>2, <2>3
<1>5. CASE SendLost(k)
    <2>1. h \in subscribers
        BY <1>5 DEF SendLost, Sent
    <2>2. last' = last /\ chan' = chan /\ told' = told /\ held'[h] \in {held[h], NoOpp}
        BY <1>5, <2>1, OnceNow DEF SendLost, Sent, TypeOK
    <2> QED BY <2>1, <2>2, OnceSame
<1>6. CASE Return(k)
    <2>1. h \in subscribers
        BY <1>6 DEF Return
    <2>2. last' = last /\ chan' = chan /\ told' = told /\ held'[h] \in {held[h], NoOpp}
        BY <1>6, <2>1, OnceNow DEF Return, TypeOK
    <2> QED BY <2>1, <2>2, OnceSame
<1>7. CASE Unsubscribe(k)
    BY <1>7, OnceSame DEF Unsubscribe
<1>8. CASE Disconnect(k) \/ ContextDone(k)
    BY <1>8, OnceSame DEF Disconnect, ContextDone
<1> QED BY <1>1, <1>2, <1>3, <1>4, <1>5, <1>6, <1>7, <1>8 DEF CallStep

LEMMA OnceStep == TypeOK /\ CallsOK /\ OncePerWindow /\ [Next]_vars => OncePerWindow'
<1> SUFFICES ASSUME TypeOK, CallsOK, OncePerWindow, [Next]_vars,
                    NEW h \in subscribers', NEW o \in Opps
             PROVE  Once(h, o)' /\ Recorded(h, o)'
    BY DEF OncePerWindow
<1>1. ASSUME NEW m \in MarketSet, BookUpsert(m)
      PROVE  Once(h, o)' /\ Recorded(h, o)'
    BY <1>1, OnceSame DEF BookUpsert, serverVars, callVars
<1>2. CASE Tick
    BY <1>2, OnceTick DEF Tick
<1>3. CASE LoopTick \/ LoopScan
    BY <1>3, OnceSame DEF LoopTick, LoopScan, serverVars, callVars
<1>4. CASE PublishOpportunities
    BY <1>4, OncePublish DEF PublishOpportunities
<1>5. ASSUME NEW k \in Calls, CallStep(k)
      PROVE  Once(h, o)' /\ Recorded(h, o)'
    BY <1>5, OnceCall
<1>6. CASE UNCHANGED vars
    BY <1>6, OnceSame DEF vars, serverVars, callVars
<1> QED BY <1>1, <1>2, <1>3, <1>4, <1>5, <1>6 DEF Next

-----------------------------------------------------------------------------

LEMMA InitInv == Init => IInv
<1> SUFFICES ASSUME Init PROVE IInv
    OBVIOUS
<1> USE DEF Init
<1>1. TypeOK
    BY CopyFacts DEF TypeOK, Stages
<1>2. CallsOK
    BY DEF CallsOK, Registered, HandlerOK
<1>3. OncePerWindow
    BY DEF OncePerWindow
<1> QED BY <1>1, <1>2, <1>3 DEF IInv

THEOREM Invariance == Spec => []IInv
<1>1. IInv /\ [Next]_vars => IInv'
    BY TypeStep, CallsStep, OnceStep DEF IInv
<1> QED BY <1>1, InitInv, PTL DEF Spec

\* Type correctness of the loop, the server and its calls.
THEOREM TypeCorrect == Spec => []TypeOK
BY Invariance, PTL DEF IInv

\* A call is a subscriber exactly while its handler runs, so nothing is sent
\* on a closed channel.
THEOREM CallsCorrect == Spec => []CallsOK
BY Invariance, PTL DEF IInv

\* A client is told of an opportunity at most once per window.
THEOREM Deduplicated == Spec => []OncePerWindow
BY Invariance, PTL DEF IInv
=============================================================================

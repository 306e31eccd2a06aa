-------------------------- MODULE ProcessesProofs --------------------------
(***************************************************************************)
(* That connections are joined before the next one and streams never       *)
(* outlive their ends, for all sets of nodes, markets and users.           *)
(*                                                                         *)
(* The four invariants need each other: a goroutine that is started again  *)
(* has left its stream because the former connection was joined (Joined),  *)
(* and a started process has no streams because the one before it took     *)
(* them along, as nothing of a process outlives it (NothingOutlives).      *)
(***************************************************************************)
EXTENDS Processes, FiniteSetTheorems, TLAPS

USE ProcessAssumption

NothingOutlives ==
    /\ proc[Aggregator] = "down" => \A n \in Nodes : venueClient[n] = "stopped"
    /\ proc[Router] = "down" => phase = "stopped"

IInv == TypeOK /\ NothingOutlives /\ Joined /\ StreamsOwned /\ ReportsFit

LEMMA StreamFacts ==
    /\ \A n \in Nodes : Server(n) = n /\ Client(n) = Aggregator /\ n \in Streams
    /\ \A m \in Markets : /\ Server(m) = Aggregator /\ Client(m) = Router
                          /\ m \in Streams /\ m \notin Nodes
    /\ \A u \in Users : /\ Server(u) = UserOf[u] /\ u \in Streams /\ UserOf[u] \in Procs
                        /\ u \notin Nodes /\ u \notin Markets
    /\ Aggregator \in Procs /\ Router \in Procs /\ Aggregator # Router
    /\ \A s \in Streams : Server(s) \in Procs
    BY DEF Server, Client, Streams, Procs

LEMMA CapFacts == ErrChCap \in Nat
    BY FS_CardinalityType DEF ErrChCap

\* How many goroutines are left when m reports.
LEMMA UnfinishedFacts ==
    /\ Cardinality(Unfinished) \in Nat
    /\ Cardinality(Unfinished) <= ErrChCap
    /\ \A m \in Unfinished : Cardinality(Unfinished \ {m}) = Cardinality(Unfinished) - 1
<1>1. Unfinished \in SUBSET Markets
    BY DEF Unfinished
<1>2. IsFiniteSet(Unfinished) /\ Cardinality(Unfinished) <= ErrChCap
    BY <1>1, FS_Subset DEF ErrChCap
<1> QED BY <1>2, FS_CardinalityType, FS_RemoveElement

-----------------------------------------------------------------------------
(* Types *)

LEMMA EndType ==
    ASSUME TypeOK, NEW p \in Procs, End(p)
    PROVE  TypeOK'
<1> USE DEF TypeOK, End
<1>1. lingering' \subseteq Streams /\ open' \subseteq Streams
    OBVIOUS
<1>2. proc' \in [Procs -> {"down", "up", "stopping"}]
    OBVIOUS
<1>3. venueClient' \in [Nodes -> {"stopped", "dialing", "streaming", "waiting"}]
    OBVIOUS
<1>4. /\ phase' \in {"stopped", "dialing", "running", "joining", "waiting"}
      /\ goroutine' \in [Markets -> {"calling", "receiving", "failed", "done"}]
      /\ reports' \in 0..ErrChCap
    BY CapFacts DEF routerVars
<1> QED BY <1>1, <1>2, <1>3, <1>4 DEF ErrChCap

LEMMA TypeStep ==
    ASSUME TypeOK, [Next]_vars
    PROVE  TypeOK'
<1> USE DEF TypeOK, ErrChCap
<1>1. CASE ProcStep
    <2>1. ASSUME NEW p \in Procs, Exit(p) \/ Kill(p)
          PROVE  TypeOK'
        BY <2>1, EndType DEF Exit, Kill
    <2>2. ASSUME NEW n \in Nodes, StartNode(n)
          PROVE  TypeOK'
        BY <2>2 DEF StartNode, streamVars, routerVars, Procs
    <2>3. CASE StartAggregator
        BY <2>3 DEF StartAggregator, streamVars, routerVars
    <2>4. CASE StartRouter
        BY <2>4 DEF StartRouter, streamVars
    <2>5. ASSUME NEW p \in Procs, Signal(p)
          PROVE  TypeOK'
        BY <2>5 DEF Signal, streamVars, routerVars
    <2> QED BY <1>1, <2>1, <2>2, <2>3, <2>4, <2>5 DEF ProcStep
<1>2. CASE StreamStep
    <2>1. ASSUME NEW s \in Streams, HandlerEnds(s)
          PROVE  TypeOK'
        BY <2>1 DEF HandlerEnds, routerVars
    <2>2. ASSUME NEW c \in Connections, Break(c)
          PROVE  TypeOK'
        BY <2>2 DEF Break, Left, routerVars
    <2>3. ASSUME NEW u \in Users, UserOpens(u)
          PROVE  TypeOK'
        BY <2>3, StreamFacts DEF UserOpens, Opened, routerVars
    <2>4. ASSUME NEW u \in Users, UserLeaves(u)
          PROVE  TypeOK'
        BY <2>4 DEF UserLeaves, Left, routerVars
    <2> QED BY <1>2, <2>1, <2>2, <2>3, <2>4 DEF StreamStep
<1>3. ASSUME NEW n \in Nodes, VenueStep(n)
      PROVE  TypeOK'
    <2>1. CASE VenueConnect(n)
        BY <2>1, StreamFacts DEF VenueConnect, Opened, routerVars
    <2>2. CASE VenueLost(n)
        BY <2>2 DEF VenueLost, Left, routerVars
    <2>3. CASE VenueRetry(n) \/ VenueStops(n)
        BY <2>3 DEF VenueRetry, VenueStops, streamVars, routerVars
    <2> QED BY <1>3, <2>1, <2>2, <2>3 DEF VenueStep
<1>4. ASSUME NEW m \in Markets, MarketStep(m)
      PROVE  TypeOK'
    <2>1. CASE Call(m)
        BY <2>1, StreamFacts DEF Call, Opened
    <2>2. CASE CallFails(m)
        BY <2>2 DEF CallFails, streamVars
    <2>3. CASE StreamFails(m)
        BY <2>3 DEF StreamFails, Left
    <2>4. CASE Report(m)
        <3>1. reports' \in 0..ErrChCap
            BY <2>4, CapFacts DEF Report
        <3> QED BY <2>4, <3>1 DEF Report, streamVars
    <2> QED BY <1>4, <2>1, <2>2, <2>3, <2>4 DEF MarketStep
<1>5. CASE RunStep
    <2>1. CASE Spawn
        <3>1. reports' \in 0..ErrChCap
            BY <2>1, CapFacts DEF Spawn
        <3> QED BY <2>1, <3>1 DEF Spawn, streamVars
    <2>2. CASE Cancel
        <3>1. reports' \in 0..ErrChCap
            BY <2>2, CapFacts DEF Cancel
        <3> QED BY <2>2, <3>1 DEF Cancel, streamVars
    <2>3. CASE Join \/ Retry \/ RunStops
        BY <2>3 DEF Join, Retry, RunStops, streamVars
    <2> QED BY <1>5, <2>1, <2>2, <2>3 DEF RunStep
<1>6. CASE UNCHANGED vars
    BY <1>6 DEF vars, streamVars, routerVars
<1> QED BY <1>1, <1>2, <1>3, <1>4, <1>5, <1>6 DEF Next

\* TypeOK: every run of the processes stays within the types.
THEOREM TypeCorrect == Spec => []TypeOK
<1>1. Init => TypeOK
    BY CapFacts DEF Init, TypeOK, ErrChCap
<1> QED BY <1>1, TypeStep, PTL DEF Spec
-----------------------------------------------------------------------------
(* The parts of the inductive invariant *)

LEMMA OutlivesStep ==
    ASSUME IInv, [Next]_vars
    PROVE  NothingOutlives'
<1> USE DEF NothingOutlives
<1>1. TypeOK /\ NothingOutlives
    BY DEF IInv
<1>2. CASE ProcStep
    <2>1. ASSUME NEW p \in Procs, Exit(p) \/ Kill(p)
          PROVE  NothingOutlives'
        <3>1. End(p)
            BY <2>1 DEF Exit, Kill
        <3> QED BY <1>1, <3>1, StreamFacts DEF End, TypeOK, routerVars
    <2>2. ASSUME NEW n \in Nodes, StartNode(n)
          PROVE  NothingOutlives'
        <3>1. n # Aggregator /\ n # Router
            BY DEF Streams
        <3> QED BY <1>1, <2>2, <3>1, StreamFacts DEF StartNode, TypeOK, routerVars
    <2>3. CASE StartAggregator
        BY <1>1, <2>3, StreamFacts DEF StartAggregator, TypeOK, routerVars
    <2>4. CASE StartRouter
        BY <1>1, <2>4, StreamFacts DEF StartRouter, TypeOK
    <2>5. ASSUME NEW p \in Procs, Signal(p)
          PROVE  NothingOutlives'
        BY <1>1, <2>5, StreamFacts DEF Signal, TypeOK, routerVars
    <2> QED BY <1>2, <2>1, <2>2, <2>3, <2>4, <2>5 DEF ProcStep
<1>3. CASE StreamStep
    BY <1>1, <1>3 DEF StreamStep, HandlerEnds, Break, UserOpens, UserLeaves, routerVars
<1>4. ASSUME NEW n \in Nodes, VenueStep(n)
      PROVE  NothingOutlives'
    <2>1. proc' = proc /\ phase' = phase
        BY <1>4 DEF VenueStep, VenueConnect, VenueLost, VenueRetry, VenueStops, routerVars
    <2>2. \A k \in Nodes : venueClient[k] = "stopped" => venueClient'[k] = "stopped"
        BY <1>1, <1>4 DEF VenueStep, VenueConnect, VenueLost, VenueRetry, VenueStops, TypeOK
    <2> QED BY <1>1, <2>1, <2>2
<1>5. ASSUME NEW m \in Markets, MarketStep(m)
      PROVE  NothingOutlives'
    BY <1>1, <1>5 DEF MarketStep, Call, CallFails, StreamFails, Report
<1>6. CASE RunStep
    <2>1. proc' = proc /\ venueClient' = venueClient /\ (phase = "stopped" => phase' = "stopped")
        BY <1>6 DEF RunStep, Spawn, Cancel, Join, Retry, RunStops
    <2> QED BY <1>1, <2>1
<1>7. CASE UNCHANGED vars
    BY <1>1, <1>7 DEF vars, routerVars
<1> QED BY <1>2, <1>3, <1>4, <1>5, <1>6, <1>7 DEF Next

LEMMA JoinedStep ==
    ASSUME IInv, [Next]_vars
    PROVE  Joined'
<1> USE DEF Joined
<1>1. TypeOK /\ NothingOutlives /\ Joined
    BY DEF IInv
<1>2. CASE ProcStep
    <2>1. ASSUME NEW p \in Procs, Exit(p) \/ Kill(p)
          PROVE  Joined'
        <3>1. End(p)
            BY <2>1 DEF Exit, Kill
        <3> QED BY <1>1, <3>1 DEF End, routerVars
    <2>2. CASE StartRouter
        BY <1>1, <2>2 DEF StartRouter, NothingOutlives
    <2>3. CASE routerVars' = routerVars
        BY <1>1, <2>3 DEF routerVars
    <2> QED BY <1>2, <2>1, <2>2, <2>3 DEF ProcStep, StartNode, StartAggregator, Signal
<1>3. CASE StreamStep \/ (\E n \in Nodes : VenueStep(n)) \/ UNCHANGED vars
    <2>1. routerVars' = routerVars
        BY <1>3 DEF StreamStep, HandlerEnds, Break, UserOpens, UserLeaves,
            VenueStep, VenueConnect, VenueLost, VenueRetry, VenueStops, vars
    <2> QED BY <1>1, <2>1 DEF routerVars
<1>4. ASSUME NEW m \in Markets, MarketStep(m)
      PROVE  Joined'
    \* A goroutine that is done takes no step.
    BY <1>1, <1>4 DEF MarketStep, Call, CallFails, StreamFails, Report, TypeOK
<1>5. CASE RunStep
    BY <1>1, <1>5 DEF RunStep, Spawn, Cancel, Join, Retry, RunStops
<1> QED BY <1>2, <1>3, <1>4, <1>5 DEF Next

LEMMA OwnedStep ==
    ASSUME IInv, [Next]_vars
    PROVE  StreamsOwned'
<1> USE DEF StreamsOwned
<1>1. TypeOK /\ NothingOutlives /\ Joined /\ StreamsOwned
    BY DEF IInv
<1>2. CASE ProcStep
    <2>1. ASSUME NEW p \in Procs, Exit(p) \/ Kill(p)
          PROVE  StreamsOwned'
        <3>1. End(p)
            BY <2>1 DEF Exit, Kill
        <3>2. ASSUME NEW s \in open'
              PROVE  proc'[Server(s)] # "down"
            BY <1>1, <3>1, <3>2, StreamFacts DEF End, TypeOK
        <3>3. ASSUME NEW n \in open' \cap Nodes
              PROVE  venueClient'[n] = "streaming"
            BY <1>1, <3>1, <3>3, StreamFacts DEF End
        <3>4. ASSUME NEW m \in open' \cap Markets
              PROVE  goroutine'[m] = "receiving"
            BY <1>1, <3>1, <3>4, StreamFacts DEF End, routerVars
        <3> QED BY <3>2, <3>3, <3>4
    <2>2. ASSUME NEW n \in Nodes, StartNode(n)
          PROVE  StreamsOwned'
        BY <1>1, <2>2, StreamFacts DEF StartNode, TypeOK, streamVars, routerVars
    <2>3. CASE StartAggregator
        <3>1. open \cap Nodes = {}
            BY <1>1, <2>3 DEF StartAggregator, NothingOutlives
        <3> QED BY <1>1, <2>3, <3>1, StreamFacts
                DEF StartAggregator, TypeOK, streamVars, routerVars
    <2>4. CASE StartRouter
        BY <1>1, <2>4, StreamFacts DEF StartRouter, TypeOK, streamVars
    <2>5. ASSUME NEW p \in Procs, Signal(p)
          PROVE  StreamsOwned'
        BY <1>1, <2>5, StreamFacts DEF Signal, TypeOK, streamVars, routerVars
    <2> QED BY <1>2, <2>1, <2>2, <2>3, <2>4, <2>5 DEF ProcStep
<1>3. CASE StreamStep
    <2>1. ASSUME NEW u \in Users, UserOpens(u)
          PROVE  StreamsOwned'
        BY <1>1, <2>1, StreamFacts DEF UserOpens, Opened, routerVars
    <2>2. CASE open' \subseteq open /\ UNCHANGED <<proc, venueClient, goroutine>>
        BY <1>1, <2>2
    <2> QED BY <1>3, <2>1, <2>2
            DEF StreamStep, HandlerEnds, Break, UserLeaves, Left, routerVars
<1>4. ASSUME NEW n \in Nodes, VenueStep(n)
      PROVE  StreamsOwned'
    <2>1. CASE VenueConnect(n)
        BY <1>1, <2>1, StreamFacts DEF VenueConnect, Opened, routerVars, TypeOK
    <2>2. CASE VenueLost(n)
        BY <1>1, <2>2, StreamFacts DEF VenueLost, Left, routerVars, TypeOK
    <2>3. CASE VenueRetry(n) \/ VenueStops(n)
        <3>1. n \notin open
            BY <1>1, <2>3 DEF VenueRetry, VenueStops
        <3> QED BY <1>1, <2>3, <3>1
                DEF VenueRetry, VenueStops, streamVars, routerVars, TypeOK
    <2> QED BY <1>4, <2>1, <2>2, <2>3 DEF VenueStep
<1>5. ASSUME NEW m \in Markets, MarketStep(m)
      PROVE  StreamsOwned'
    <2>1. CASE Call(m)
        BY <1>1, <2>1, StreamFacts DEF Call, Opened, TypeOK
    <2>2. CASE CallFails(m) \/ Report(m)
        <3>1. m \notin open
            BY <1>1, <2>2 DEF CallFails, Report
        <3> QED BY <1>1, <2>2, <3>1 DEF CallFails, Report, streamVars, TypeOK
    <2>3. CASE StreamFails(m)
        BY <1>1, <2>3, StreamFacts DEF StreamFails, Left, TypeOK
    <2> QED BY <1>5, <2>1, <2>2, <2>3 DEF MarketStep
<1>6. CASE RunStep
    <2>1. CASE Spawn
        <3>1. open \cap Markets = {}
            BY <1>1, <2>1 DEF Spawn, Joined
        <3> QED BY <1>1, <2>1, <3>1 DEF Spawn, streamVars
    <2>2. CASE Cancel \/ Join \/ Retry \/ RunStops
        BY <1>1, <2>2 DEF Cancel, Join, Retry, RunStops, streamVars
    <2> QED BY <1>6, <2>1, <2>2 DEF RunStep
<1>7. CASE UNCHANGED vars
    BY <1>1, <1>7 DEF vars, streamVars, routerVars
<1> QED BY <1>2, <1>3, <1>4, <1>5, <1>6, <1>7 DEF Next

LEMMA FitStep ==
    ASSUME IInv, [Next]_vars
    PROVE  ReportsFit'
<1> USE DEF ReportsFit
<1>1. TypeOK /\ ReportsFit
    BY DEF IInv
<1>2. ErrChCap' = ErrChCap
    BY DEF ErrChCap
<1>3. CASE UNCHANGED <<goroutine, reports>>
    BY <1>1, <1>2, <1>3 DEF Unfinished
\* A goroutine moves on, but is not done.
<1>4. ASSUME reports' = reports, Unfinished' = Unfinished
      PROVE  ReportsFit'
    BY <1>1, <1>2, <1>4
<1>5. CASE ProcStep
    <2>1. ASSUME NEW p \in Procs, Exit(p) \/ Kill(p), p = Router
          PROVE  ReportsFit'
        <3>1. reports' = 0 /\ goroutine' = [m \in Markets |-> "done"]
            BY <2>1 DEF Exit, Kill, End
        <3>2. Unfinished' = {}
            BY <3>1 DEF Unfinished
        <3> QED BY <1>2, <3>1, <3>2, CapFacts, FS_EmptySet
    <2>2. CASE UNCHANGED routerVars
        BY <1>3, <2>2 DEF routerVars
    <2>3. CASE StartRouter
        BY <1>3, <2>3 DEF StartRouter
    <2> QED BY <1>5, <2>1, <2>2, <2>3
            DEF ProcStep, Exit, Kill, End, StartNode, StartAggregator, Signal
<1>6. CASE StreamStep \/ (\E n \in Nodes : VenueStep(n)) \/ UNCHANGED vars
    <2>1. routerVars' = routerVars
        BY <1>6 DEF StreamStep, HandlerEnds, Break, UserOpens, UserLeaves,
            VenueStep, VenueConnect, VenueLost, VenueRetry, VenueStops, vars
    <2> QED BY <1>3, <2>1 DEF routerVars
<1>7. ASSUME NEW m \in Markets, MarketStep(m)
      PROVE  ReportsFit'
    <2>1. CASE Call(m) \/ CallFails(m) \/ StreamFails(m)
        <3>1. /\ goroutine[m] # "done" /\ goroutine'[m] # "done"
              /\ \A k \in Markets \ {m} : goroutine'[k] = goroutine[k]
            BY <1>1, <2>1 DEF Call, CallFails, StreamFails, TypeOK
        <3>2. Unfinished' = Unfinished /\ reports' = reports
            BY <2>1, <3>1 DEF Unfinished, Call, CallFails, StreamFails
        <3> QED BY <1>4, <3>2
    <2>2. CASE Report(m)
        <3>1. Unfinished' = Unfinished \ {m} /\ m \in Unfinished
            BY <1>1, <2>2 DEF Report, Unfinished, TypeOK
        <3>2. reports' = reports + 1 /\ reports \in Int
            BY <1>1, <2>2, CapFacts DEF Report, TypeOK
        <3>3. Cardinality(Unfinished') = Cardinality(Unfinished) - 1
            BY <3>1, UnfinishedFacts
        <3> QED BY <1>1, <1>2, <3>2, <3>3, UnfinishedFacts, CapFacts
    <2> QED BY <1>7, <2>1, <2>2 DEF MarketStep
<1>8. CASE RunStep
    <2>1. CASE Spawn
        <3>1. Unfinished' = Markets
            BY <2>1 DEF Spawn, Unfinished
        <3> QED BY <1>2, <2>1, <3>1, CapFacts DEF Spawn, ErrChCap
    <2>2. CASE Cancel
        <3>1. Unfinished' = Unfinished
            BY <2>2 DEF Cancel, Unfinished
        <3>2. reports' \in Int /\ reports' <= reports /\ reports \in Int
            BY <1>1, <2>2, CapFacts DEF Cancel, TypeOK
        <3> QED BY <1>1, <1>2, <3>1, <3>2, UnfinishedFacts, CapFacts
    <2>3. CASE Join \/ Retry \/ RunStops
        BY <1>3, <2>3 DEF Join, Retry, RunStops
    <2> QED BY <1>8, <2>1, <2>2, <2>3 DEF RunStep
<1> QED BY <1>5, <1>6, <1>7, <1>8 DEF Next

LEMMA Inductive == Spec => []IInv
<1>1. Init => IInv
    <2>1. ASSUME Init
          PROVE  Unfinished = {}
        BY <2>1 DEF Init, Unfinished
    <2>2. Init => ReportsFit
        BY <2>1, CapFacts, FS_EmptySet DEF Init, ReportsFit
    <2>3. Init => TypeOK
        BY CapFacts DEF Init, TypeOK, ErrChCap
    <2> QED BY <2>2, <2>3 DEF Init, IInv, NothingOutlives, Joined, StreamsOwned
<1>2. IInv /\ [Next]_vars => IInv'
    <2>1. ASSUME IInv, [Next]_vars
          PROVE  IInv'
        BY <2>1, TypeStep, OutlivesStep, JoinedStep, OwnedStep, FitStep DEF IInv
    <2> QED BY <2>1
<1> QED BY <1>1, <1>2, PTL DEF Spec

\* Joined: when the router's AggregatorClient dials again, no goroutine of the
\* connection before is left to write to the book store.
THEOREM GoroutinesJoined == Spec => []Joined
<1>1. IInv => Joined
    BY DEF IInv
<1> QED BY <1>1, Inductive, PTL

\* StreamsOwned: whatever stops, breaks or is killed, an open stream has a
\* client that reads it and a process that serves it.
THEOREM OwnedStreams == Spec => []StreamsOwned
<1>1. IInv => StreamsOwned
    BY DEF IInv
<1> QED BY <1>1, Inductive, PTL

\* ReportsFit: errCh has room for the error of every goroutine that is left,
\* so the join after the first error cannot wait for ever.
THEOREM RoomToReport == Spec => []ReportsFit
<1>1. IInv => ReportsFit
    BY DEF IInv
<1> QED BY <1>1, Inductive, PTL
=============================================================================

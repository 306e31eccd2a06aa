----------------------------- MODULE Processes -----------------------------
(***************************************************************************)
(* The processes (venue nodes, aggregator, router), the streams between    *)
(* them, and how these start, break, are opened again and are shut down.   *)
(*                                                                         *)
(* A stream is a gRPC call that lasts: of the aggregator to each venue     *)
(* node, of the router to the aggregator for each market, and of users who *)
(* run the cli.  What it carries is in VenueStream, AggregatorStream and   *)
(* Opportunities.  The goroutines of the router's AggregatorClient are     *)
(* modelled one by one, with the channel and the WaitGroup that join them; *)
(* a VenueStreamClient has one.                                            *)
(*                                                                         *)
(* On SIGINT or SIGTERM a process cancels its context and calls            *)
(* GracefulStop: no more calls are accepted, and it ends once all handlers *)
(* have.  Handlers only watch the context of their stream, which ends when *)
(* the client leaves.  Further signals have no effect; Kill is SIGKILL.    *)
(* Delays, unary calls and feeds, which no one waits for, are left out.    *)
(*                                                                         *)
(* An operator whose name starts with Bad is a faulty variant.             *)
(***************************************************************************)
EXTENDS Integers, FiniteSets

CONSTANTS
    Nodes,              \* venue nodes
    Aggregator, Router,
    Markets,            \* cfg.Markets of the router
    Users,              \* users of the cli,
    UserOf              \* and the process each one calls

Procs == Nodes \cup {Aggregator, Router}

Streams == Nodes \cup Markets \cup Users

ASSUME ProcessAssumption ==
    /\ IsFiniteSet(Markets) /\ Aggregator # Router
    /\ Aggregator \notin Streams /\ Router \notin Streams
    /\ Nodes \cap Markets = {} /\ Users \cap (Nodes \cup Markets) = {}
    /\ UserOf \in [Users -> Procs]

Server(s) == IF s \in Nodes THEN s ELSE IF s \in Markets THEN Aggregator ELSE UserOf[s]

Client(s) == IF s \in Nodes THEN Aggregator ELSE IF s \in Markets THEN Router ELSE s

\* The streams of a connection: they break together.
Connections == {Markets} \cup {{s} : s \in Nodes \cup Users}

VARIABLES
    proc,        \* "down", "up" or "stopping": signalled, in GracefulStop
    open,        \* streams of which both ends are there
    lingering,   \* streams of which a handler runs whose client has left
    venueClient, \* where the VenueStreamClient of each node is in Run
    phase,       \* where the AggregatorClient is in Run
    goroutine,   \* where its goroutine of each market is
    reports      \* errors in errCh

streamVars == <<open, lingering>>
routerVars == <<phase, goroutine, reports>>
vars == <<proc, streamVars, venueClient, routerVars>>

Init ==
    /\ proc = [p \in Procs |-> "down"]
    /\ open = {} /\ lingering = {}
    /\ venueClient = [n \in Nodes |-> "stopped"]
    /\ phase = "stopped" /\ goroutine = [m \in Markets |-> "done"] /\ reports = 0

-----------------------------------------------------------------------------
(* Processes *)

StartNode(n) ==
    /\ proc[n] = "down"
    /\ proc' = [proc EXCEPT ![n] = "up"]
    /\ UNCHANGED <<streamVars, venueClient, routerVars>>

StartAggregator ==
    /\ proc[Aggregator] = "down"
    /\ proc' = [proc EXCEPT ![Aggregator] = "up"]
    /\ venueClient' = [n \in Nodes |-> "dialing"]
    /\ UNCHANGED <<streamVars, routerVars>>

StartRouter ==
    /\ proc[Router] = "down"
    /\ proc' = [proc EXCEPT ![Router] = "up"]
    /\ phase' = "dialing"
    /\ UNCHANGED <<streamVars, venueClient, goroutine, reports>>

Signal(p) ==
    /\ proc[p] = "up"
    /\ proc' = [proc EXCEPT ![p] = "stopping"]
    /\ UNCHANGED <<streamVars, venueClient, routerVars>>

\* The context of a process is done.
Cancelled(p) == proc[p] # "up"

\* A process ends, and with it its goroutines and its ends of streams.
End(p) ==
    /\ proc' = [proc EXCEPT ![p] = "down"]
    /\ open' = {s \in open : p \notin {Server(s), Client(s)}}
    /\ lingering' = {s \in lingering : Server(s) # p}
                        \cup {s \in open : Client(s) = p /\ Server(s) # p}
    /\ venueClient' = IF p = Aggregator THEN [n \in Nodes |-> "stopped"] ELSE venueClient
    /\ IF p = Router
       THEN phase' = "stopped" /\ goroutine' = [m \in Markets |-> "done"] /\ reports' = 0
       ELSE UNCHANGED routerVars

\* All handlers have ended: GracefulStop, Serve and main return.
Exit(p) ==
    /\ proc[p] = "stopping"
    /\ \A s \in open \cup lingering : Server(s) # p
    /\ End(p)

Kill(p) == proc[p] # "down" /\ End(p)

-----------------------------------------------------------------------------
(* Streams *)

Opened(s) == open' = open \cup {s} /\ UNCHANGED lingering

\* The client's end of a stream is gone; the handler does not know yet.
Left(streams) ==
    /\ open' = open \ streams
    /\ lingering' = lingering \cup (open \cap streams)

\* Bad: a handler does not watch the context of its stream.
BadHandlerEnds(s) == FALSE /\ UNCHANGED vars

\* The select sees stream.Context() done, or Send fails.
HandlerEnds(s) ==
    /\ s \in lingering
    /\ lingering' = lingering \ {s}
    /\ UNCHANGED <<proc, open, venueClient, routerVars>>

\* A connection breaks.
Break(connection) ==
    /\ open \cap connection # {}
    /\ Left(connection)
    /\ UNCHANGED <<proc, venueClient, routerVars>>

\* The cli is run, and interrupted.  When a stream breaks the cli ends.
UserOpens(u) ==
    /\ u \notin open /\ proc[UserOf[u]] = "up"
    /\ Opened(u)
    /\ UNCHANGED <<proc, venueClient, routerVars>>

UserLeaves(u) ==
    /\ u \in open
    /\ Left({u})
    /\ UNCHANGED <<proc, venueClient, routerVars>>

-----------------------------------------------------------------------------
(* VenueStreamClient.Run in the aggregator *)

\* DialContext, which blocks, and the call.
VenueConnect(n) ==
    /\ venueClient[n] = "dialing" /\ ~Cancelled(Aggregator) /\ proc[n] = "up"
    /\ venueClient' = [venueClient EXCEPT ![n] = "streaming"]
    /\ Opened(n)
    /\ UNCHANGED <<proc, routerVars>>

\* Bad: runOnce neither ends its call nor closes its connection.
BadVenueLost(n) ==
    /\ venueClient[n] = "streaming" /\ (n \notin open \/ Cancelled(Aggregator))
    /\ venueClient' = [venueClient EXCEPT ![n] = "waiting"]
    /\ UNCHANGED <<proc, streamVars, routerVars>>

\* Recv fails, or the context is done.
VenueLost(n) ==
    /\ venueClient[n] = "streaming" /\ (n \notin open \/ Cancelled(Aggregator))
    /\ venueClient' = [venueClient EXCEPT ![n] = "waiting"]
    /\ Left({n})
    /\ UNCHANGED <<proc, routerVars>>

\* Bad: Run returns after an error.
BadVenueRetry(n) ==
    /\ venueClient[n] = "waiting"
    /\ venueClient' = [venueClient EXCEPT ![n] = "stopped"]
    /\ UNCHANGED <<proc, streamVars, routerVars>>

\* After reconnectDelay.
VenueRetry(n) ==
    /\ venueClient[n] = "waiting" /\ ~Cancelled(Aggregator)
    /\ venueClient' = [venueClient EXCEPT ![n] = "dialing"]
    /\ UNCHANGED <<proc, streamVars, routerVars>>

\* DialContext and Run return as the context is done.
VenueStops(n) ==
    /\ venueClient[n] \in {"waiting", "dialing"} /\ Cancelled(Aggregator)
    /\ venueClient' = [venueClient EXCEPT ![n] = "stopped"]
    /\ UNCHANGED <<proc, streamVars, routerVars>>

-----------------------------------------------------------------------------
(* AggregatorClient.Run in the router *)

\* Dial succeeds and runOnce starts a goroutine for each market.
Spawn ==
    /\ phase = "dialing" /\ ~Cancelled(Router) /\ proc[Aggregator] = "up"
    /\ phase' = "running"
    /\ goroutine' = [m \in Markets |-> "calling"]
    /\ reports' = 0
    /\ UNCHANGED <<proc, streamVars, venueClient>>

\* childCtx is done.
ChildCancelled == phase = "joining" \/ Cancelled(Router)

\* StreamConsolidatedBook; a call that is not accepted fails.  One that is on
\* its way when the context is cancelled may do either.
Call(m) ==
    /\ goroutine[m] = "calling" /\ proc[Aggregator] = "up"
    /\ goroutine' = [goroutine EXCEPT ![m] = "receiving"]
    /\ Opened(m)
    /\ UNCHANGED <<proc, venueClient, phase, reports>>

CallFails(m) ==
    /\ goroutine[m] = "calling" /\ (ChildCancelled \/ proc[Aggregator] # "up")
    /\ goroutine' = [goroutine EXCEPT ![m] = "failed"]
    /\ UNCHANGED <<proc, streamVars, venueClient, phase, reports>>

\* Bad: the stream is opened with the context of Run, which no error cancels.
BadStreamFails(m) ==
    /\ goroutine[m] = "receiving" /\ (m \notin open \/ Cancelled(Router))
    /\ goroutine' = [goroutine EXCEPT ![m] = "failed"]
    /\ Left({m})
    /\ UNCHANGED <<proc, venueClient, phase, reports>>

\* Recv fails, or the context is done: streamMarket returns.
StreamFails(m) ==
    /\ goroutine[m] = "receiving" /\ (m \notin open \/ ChildCancelled)
    /\ goroutine' = [goroutine EXCEPT ![m] = "failed"]
    /\ Left({m})
    /\ UNCHANGED <<proc, venueClient, phase, reports>>

\* Bad: room for one error only.
BadErrChCap == 1

ErrChCap == Cardinality(Markets)

\* The send to errCh and wg.Done.
Report(m) ==
    /\ goroutine[m] = "failed" /\ reports < ErrChCap
    /\ goroutine' = [goroutine EXCEPT ![m] = "done"]
    /\ reports' = reports + 1
    /\ UNCHANGED <<proc, streamVars, venueClient, phase>>

\* The select of runOnce, and cancel.
Cancel ==
    /\ phase = "running"
    /\ \/ Cancelled(Router) /\ UNCHANGED reports
       \/ reports > 0 /\ reports' = reports - 1
    /\ phase' = "joining"
    /\ UNCHANGED <<proc, streamVars, venueClient, goroutine>>

\* Bad: wg.Wait is missing.
BadJoin ==
    /\ phase = "joining"
    /\ phase' = "waiting"
    /\ UNCHANGED <<proc, streamVars, venueClient, goroutine, reports>>

\* wg.Wait and runOnce return; its connection is closed.
Join ==
    /\ phase = "joining" /\ \A m \in Markets : goroutine[m] = "done"
    /\ phase' = "waiting"
    /\ UNCHANGED <<proc, streamVars, venueClient, goroutine, reports>>

Retry ==
    /\ phase = "waiting" /\ ~Cancelled(Router)
    /\ phase' = "dialing"
    /\ UNCHANGED <<proc, streamVars, venueClient, goroutine, reports>>

RunStops ==
    /\ phase \in {"waiting", "dialing"} /\ Cancelled(Router)
    /\ phase' = "stopped"
    /\ UNCHANGED <<proc, streamVars, venueClient, goroutine, reports>>

-----------------------------------------------------------------------------

ProcStep ==
    \/ \E n \in Nodes : StartNode(n)
    \/ StartAggregator \/ StartRouter
    \/ \E p \in Procs : Signal(p) \/ Exit(p) \/ Kill(p)

StreamStep ==
    \/ \E s \in Streams : HandlerEnds(s)
    \/ \E c \in Connections : Break(c)
    \/ \E u \in Users : UserOpens(u) \/ UserLeaves(u)

VenueStep(n) ==
    VenueConnect(n) \/ VenueLost(n) \/ VenueRetry(n) \/ VenueStops(n)

MarketStep(m) == Call(m) \/ CallFails(m) \/ StreamFails(m) \/ Report(m)

RunStep == Spawn \/ Cancel \/ Join \/ Retry \/ RunStops

Next ==
    \/ ProcStep \/ StreamStep
    \/ \E n \in Nodes : VenueStep(n)
    \/ \E m \in Markets : MarketStep(m)
    \/ RunStep

Spec == Init /\ [][Next]_vars

\* Goroutines run and the transport notices in the end that a client has left.
\* Nothing is assumed of operators, users and the network.
Fairness ==
    /\ \A p \in Procs : WF_vars(Exit(p))
    /\ \A s \in Streams : WF_vars(HandlerEnds(s))
    /\ \A n \in Nodes : WF_vars(VenueStep(n))
    /\ \A m \in Markets : WF_vars(MarketStep(m))
    /\ WF_vars(RunStep)

FairSpec == Spec /\ Fairness

-----------------------------------------------------------------------------
(* Properties *)

\* Type correctness of processes, streams and clients; errCh holds no more errors
\* than it has room for.
TypeOK ==
    /\ proc \in [Procs -> {"down", "up", "stopping"}]
    /\ open \subseteq Streams /\ lingering \subseteq Streams
    /\ venueClient \in [Nodes -> {"stopped", "dialing", "streaming", "waiting"}]
    /\ phase \in {"stopped", "dialing", "running", "joining", "waiting"}
    /\ goroutine \in [Markets -> {"calling", "receiving", "failed", "done"}]
    /\ reports \in 0..ErrChCap

\* No goroutine of a runOnce outlives it: none writes to the router's book
\* store during a later connection.
Joined ==
    phase \in {"stopped", "dialing", "waiting"} =>
        \A m \in Markets : goroutine[m] = "done"

\* Every open stream has both a client that reads it and a process that serves
\* it: none is leaked by a reconnection, a shutdown or a crash.
StreamsOwned ==
    /\ \A s \in open : proc[Server(s)] # "down"
    /\ \A n \in open \cap Nodes : venueClient[n] = "streaming"
    /\ \A m \in open \cap Markets : goroutine[m] = "receiving"

Unfinished == {m \in Markets : goroutine[m] # "done"}

\* A goroutine that has an error to report never waits for room in errCh,
\* which nobody reads any more once one error was taken: so wg.Wait returns.
ReportsFit ==
    reports + Cardinality(Unfinished) <= ErrChCap

\* Once an error or a signal has cancelled its context runOnce returns, whatever
\* the aggregator does: the streams of the other markets, and those of calls that
\* succeed after the cancel, are ended by it and not by their server.
RunOnceReturns == phase = "joining" ~> phase # "joining"

\* docs/architecture.md, docs/demo.md: a process whose peer comes back
\* reconnects.  When both ends finally stay up and connections stop breaking,
\* every stream is finally open, though streams fail and are cancelled one by
\* one and calls are made while the peer stops.
StreamsReopen ==
    (\A c \in Connections : <>[][~Break(c)]_vars) =>
        \A s \in Nodes \cup Markets :
            <>[](proc[Server(s)] = "up" /\ proc[Client(s)] = "up") => <>[](s \in open)

\* A shutdown that does not end is due to a client that stays: a user, or a
\* process that was not told to stop.  No circle of processes waits for itself.
ShutdownEnds ==
    \A p \in Procs :
        <>[](proc[p] = "stopping") =>
            \E s \in Streams :
                /\ Server(s) = p
                /\ <>[](s \in open /\ (s \in Users \/ proc[Client(s)] = "up"))
=============================================================================

------------------------------- MODULE Fleet -------------------------------
(***************************************************************************)
(* Fleet control (fleet/main.go, fleet/state.go, fleet/publish.go), the    *)
(* order form of the viewer, and one robot at the other end of the broker. *)
(*                                                                         *)
(* Orders and states travel with QoS 0, each topic in the order of its     *)
(* messages; any of them may be lost.  The robot is reduced to its order   *)
(* state and to the index its simulator keeps, a leg being one step, since *)
(* this index decides where an updated robot drives, or stops for good.    *)
(***************************************************************************)
EXTENDS Dispatcher

CONSTANTS
    Home,              \* the place where the robot is switched on
    MaxDisturbances,   \* bound: reconnections, messages lost and orders sent
                       \* from the viewer, all together
    MaxInFlight        \* bound: messages under way on a topic

VARIABLES
    experiment,     \* the -experiment of the running fleet process
    connectPc,      \* where its onConnect is
    connects,       \* how often it was called
    onRequest,      \* OnRequest is set: ExtendIfNeeded of the dispatcher
    pending,        \* pending of the robot
    demos,          \* where the experiment of each connection is
    dropArmed,      \* armed of the viewer's DropGate
    orders, states, \* the messages under way
    state, simNodes, simEdges, edgeIdx, dirty,   \* the robot, see Robot
    disturbed,      \* how often something of MaxDisturbances happened
    missed          \* an order was lost, or a report without a request

fleetVars == <<experiment, connectPc, connects, onRequest, pending, demos>>
robotVars == <<state, simNodes, simEdges, edgeIdx, dirty>>
historyVars == <<disturbed, missed>>
vars == <<dispVars, fleetVars, dropArmed, orders, states, robotVars, historyVars>>

Experiments == {"none", "drop", "failure", "dispatch"}

Connections == 1 .. MaxDisturbances + 1

NoDemos == [c \in Connections |-> "none"]

Disturb == disturbed < MaxDisturbances /\ disturbed' = disturbed + 1

FInit ==
    /\ DInit
    /\ experiment \in Experiments
    /\ connectPc = "subscribe" /\ connects = 1
    /\ onRequest = FALSE /\ pending = FALSE /\ demos = NoDemos
    /\ dropArmed = FALSE
    /\ orders = <<>> /\ states = <<>>
    /\ state = NoState /\ simNodes = <<>> /\ simEdges = <<>> /\ edgeIdx = 1
    /\ dirty = FALSE
    /\ disturbed = 0 /\ missed = FALSE

-----------------------------------------------------------------------------
(* The orders of fleet/publish.go, which the viewer's page sends as well.  *)

\* n_A to n_E, of which n_A, n_B and n_E lie where the demo route has nodes.
DemoPlaces == <<Home, "r_1", "n_C", "n_D", "r_4">>

DemoNode(i, upTo) == [ZeroNode EXCEPT
    !.nodeId = DemoPlaces[i], !.sequenceId = 2 * (i - 1), !.released = i <= upTo]

DemoEdge(i, upTo) == [ZeroEdge EXCEPT
    !.startNodeId = DemoPlaces[i], !.endNodeId = DemoPlaces[i+1],
    !.sequenceId = 2 * i - 1, !.released = i < upTo]

\* The decision point is n_C.
BaseOrder == [orderId |-> "demo-order-1", orderUpdateId |-> 0,
    nodes |-> [i \in 1..5 |-> DemoNode(i, 3)],
    edges |-> [i \in 1..4 |-> DemoEdge(i, 3)]]

\* From n_C on, where it becomes n_D.
GoodUpdate == [orderId |-> "demo-order-1", orderUpdateId |-> 1,
    nodes |-> [i \in 1..3 |-> DemoNode(i + 2, 4)],
    edges |-> [i \in 1..2 |-> DemoEdge(i + 2, 4)]]

\* From n_B to n_D, past the decision point.
BadUpdate == [orderId |-> "demo-order-1", orderUpdateId |-> 1,
    nodes |-> <<DemoNode(2, 4), DemoNode(4, 4)>>,
    edges |-> <<[ZeroEdge EXCEPT
        !.startNodeId = DemoPlaces[2], !.endNodeId = DemoPlaces[4],
        !.sequenceId = 3, !.released = TRUE]>>]

\* The ids that the code gives to the two journeys differ, and a node has an
\* id.
ASSUME FleetAssumption ==
    /\ MaxDisturbances \in Nat /\ MaxInFlight \in Nat
    /\ RouteOrder \notin {NoOrder, BaseOrder.orderId}
    /\ Home # NoNode /\ \A n \in Elements(RouteNodes) : n.nodeId # NoNode

Send(order) == Len(orders) < MaxInFlight /\ orders' = Append(orders, order)

-----------------------------------------------------------------------------
(* The fleet process: main and onConnect.                                  *)

\* Both subscriptions are made.
Subscribe ==
    /\ connectPc = "subscribe" /\ connectPc' = "switch"
    /\ UNCHANGED <<dispVars, experiment, connects, onRequest, pending, demos,
                   dropArmed, orders, states, robotVars, historyVars>>

StartDemo ==
    /\ connectPc = "switch" /\ experiment \in {"drop", "failure"}
    /\ connectPc' = "connected"
    /\ demos' = [demos EXCEPT ![connects] = "base"]
    /\ UNCHANGED <<dispVars, experiment, connects, onRequest, pending,
                   dropArmed, orders, states, robotVars, historyVars>>

NoExperiment ==
    /\ connectPc = "switch" /\ experiment = "none"
    /\ connectPc' = "connected"
    /\ UNCHANGED <<dispVars, experiment, connects, onRequest, pending, demos,
                   dropArmed, orders, states, robotVars, historyVars>>

\* A dispatcher of its own for this connection, wired before it is started.
WireDispatcher ==
    /\ connectPc = "switch" /\ experiment = "dispatch"
    /\ connectPc' = "start" /\ onRequest' = TRUE
    /\ Fresh
    /\ UNCHANGED <<experiment, connects, pending, demos, dropArmed, orders,
                   states, robotVars, historyVars>>

StartDispatcher ==
    /\ connectPc = "start" /\ connectPc' = "connected"
    /\ Start /\ Send(published')
    /\ UNCHANGED <<experiment, connects, onRequest, pending, demos, dropArmed,
                   states, robotVars, historyVars>>

\* The connection was lost and is made again.  What the router has not seen
\* of the old subscription is gone.
Reconnect ==
    /\ connectPc = "connected" /\ Disturb
    /\ connectPc' = "subscribe" /\ connects' = connects + 1
    /\ states' = <<>>
    /\ UNCHANGED <<dispVars, experiment, onRequest, pending, demos, dropArmed,
                   orders, robotVars, missed>>

\* The process ended, wherever it was, and is started again as before.
Restart ==
    /\ Disturb
    /\ connectPc' = "subscribe" /\ connects' = connects + 1
    /\ onRequest' = FALSE /\ pending' = FALSE /\ demos' = NoDemos
    /\ states' = <<>>
    /\ Fresh
    /\ UNCHANGED <<experiment, dropArmed, orders, robotVars, missed>>

-----------------------------------------------------------------------------
(* The experiments: RunDropExperiment and RunFailureExperiment.            *)

PublishBase(c) ==
    /\ demos[c] = "base" /\ demos' = [demos EXCEPT ![c] = "sleep"]
    /\ Send(BaseOrder)
    /\ UNCHANGED <<dispVars, experiment, connectPc, connects, onRequest,
                   pending, dropArmed, states, robotVars, historyVars>>

\* After the sleep; the drop experiment may keep its update to itself.
PublishUpdate(c) ==
    /\ demos[c] = "sleep" /\ demos' = [demos EXCEPT ![c] = "none"]
    /\ \/ experiment = "drop" /\ Send(GoodUpdate)
       \/ experiment = "drop" /\ UNCHANGED orders
       \/ experiment = "failure" /\ Send(BadUpdate)
    /\ UNCHANGED <<dispVars, experiment, connectPc, connects, onRequest,
                   pending, dropArmed, states, robotVars, historyVars>>

-----------------------------------------------------------------------------
(* The viewer: orderHandler, dropToggleHandler and the DropGate.           *)

\* Toggle.
ToggleDrop ==
    /\ disturbed < MaxDisturbances
    /\ dropArmed' = ~dropArmed
    /\ UNCHANGED <<dispVars, fleetVars, orders, states, robotVars, historyVars>>

\* A button of the page; Consume tells whether to drop the order.
PostOrder(order) ==
    /\ Disturb
    /\ dropArmed' = FALSE
    /\ IF dropArmed THEN UNCHANGED orders ELSE Send(order)
    /\ UNCHANGED <<dispVars, fleetVars, states, robotVars, missed>>

-----------------------------------------------------------------------------
(* OnState of the BaseRequestWatcher, on the router of the fleet process.  *)

Subscribed == connectPc \in {"switch", "start", "connected"}

\* Mutant of Watched: once it has asked, a robot is pending for good.
WatchedForGood(report) == pending \/ report.newBaseRequest

\* What becomes of pending.
Watched(report) == report.newBaseRequest

\* OnRequest is called.
RisingEdge(report) == report.newBaseRequest /\ ~pending /\ onRequest

OnStateExtends ==
    /\ Subscribed /\ states # <<>> /\ states' = Tail(states)
    /\ pending' = Watched(Head(states))
    /\ RisingEdge(Head(states))
    /\ Extend(Head(states).orderId) /\ Send(published')
    /\ UNCHANGED <<experiment, connectPc, connects, onRequest, demos,
                   dropArmed, robotVars, historyVars>>

\* The panic of ExtendIfNeeded ends the process.
OnStatePanics ==
    /\ Subscribed /\ states # <<>> /\ states' = <<>>
    /\ RisingEdge(Head(states)) /\ Panics(Head(states).orderId)
    /\ connectPc' = "panicked" /\ demos' = NoDemos
    /\ UNCHANGED <<dispVars, experiment, connects, onRequest, pending,
                   dropArmed, orders, robotVars, historyVars>>

OnStateOnly ==
    /\ Subscribed /\ states # <<>> /\ states' = Tail(states)
    /\ pending' = Watched(Head(states))
    /\ ~(RisingEdge(Head(states)) /\ Wanted(Head(states).orderId))
    /\ UNCHANGED <<dispVars, experiment, connectPc, connects, onRequest, demos,
                   dropArmed, orders, robotVars, historyVars>>

-----------------------------------------------------------------------------
(* The robot.                                                              *)

Position == IF state.orderId = NoOrder THEN Home ELSE state.lastNodeId

AcceptsOrder ==
    /\ orders # <<>> /\ orders' = Tail(orders)
    /\ ValidateOrder(Head(orders))
    /\ Rejection(state, Head(orders), Position) = ""
    /\ state' = AcceptOrder(state, Head(orders), Position)
    /\ simNodes' = state'.nodes /\ simEdges' = state'.edges
    /\ dirty' = TRUE
    /\ UNCHANGED <<dispVars, fleetVars, dropArmed, states, edgeIdx,
                   historyVars>>

RejectsOrder ==
    /\ orders # <<>> /\ orders' = Tail(orders)
    /\ \/ ~ValidateOrder(Head(orders))
       \/ Rejection(state, Head(orders), Position) # ""
    /\ UNCHANGED <<dispVars, fleetVars, dropArmed, states, robotVars,
                   historyVars>>

\* One leg, up to and including the arrival.  A leg takes seconds, and every
\* 100 ms what has changed is reported.
DriveLeg ==
    /\ ~dirty
    /\ edgeIdx \in DOMAIN simEdges /\ simEdges[edgeIdx].released
    /\ edgeIdx' = edgeIdx + 1
    /\ state' = Arrived(state, simNodes[edgeIdx+1].nodeId)
    /\ dirty' = TRUE
    /\ UNCHANGED <<dispVars, fleetVars, dropArmed, orders, states, simNodes,
                   simEdges, historyVars>>

\* due: something changed, or the heartbeat elapsed; after 30 s the last report
\* is no longer under way.
DueToReport == dirty \/ states = <<>>

\* The broker passes a report on to those who have subscribed.
ReportState ==
    /\ DueToReport /\ dirty' = FALSE
    /\ Len(states) < MaxInFlight
    /\ states' = IF Subscribed
                 THEN Append(states, [orderId |-> state.orderId,
                                      newBaseRequest |-> NewBaseRequest(state)])
                 ELSE states
    /\ UNCHANGED <<dispVars, fleetVars, dropArmed, orders, state, simNodes,
                   simEdges, edgeIdx, historyVars>>

-----------------------------------------------------------------------------
(* The wireless link.                                                      *)

LoseOrder ==
    /\ orders # <<>> /\ Disturb
    /\ orders' = Tail(orders)
    /\ missed' = TRUE
    /\ UNCHANGED <<dispVars, fleetVars, dropArmed, states, robotVars>>

LoseState ==
    /\ states # <<>> /\ Disturb
    /\ states' = Tail(states)
    /\ missed' = (missed \/ ~Head(states).newBaseRequest)
    /\ UNCHANGED <<dispVars, fleetVars, dropArmed, orders, robotVars>>

-----------------------------------------------------------------------------

ConnectStep ==
    \/ Subscribe \/ StartDemo \/ NoExperiment
    \/ WireDispatcher \/ StartDispatcher

OnState == OnStateExtends \/ OnStatePanics \/ OnStateOnly

FNext ==
    \/ ConnectStep \/ Reconnect \/ Restart
    \/ \E c \in Connections : PublishBase(c) \/ PublishUpdate(c)
    \/ ToggleDrop
    \/ \E order \in {BaseOrder, GoodUpdate, BadUpdate} : PostOrder(order)
    \/ OnState
    \/ AcceptsOrder \/ RejectsOrder \/ DriveLeg \/ ReportState
    \/ LoseOrder \/ LoseState

FSpec == FInit /\ [][FNext]_vars

\* What is not lost arrives and is handled, and the heartbeat of the robot
\* beats.  Nobody has to connect, to push a button, or to drive.
FairFSpec ==
    /\ FSpec
    /\ WF_vars(OnState) /\ WF_vars(AcceptsOrder \/ RejectsOrder)
    /\ WF_vars(ReportState)

-----------------------------------------------------------------------------

FTypeOK ==
    /\ experiment \in Experiments
    /\ connectPc \in {"subscribe", "switch", "start", "connected", "panicked"}
    /\ connects \in Connections /\ disturbed \in 0..MaxDisturbances
    /\ onRequest \in BOOLEAN /\ pending \in BOOLEAN /\ dropArmed \in BOOLEAN
    /\ demos \in [Connections -> {"none", "base", "sleep"}]
    /\ Len(orders) <= MaxInFlight /\ Len(states) <= MaxInFlight
    /\ releasedIdx \in 0..Len(RouteNodes) /\ nextUpdateId \in Nat
    /\ \A n \in Elements(state.nodes) : n.nodeId # NoNode
    /\ edgeIdx \in Nat \ {0} /\ dirty \in BOOLEAN
    /\ missed \in BOOLEAN

\* What tells one step of a journey from another.
Trail(ns) == [i \in DOMAIN ns |-> <<ns[i].nodeId, ns[i].sequenceId>>]

IsPieceOf(ns, road) ==
    \E i \in 1..Len(road) : \E j \in i..Len(road) :
       Trail(ns) = Trail(SubSeq(road, i, j))

\* The payoff of the protocol (vda5050_teaching_plan.md:547, publish.go:133):
\* whatever is lost, refused, posted besides or sent again by a restarted
\* fleet control, the robot holds a gapless piece of one of the two journeys,
\* and does not drive beyond its decision point.
NothingCorrupts ==
    state.orderId # NoOrder =>
       /\ \E road \in {RouteNodes, BaseOrder.nodes} : IsPieceOf(state.nodes, road)
       /\ Paired(state.nodes, state.edges)
       /\ state.lastNodeSequenceId <= state.decisionSequenceId

RouteOrders(s) == {o \in Elements(s) : o.orderId = RouteOrder}

\* The dispatcher and the robot count the updates and keep the decision point
\* each for itself.  On its first connection, with no order of the route lost
\* or under way, they agree: the next update will be accepted.
InStep ==
    /\ connects = 1 /\ ~missed
    /\ state.orderId = RouteOrder /\ RouteOrders(orders) = {}
    => /\ state.decisionNodeId = nodes[releasedIdx].nodeId
       /\ state.decisionSequenceId = nodes[releasedIdx].sequenceId
       /\ state.orderUpdateId + 1 = nextUpdateId

\* A robot without an order asks for a base as well, and the dispatcher is
\* wired before it is started.  It takes a second connection, and a robot that
\* still has the route of the first one, to bring ExtendIfNeeded before Start.
PanicsOnlyAfterReconnect ==
    connectPc = "panicked" => connects > 1 /\ state.orderId = RouteOrder

\* As the demo route does: it has a second node to wait for, and does not
\* come back to where the robot is switched on, where the demo order starts.
RouteLeavesHome ==
    /\ ReleaseWindow > 1 /\ Len(RouteNodes) > 1
    /\ \A i \in 2..Len(RouteNodes) : RouteNodes[i].nodeId # Home

\* The robot asks for more of the route, and there is more.
AsksForMore ==
    /\ state.orderId = RouteOrder /\ NewBaseRequest(state)
    /\ state.decisionSequenceId # RouteNodes[Len(RouteNodes)].sequenceId

\* A robot that runs out of base gets more, although a report of it may be
\* lost: the heartbeat repeats the request until it is seen.  But not if an
\* order is lost, or the report that the last request was met, nor from a
\* dispatcher that started anew.
RequestIsAnswered ==
    AsksForMore ~> ~AsksForMore \/ missed \/ connects > 1

-----------------------------------------------------------------------------
(* What the documents say and the code does not do.                        *)

\* dispatcher.go:22: the base is extended whenever the robot's State reports
\* newBaseRequest.  But a request is seen once, at its rising edge, and the
\* window has moved on when the update it caused is lost.
ExtendsWheneverReported == AsksForMore ~> ~AsksForMore \/ connects > 1

=============================================================================

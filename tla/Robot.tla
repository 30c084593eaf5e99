------------------------------- MODULE Robot -------------------------------
(***************************************************************************)
(* The robot process: robot/main.go, robot/instant_actions.go and what     *)
(* they put together, the order state, the action engine and the simulator.*)
(* Four goroutines act on the shared state:                                *)
(*                                                                         *)
(*   the MQTT router   calls onOrder and onInstantActions, one message     *)
(*                     after the other;                                    *)
(*   Run               drives; its drive gate and its onTick are closures  *)
(*                     of onOrder that read and write the robot;           *)
(*   runActionEngine   advances the queue on a ticker;                     *)
(*   the clock         lets the fake durations of running actions pass.    *)
(*                                                                         *)
(* An action is a stretch of one goroutine in which it holds one mutex, or *)
(* touches nothing shared.  A process that has crashed does nothing more.  *)
(***************************************************************************)
EXTENDS Orders

CONSTANTS
    OrderMessages,   \* the orders that may arrive, each any number of times
    Home,            \* the place where the robot is switched on
    InstantTypes,    \* the instant actions that may arrive
    MaxInstants,     \* bound: instant actions per behaviour
    Action, ActionType, BlockingType, Retriable,   \* see ActionEngine
    MaxEnqueued      \* bound: entries ever appended to the queue

VARIABLES
    state,                 \* robot.state
    instantActionStates,   \* robot.instantActionStates
    queue, live,           \* robot.actions, see ActionEngine
    pc, simNodes, simEdges, edgeIdx, position, wake, extending,
                           \* robot.simulator and Run, see Simulator
    pausedSeen,            \* Run, in the drive gate: the local `paused'
    reached,               \* Run, in onTick: the local `actions', once read
    router,                \* where the MQTT router is, and its locals
    enginePc, last,        \* runActionEngine: its place, and its local `last'
    dirty                  \* statePublisher.dirty

simVars == <<pc, simNodes, simEdges, edgeIdx, position, wake, extending>>
runVars == <<pausedSeen, reached>>
queueVars == <<queue, live>>
engineVars == <<enginePc, last>>
vars == <<state, instantActionStates, queueVars, simVars, runVars, router,
          engineVars, dirty>>

Sim == INSTANCE Simulator WITH Chains <- {}

NodeActions == {n.actions : n \in UNION {Elements(o.nodes) : o \in OrderMessages}}

\* The messages are decoded: the actions of a node are an array, and an
\* action has its type, its blocking type and its retriable flag.
ASSUME RobotAssumption ==
    /\ MessagesTyped(OrderMessages)
    /\ NodeActions \subseteq Seq(Action)
    /\ ActionType \in [Action -> STRING]
    /\ BlockingType \in [Action -> STRING]
    /\ Retriable \in [Action -> BOOLEAN]
    /\ MaxEnqueued \in Nat

Engine == INSTANCE ActionEngine

OS == INSTANCE OrderState

NoMessage == [orderId |-> NoOrder, orderUpdateId |-> 0,
              nodes |-> <<>>, edges |-> <<>>]

Idle == [at |-> "idle", order |-> NoMessage, pos |-> NoNode]

Init ==
    /\ OS!Init /\ Engine!Init /\ Sim!Init
    /\ instantActionStates = <<>>
    /\ pausedSeen = FALSE /\ reached = {}
    /\ router = Idle
    /\ enginePc = "advance" /\ last = <<>>
    /\ dirty = FALSE

\* applyInstantAction holds robot.mu while it extends the simulator.
RobotLocked == router.at \in {"cancelExtend", "cancelSignal"}

-----------------------------------------------------------------------------
(* The MQTT router: onOrder.                                               *)

\* A valid order; the position is read before robot.mu is taken.
ReceiveOrder(o) ==
    /\ router.at = "idle" /\ ValidateOrder(o)
    /\ router' = [at |-> "accept", order |-> o,
                  pos |-> IF pc = "off" THEN Home ELSE position]
    /\ UNCHANGED <<state, instantActionStates, queueVars, simVars, runVars,
                   engineVars, dirty>>

Rejected == Rejection(state, router.order, router.pos) # ""

RejectOrder ==
    /\ router.at = "accept" /\ Rejected
    /\ router' = Idle
    /\ UNCHANGED <<state, instantActionStates, queueVars, simVars, runVars,
                   engineVars, dirty>>

\* What the simulator, which still holds the old slice, finds in it when
\* stitch has filtered the shared array in place: slices.DeleteFunc moves the
\* kept elements to the front and clears the others, and append writes behind
\* them if all it appends fits, which a larger capacity may allow.
Overwritten(old, kept, appended, zero, spare) ==
    LET all == kept \o appended
        new == IF spare \/ Len(all) <= Len(old) THEN all ELSE kept
    IN  [i \in DOMAIN old |-> IF i <= Len(new) THEN new[i] ELSE zero]

SharedArrays(o) ==
    IF IsNew(state, o) THEN UNCHANGED <<simNodes, simEdges>>
    ELSE \E spareNodes, spareEdges \in BOOLEAN :
            /\ simNodes' = Overwritten(simNodes, KeptNodes(state), o.nodes,
                                       ZeroNode, spareNodes)
            /\ simEdges' = Overwritten(simEdges, KeptEdges(state), o.edges,
                                       ZeroEdge, spareEdges)

AcceptsOrder ==
    /\ router.at = "accept" /\ ~Rejected
    /\ state' = AcceptOrder(state, router.order, router.pos)
    /\ SharedArrays(router.order)
    /\ router' = [Idle EXCEPT !.at = "extend"]
    /\ dirty' = TRUE
    /\ UNCHANGED <<instantActionStates, queueVars, pc, edgeIdx, position, wake,
                   extending, runVars, engineVars>>

StartSimulator ==
    /\ router.at = "extend" /\ Sim!Create(state.nodes, state.edges)
    /\ router' = Idle
    /\ UNCHANGED <<state, instantActionStates, queueVars, runVars, engineVars,
                   dirty>>

\* Mutant of ExtendSimulator: nothing is sent to wake.
ExtendSilently ==
    /\ router.at = "extend" /\ Sim!SetChain(state.nodes, state.edges)
    /\ router' = Idle
    /\ UNCHANGED <<state, instantActionStates, queueVars, runVars, engineVars,
                   dirty>>

ExtendSimulator ==
    /\ router.at = "extend" /\ Sim!SetChain(state.nodes, state.edges)
    /\ router' = [Idle EXCEPT !.at = "signal"]
    /\ UNCHANGED <<state, instantActionStates, queueVars, runVars, engineVars,
                   dirty>>

SignalSimulator ==
    /\ router.at = "signal" /\ Sim!SendWake
    /\ router' = Idle
    /\ UNCHANGED <<state, instantActionStates, queueVars, runVars, engineVars,
                   dirty>>

-----------------------------------------------------------------------------
(* The MQTT router: onInstantActions, with a message of one action.        *)

Report(type, status) ==
    /\ type \in InstantTypes /\ Len(instantActionStates) < MaxInstants
    /\ instantActionStates' = Append(instantActionStates,
                                     [actionType |-> type, actionStatus |-> status])

\* cancelOrder, under robot.mu from here to the end.
CancelOrder ==
    /\ router.at = "idle" /\ Report("cancelOrder", "FINISHED")
    /\ state' = Cancelled(state)
    /\ Engine!CancelAll
    /\ router' = IF pc = "off" THEN Idle ELSE [Idle EXCEPT !.at = "cancelExtend"]
    /\ dirty' = (dirty \/ pc = "off")
    /\ UNCHANGED <<simVars, runVars, engineVars>>

CancelExtends ==
    /\ router.at = "cancelExtend" /\ Sim!SetChain(state.nodes, state.edges)
    /\ router' = [Idle EXCEPT !.at = "cancelSignal"]
    /\ UNCHANGED <<state, instantActionStates, queueVars, runVars, engineVars,
                   dirty>>

CancelSignals ==
    /\ router.at = "cancelSignal" /\ Sim!SendWake
    /\ router' = Idle /\ dirty' = TRUE
    /\ UNCHANGED <<state, instantActionStates, queueVars, runVars, engineVars>>

StartPause ==
    /\ router.at = "idle" /\ Report("startPause", "FINISHED")
    /\ state' = Paused(state, TRUE) /\ dirty' = TRUE
    /\ UNCHANGED <<queueVars, simVars, runVars, router, engineVars>>

StopPause ==
    /\ router.at = "idle" /\ Report("stopPause", "FINISHED")
    /\ state' = Paused(state, FALSE) /\ dirty' = TRUE
    /\ UNCHANGED <<queueVars, simVars, runVars, router, engineVars>>

Retry(a) ==
    /\ router.at = "idle" /\ Report("retry", "FINISHED") /\ Engine!Retry(a)
    /\ dirty' = TRUE
    /\ UNCHANGED <<state, simVars, runVars, router, engineVars>>

SkipRetry(a) ==
    /\ router.at = "idle" /\ Report("skipRetry", "FINISHED")
    /\ Engine!SkipRetry(a)
    /\ dirty' = TRUE
    /\ UNCHANGED <<state, simVars, runVars, router, engineVars>>

\* A retry or skipRetry whose target is not RETRIABLE, unknown or missing, and
\* every type the robot does not support.
FailInstant(type) ==
    /\ type \notin {"cancelOrder", "startPause", "stopPause"}
    /\ router.at = "idle" /\ Report(type, "FAILED")
    /\ dirty' = TRUE
    /\ UNCHANGED <<state, queueVars, simVars, runVars, router, engineVars>>

-----------------------------------------------------------------------------
(* Run, with its drive gate and its onTick.                                *)

RunLooks ==
    /\ Sim!Check \/ Sim!ReceiveWake
    /\ UNCHANGED <<state, instantActionStates, queueVars, runVars, router,
                   engineVars, dirty>>

\* The tick, and the first half of the gate: the paused flag, under robot.mu.
ReadPaused ==
    /\ ~RobotLocked /\ Sim!Tick
    /\ pausedSeen' = state.paused
    /\ UNCHANGED <<state, instantActionStates, queueVars, reached, router,
                   engineVars, dirty>>

\* Mutants of AskEngine: the queue is not asked; a closed gate sends Run to
\* sleep.
AskNobody ==
    /\ Sim!Gate(~pausedSeen)
    /\ pausedSeen' = FALSE
    /\ UNCHANGED <<state, instantActionStates, queueVars, reached, router,
                   engineVars, dirty>>

AskAndPark ==
    /\ IF Engine!DrivingAllowed /\ ~pausedSeen THEN Sim!Gate(TRUE)
       ELSE /\ pc = "gate" /\ pc' = "parked"
            /\ UNCHANGED <<simNodes, simEdges, edgeIdx, position, wake, extending>>
    /\ pausedSeen' = FALSE
    /\ UNCHANGED <<state, instantActionStates, queueVars, reached, router,
                   engineVars, dirty>>

\* The second half: the whole queue, under the engine's mutex.
AskEngine ==
    /\ Sim!Gate(Engine!DrivingAllowed /\ ~pausedSeen)
    /\ pausedSeen' = FALSE
    /\ UNCHANGED <<state, instantActionStates, queueVars, reached, router,
                   engineVars, dirty>>

RunSteps ==
    /\ Sim!Step
    /\ UNCHANGED <<state, instantActionStates, queueVars, runVars, router,
                   engineVars, dirty>>

\* Mutants of RecordArrival: the sequenceId stays behind; the actions are those
\* of the node the robot comes from.
RecordPlaceOnly ==
    /\ pc = "arrived" /\ reached = {} /\ ~RobotLocked
    /\ state' = [state EXCEPT !.lastNodeId = position]
    /\ reached' = {ActionsForNode(state, position)}
    /\ UNCHANGED <<instantActionStates, queueVars, simVars, pausedSeen, router,
                   engineVars, dirty>>

RecordActionsOfLast ==
    /\ pc = "arrived" /\ reached = {} /\ ~RobotLocked
    /\ state' = Arrived(state, position)
    /\ reached' = {ActionsForNode(state, state.lastNodeId)}
    /\ UNCHANGED <<instantActionStates, queueVars, simVars, pausedSeen, router,
                   engineVars, dirty>>

\* onTick: step has left the robot at the place whose nodeId it returned.
RecordArrival ==
    /\ pc = "arrived" /\ reached = {} /\ ~RobotLocked
    /\ state' = Arrived(state, position)
    /\ reached' = {ActionsForNode(state, position)}
    /\ UNCHANGED <<instantActionStates, queueVars, simVars, pausedSeen, router,
                   engineVars, dirty>>

\* Mutants of EnqueueActions: the local `actions' outlives the call;
EnqueueActionsStale == \E actions \in reached :
    /\ Len(queue) + Len(actions) <= MaxEnqueued
    /\ Engine!Enqueue(actions) /\ Sim!OnTick
    /\ dirty' = TRUE
    /\ UNCHANGED <<state, instantActionStates, pausedSeen, reached, router,
                   engineVars>>

\* and without MarkDirty.
EnqueueActionsUnmarked == \E actions \in reached :
    /\ Len(queue) + Len(actions) <= MaxEnqueued
    /\ Engine!Enqueue(actions) /\ Sim!OnTick
    /\ reached' = {}
    /\ UNCHANGED <<state, instantActionStates, pausedSeen, router, engineVars,
                   dirty>>

EnqueueActions == \E actions \in reached :
    /\ Len(queue) + Len(actions) <= MaxEnqueued
    /\ Engine!Enqueue(actions) /\ Sim!OnTick
    /\ reached' = {} /\ dirty' = TRUE
    /\ UNCHANGED <<state, instantActionStates, pausedSeen, router, engineVars>>

-----------------------------------------------------------------------------
(* runActionEngine and the clock.                                          *)

AdvanceQueue ==
    /\ enginePc = "advance" /\ Engine!Advance
    /\ enginePc' = "compare"
    /\ UNCHANGED <<state, instantActionStates, simVars, runVars, router, last,
                   dirty>>

\* equalActionStates looks at the ids and the statuses.
CompareStates ==
    /\ enginePc = "compare" /\ enginePc' = "advance"
    /\ last' = Engine!ActionStates
    /\ dirty' = (dirty \/ last' # last)
    /\ UNCHANGED <<state, instantActionStates, queueVars, simVars, runVars,
                   router>>

Elapse(t) ==
    /\ Engine!Elapse(t)
    /\ UNCHANGED <<state, instantActionStates, simVars, runVars, router,
                   engineVars, dirty>>

-----------------------------------------------------------------------------

RouterStep ==
    \/ RejectOrder \/ AcceptsOrder
    \/ StartSimulator \/ ExtendSimulator \/ SignalSimulator
    \/ CancelExtends \/ CancelSignals

InstantAction ==
    \/ CancelOrder \/ StartPause \/ StopPause
    \/ \E a \in Action : Retry(a) \/ SkipRetry(a)
    \/ \E type \in InstantTypes : FailInstant(type)

RunStep ==
    \/ RunLooks \/ ReadPaused \/ AskEngine \/ RunSteps
    \/ RecordArrival \/ EnqueueActions

EngineStep == AdvanceQueue \/ CompareStates

Next ==
    /\ pc # "crashed"
    /\ \/ \E o \in OrderMessages : ReceiveOrder(o)
       \/ RouterStep
       \/ InstantAction
       \/ RunStep
       \/ EngineStep
       \/ \E t \in live : Elapse(t)

Spec == Init /\ [][Next]_vars

\* The goroutines run and time passes; no message has to arrive.
FairSpec ==
    /\ Spec
    /\ WF_vars(RouterStep) /\ WF_vars(RunStep) /\ WF_vars(EngineStep)
    /\ \A t \in 1..MaxEnqueued : WF_vars(Elapse(t))

-----------------------------------------------------------------------------

TypeOK ==
    /\ OS!TypeOK /\ Engine!TypeOK
    /\ router.at \in {"idle", "accept", "extend", "signal", "cancelExtend",
                      "cancelSignal"}
    /\ router.order \in OrderMessages \union {NoMessage}
    /\ enginePc \in {"advance", "compare"}
    /\ pausedSeen \in BOOLEAN /\ dirty \in BOOLEAN
    /\ reached # {} => pc = "arrived"

\* The gate is asked before the step, not with it: whatever the router, the
\* engine and the clock do in between, no SOFT or HARD action is in the queue
\* when the robot moves.
StepsOnlyWhenAllowed == pc = "stepping" => Engine!DrivingAllowed

\* What the next two properties are about: one order, retransmitted at will,
\* that visits each of its places once and is not cancelled.
SingleTrip ==
    /\ \A o, p \in OrderMessages : o = p
    /\ \A o \in OrderMessages :
          /\ WellFormed(o)
          /\ \A n, m \in Elements(o.nodes) : n.nodeId = m.nodeId => n = m
          /\ \A n \in Elements(o.nodes) : n.nodeId # NoNode
    /\ "cancelOrder" \notin InstantTypes

\* The simulator and the order state count the robot's progress separately,
\* by an index and by a sequenceId.  With one order and no cancelOrder they
\* agree, but for the node whose arrival onTick has yet to record.
ProgressAgrees ==
    pc \notin {"off", "crashed"} =>
       LET recorded == IF pc = "arrived" /\ reached = {} THEN edgeIdx - 1 ELSE edgeIdx
       IN  /\ recorded \in DOMAIN simNodes
           /\ state.lastNodeSequenceId = simNodes[recorded].sequenceId
           /\ state.lastNodeId = simNodes[recorded].nodeId

\* The actions of those nodes that are in Driven, in their order; carried[i]
\* are those of the first i nodes.
CarriedBy(nodes, Driven) ==
    LET carried[i \in 0..Len(nodes)] ==
          IF i = 0 THEN <<>>
          ELSE IF nodes[i] \in Driven THEN carried[i-1] \o nodes[i].actions
          ELSE carried[i-1]
    IN  carried[Len(nodes)]

DrivenUpTo(nodes, sequenceId) ==
    {n \in Elements(nodes) : n.sequenceId <= sequenceId /\ n # nodes[1]}

Enqueued == [t \in DOMAIN queue |-> queue[t].action]

\* Read by onTick, and not enqueued yet.
Pending == IF reached = {} THEN <<>> ELSE CHOOSE actions \in reached : TRUE

\* The actions of the nodes driven over are enqueued once each and in the
\* order of the road, those of the first node excepted, in an order that
\* visits no place twice.
QueueFollowsTheRoad ==
    LET driven == DrivenUpTo(state.nodes, state.lastNodeSequenceId)
    IN  CarriedBy(state.nodes, driven) = Enqueued \o Pending

\* A parked simulator with a released edge before it has a token waiting, or
\* the router is on its way to put one there, whatever was accepted or
\* cancelled between the look at the edge and the receive.
NoLostWakeup ==
    pc = "parked" /\ Sim!CanDrive =>
       wake \/ router.at \in {"extend", "signal", "cancelExtend", "cancelSignal"}

\* The robot gets to its decision point, if from some time on nobody pauses
\* it and no action is stuck.
ReachesDecisionPoint ==
    <>[]~(state.paused \/ Engine!Stuck) =>
       (state.orderId # NoOrder
           ~> state.lastNodeSequenceId = state.decisionSequenceId)

-----------------------------------------------------------------------------
(* What the documents say and the code does not do.                        *)

\* sim/kinematics.go:14: the stitched chain is driven from node to node.  But
\* Extend leaves edgeIdx alone when stitch has dropped what was driven over.
ReachesNodeByNode ==
    [][state'.orderId = state.orderId
          /\ state'.lastNodeSequenceId # state.lastNodeSequenceId
          => state'.lastNodeSequenceId = state.lastNodeSequenceId + 2]_vars

\* sim/kinematics.go:90: Run blocks forever.  But a cancelOrder may take the
\* edge away between canDrive and step.
RunsForever == pc # "crashed"

\* vda5050_teaching_plan.md:535: cancelOrder fails the scheduled actions.  But
\* those that onTick has read and not enqueued yet wait and run afterwards.
CancelFailsScheduled ==
    state.cancelled =>
       \A t \in live : Engine!StatusOf(t) \in Engine!Terminal

=============================================================================

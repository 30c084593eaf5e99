----------------------------- MODULE Reporting -----------------------------
(***************************************************************************)
(* robot/state.go: the goroutine that turns the robot into State messages. *)
(* It runs beside the goroutines of module Robot: a tick asks due(), which *)
(* takes the dirty flag away, and only then buildState reads the robot.    *)
(*                                                                         *)
(* buildState holds robot.mu from beginning to end, but the simulator and  *)
(* the action engine have mutexes of their own, so they go on between its  *)
(* three calls to them: one value of `publisher' per such place.           *)
(***************************************************************************)
EXTENDS Robot

VARIABLES
    publisher,   \* where Run of StatePublisher is
    draft,       \* the State message buildState is filling in
    report,      \* the last State message published
    told         \* the actions ever published as FINISHED or FAILED

repVars == <<publisher, draft, report, told>>
allVars == <<vars, repVars>>

\* What buildState takes from the order state.
OrderPart ==
    [orderId |-> state.orderId, orderUpdateId |-> state.orderUpdateId,
     lastNodeId |-> state.lastNodeId,
     lastNodeSequenceId |-> state.lastNodeSequenceId,
     nodeStates |-> {[nodeId |-> n.nodeId, sequenceId |-> n.sequenceId,
                      released |-> n.released] : n \in Ahead(state, state.nodes)},
     edgeStates |-> {[sequenceId |-> e.sequenceId, released |-> e.released] :
                        e \in Ahead(state, state.edges)},
     newBaseRequest |-> NewBaseRequest(state),
     paused |-> state.paused,
     instantActionStates |-> instantActionStates]

\* The actions of what lies ahead, all of them WAITING.
Announced ==
    {[actionId |-> a, actionStatus |-> "WAITING"] :
       a \in UNION {Elements(x.actions) :
                      x \in Ahead(state, state.nodes)
                              \union Ahead(state, state.edges)}}

NoReport == [order |-> OrderPart, driving |-> FALSE, actionStates |-> {}]

RInit ==
    /\ Init
    /\ publisher = "ticking" /\ draft = NoReport /\ report = NoReport
    /\ told = {}

\* due() is true: the flag is set, or the heartbeat has elapsed, which it may
\* at any time.  The flag is taken away before anything is read.
Due ==
    /\ publisher = "ticking" /\ publisher' = "build"
    /\ dirty' = FALSE
    /\ UNCHANGED <<state, instantActionStates, queueVars, simVars, runVars,
                   router, engineVars, draft, report, told>>

\* buildState gets robot.mu, and asks whether there is road to drive.
BeginState ==
    /\ publisher = "build" /\ ~RobotLocked
    /\ draft' = [order |-> OrderPart, actionStates |-> Announced,
                 driving |-> pc # "off" /\ Sim!CanDrive /\ ~state.paused]
    /\ publisher' = "driving"
    /\ UNCHANGED <<vars, report, told>>

\* Then, only if there is, the engine: DrivingAllowed...
AskDriving ==
    /\ publisher = "driving" /\ publisher' = "actions"
    /\ draft' = [draft EXCEPT !.driving = @ /\ Engine!DrivingAllowed]
    /\ UNCHANGED <<vars, report, told>>

\* ...and ActionStates; the message is published when robot.mu is free again.
Publish ==
    /\ publisher = "actions" /\ publisher' = "ticking"
    /\ report' = [draft EXCEPT !.actionStates = @ \union Elements(Engine!ActionStates)]
    /\ told' = told \union {s.actionId : s \in
                  {x \in report'.actionStates : x.actionStatus \in Engine!Terminal}}
    /\ draft' = NoReport
    /\ UNCHANGED vars

\* What the other goroutines may do while buildState holds robot.mu.
WithoutRobotLock ==
    \/ ExtendSimulator \/ SignalSimulator
    \/ RunLooks \/ AskEngine \/ RunSteps \/ EnqueueActions
    \/ EngineStep
    \/ \E t \in live : Elapse(t)

RNext ==
    \/ publisher \in {"ticking", "build"} /\ Next /\ UNCHANGED repVars
    \/ publisher \in {"driving", "actions"} /\ pc # "crashed"
          /\ WithoutRobotLock /\ UNCHANGED repVars
    \/ pc # "crashed" /\ (Due \/ BeginState \/ AskDriving \/ Publish)

RSpec == RInit /\ [][RNext]_allVars

-----------------------------------------------------------------------------

\* Somebody has changed the order state and will call MarkDirty.
MarkComing == RobotLocked \/ reached # {}

\* No change of the order state is lost between a report and the next: unless
\* the flag is up or about to be, the last report says what is the case.  Every
\* writer must raise the flag after it wrote, for a report that is built
\* meanwhile takes it away.
NothingUnreported ==
    publisher = "ticking" /\ ~dirty /\ ~MarkComing => report.order = OrderPart

\* What the next property is about: the messages of one order, repeated, late
\* and reordered at will, which is a journey that fleet control extends by
\* updates: a place is visited once, and an action belongs to one step.
JourneyNodes == UNION {Elements(o.nodes) : o \in OrderMessages}

JourneyEdges == UNION {Elements(o.edges) : o \in OrderMessages}

OneJourney ==
    /\ \A o, p \in OrderMessages : o.orderId = p.orderId
    /\ \A o \in OrderMessages : WellFormed(o)
    /\ \A n, m \in JourneyNodes : n.nodeId = m.nodeId => n.sequenceId = m.sequenceId
    /\ \A n \in JourneyNodes :
          /\ n.nodeId \notin {NoNode, Between}
          /\ \A i, j \in DOMAIN n.actions : n.actions[i] = n.actions[j] => i = j
    /\ \A x, y \in JourneyNodes \union JourneyEdges :
          Elements(x.actions) \intersect Elements(y.actions) # {}
             => x.sequenceId = y.sequenceId

\* The robot has an order to drive.
Open == state.orderId # NoOrder /\ ~state.cancelled

\* The robot has not left its base: the last node that it recorded lies at or
\* before the decision point, although Run looks at the released flag under
\* the simulator's mutex and updates move the decision point under robot.mu.
StaysOnBase == Open => state.lastNodeSequenceId <= state.decisionSequenceId

\* Along an order the robot only goes forward: the node that it reports as the
\* last one it reached never lies behind an earlier one, although stitch moves
\* the chain under the index of the simulator, which may skip nodes for that,
\* and onTick looks the node up in a chain that has changed since.
GoesForward ==
    Open /\ Open' => state.lastNodeSequenceId <= state'.lastNodeSequenceId

NeverTurnsBack == [][GoesForward]_allVars

\* onTick gives the engine each action at most once until a cancelOrder,
\* although updates repeat the node they start from and messages come twice.
ActsOnce == Open =>
    \A t, u \in DOMAIN queue : queue[t].action = queue[u].action => t = u

\* An action has one status in a report, although buildState gathers them
\* from the order and from the engine, which goes on meanwhile; and what was
\* told to have ended is not reported as waiting or running again.  Until a
\* cancelOrder, that is: an arrival recorded after it finds its node gone, and
\* with lastNodeSequenceId -1 what was driven over is ahead once more.
ReportsAreConsistent == ~state.cancelled =>
    \A s \in report.actionStates :
       /\ \A r \in report.actionStates : r.actionId = s.actionId => r = s
       /\ s.actionId \in told => s.actionStatus \in Engine!Terminal

=============================================================================

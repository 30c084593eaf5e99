-------------------------- MODULE ReportingProofs --------------------------
(***************************************************************************)
(* Theorems about Reporting, for every set of orders and actions, on any   *)
(* road; those that assume OneJourney, for every journey that is one       *)
(* order, as long and as often extended as one likes.                      *)
(***************************************************************************)
EXTENDS Reporting, RobotProofs

\* What a report says of the order state.
saidVars == <<state, instantActionStates>>

\* The flag is up, or whoever has written is on the way to raise it.
Marked == dirty \/ MarkComing

LEMMA SamePart == UNCHANGED saidVars => OrderPart' = OrderPart
  BY DEF saidVars, OrderPart, Ahead, NewBaseRequest

-----------------------------------------------------------------------------
(* Every writer raises the flag after it wrote: a step that leaves nobody to *)
(* raise it has found it down, with nothing written.                         *)

LEMMA RouterQuiet ==
    ASSUME RouterStep, ~Marked' PROVE ~Marked /\ UNCHANGED saidVars
  <1>1. ~AcceptsOrder /\ ~CancelExtends /\ ~CancelSignals
    BY DEF AcceptsOrder, CancelExtends, CancelSignals, Idle, Marked, MarkComing,
       RobotLocked
  <1>2. CASE RejectOrder
    BY <1>2 DEF RejectOrder, runVars, Marked, MarkComing, RobotLocked, saidVars
  <1>3. CASE StartSimulator
    BY <1>3 DEF StartSimulator, runVars, Marked, MarkComing, RobotLocked, saidVars
  <1>4. CASE ExtendSimulator
    BY <1>4 DEF ExtendSimulator, runVars, Marked, MarkComing, RobotLocked, saidVars
  <1>5. CASE SignalSimulator
    BY <1>5 DEF SignalSimulator, runVars, Marked, MarkComing, RobotLocked, saidVars
  <1> QED
    BY <1>1, <1>2, <1>3, <1>4, <1>5 DEF RouterStep

LEMMA InstantMarks == InstantAction => Marked'
  <1>1. CancelOrder => Marked'
    BY DEF CancelOrder, Idle, Marked, MarkComing, RobotLocked
  <1>2. StartPause \/ StopPause => Marked'
    BY DEF StartPause, StopPause, Marked
  <1>3. ASSUME NEW a \in Action, Retry(a) \/ SkipRetry(a) PROVE Marked'
    BY <1>3 DEF Retry, SkipRetry, Marked
  <1>4. ASSUME NEW type \in InstantTypes, FailInstant(type) PROVE Marked'
    BY <1>4 DEF FailInstant, Marked
  <1> QED
    BY <1>1, <1>2, <1>3, <1>4 DEF InstantAction

LEMMA RunQuiet ==
    ASSUME RunStep, ~Marked' PROVE ~Marked /\ UNCHANGED saidVars
  <1>1. ~RecordArrival /\ ~EnqueueActions
    BY DEF RecordArrival, EnqueueActions, Marked, MarkComing
  <1>2. CASE RunLooks
    BY <1>2 DEF RunLooks, runVars, Marked, MarkComing, RobotLocked, saidVars
  <1>3. CASE ReadPaused
    BY <1>3 DEF ReadPaused, Marked, MarkComing, RobotLocked, saidVars
  <1>4. CASE AskEngine
    BY <1>4 DEF AskEngine, Marked, MarkComing, RobotLocked, saidVars
  <1>5. CASE RunSteps
    BY <1>5 DEF RunSteps, runVars, Marked, MarkComing, RobotLocked, saidVars
  <1> QED
    BY <1>1, <1>2, <1>3, <1>4, <1>5 DEF RunStep

LEMMA OthersQuiet ==
    ASSUME ~Marked',
           EngineStep \/ (\E t \in live : Elapse(t)) \/ UNCHANGED vars
    PROVE  ~Marked /\ UNCHANGED saidVars
  <1>1. CASE EngineStep
    <2>1. ~dirty
      BY <1>1, Zenon DEF EngineStep, AdvanceQueue, CompareStates, Marked
    <2> QED
      BY <1>1, <2>1 DEF EngineStep, AdvanceQueue, CompareStates, runVars, Marked,
         MarkComing, RobotLocked, saidVars
  <1>2. CASE \E t \in live : Elapse(t)
    BY <1>2 DEF Elapse, runVars, Marked, MarkComing, RobotLocked, saidVars
  <1>3. CASE UNCHANGED vars
    BY <1>3 DEF vars, runVars, Marked, MarkComing, RobotLocked, saidVars
  <1> QED
    BY <1>1, <1>2, <1>3

LEMMA Quiet ==
    ASSUME [Next]_vars, ~Marked' PROVE ~Marked /\ UNCHANGED saidVars
  <1>1. ASSUME NEW o \in OrderMessages, ReceiveOrder(o)
        PROVE  ~Marked /\ UNCHANGED saidVars
    BY <1>1 DEF ReceiveOrder, runVars, Marked, MarkComing, RobotLocked, saidVars
  <1> QED
    BY <1>1, RouterQuiet, InstantMarks, RunQuiet, OthersQuiet DEF Next

-----------------------------------------------------------------------------

\* The inductive invariant: what NothingUnreported says of the last report also
\* holds of the one that is being built, from the look at the order state on.
RInv ==
    /\ NothingUnreported
    /\ publisher \in {"driving", "actions"} /\ ~Marked => draft.order = OrderPart
    /\ "order" \in DOMAIN draft

LEMMA RInitInv == RInit => RInv
  BY DEF RInit, RInv, NothingUnreported, NoReport

\* While the publisher is elsewhere, the robot keeps the invariant.
LEMMA RobotKeepsRInv ==
    ASSUME RInv, [Next]_vars, UNCHANGED repVars PROVE RInv'
  <1>1. ~Marked' => ~Marked /\ OrderPart' = OrderPart
    BY Quiet, SamePart
  <1> QED
    BY <1>1 DEF RInv, NothingUnreported, Marked, repVars

LEMMA RStep == RInv /\ [RNext]_allVars => RInv'
  <1> SUFFICES ASSUME RInv, [RNext]_allVars PROVE RInv'
    OBVIOUS
  <1>1. CASE Next /\ UNCHANGED repVars
    BY <1>1, RobotKeepsRInv
  <1>2. CASE pc # "crashed" /\ WithoutRobotLock /\ UNCHANGED repVars
    <2>1. Next
      BY <1>2 DEF WithoutRobotLock, Next, RouterStep, RunStep
    <2> QED
      BY <1>2, <2>1, RobotKeepsRInv
  <1>3. CASE Due
    BY <1>3 DEF Due, RInv, NothingUnreported
  <1>4. CASE BeginState
    <2>1. UNCHANGED vars
      BY <1>4 DEF BeginState
    <2>2. OrderPart' = OrderPart
      BY <2>1, SamePart DEF vars, saidVars
    <2> QED
      BY <1>4, <2>2 DEF BeginState, RInv, NothingUnreported
  <1>5. CASE AskDriving
    <2>1. UNCHANGED vars
      BY <1>5 DEF AskDriving
    <2>2. OrderPart' = OrderPart /\ (Marked' <=> Marked)
      BY <2>1, SamePart DEF vars, saidVars, runVars, Marked, MarkComing, RobotLocked
    <2>3. draft'.order = draft.order /\ "order" \in DOMAIN draft'
      BY <1>5 DEF AskDriving, RInv
    <2> QED
      BY <1>5, <2>2, <2>3 DEF AskDriving, RInv, NothingUnreported
  <1>6. CASE Publish
    <2>1. UNCHANGED vars
      BY <1>6 DEF Publish
    <2>2. OrderPart' = OrderPart /\ (Marked' <=> Marked)
      BY <2>1, SamePart DEF vars, saidVars, runVars, Marked, MarkComing, RobotLocked
    <2>3. report'.order = draft.order /\ "order" \in DOMAIN draft'
      BY <1>6 DEF Publish, RInv, NoReport
    <2> QED
      BY <1>6, <2>2, <2>3 DEF Publish, RInv, NothingUnreported, Marked
  <1>7. CASE UNCHANGED allVars
    BY <1>7, RobotKeepsRInv DEF allVars
  <1> QED
    BY <1>1, <1>2, <1>3, <1>4, <1>5, <1>6, <1>7 DEF RNext

\* No change of the order state is lost between two reports.
THEOREM NothingStaysUnreported == RSpec => []NothingUnreported
  <1>1. RInv => NothingUnreported
    BY DEF RInv
  <1> QED
    BY <1>1, RInitInv, RStep, PTL DEF RSpec

-----------------------------------------------------------------------------

\* Beside the publisher, too, the robot loses no wake-up: to gather a report
\* only takes the dirty flag.
THEOREM ReportingLosesNoWakeup == RSpec => []NoLostWakeup
  <1>1. RInit => NoLostWakeup
    BY WakeupInit DEF RInit
  <1>2. NoLostWakeup /\ [RNext]_allVars => NoLostWakeup'
    <2> SUFFICES ASSUME NoLostWakeup, [RNext]_allVars PROVE NoLostWakeup'
      OBVIOUS
    <2>1. [Next]_vars => NoLostWakeup'
      BY WakeupStep
    <2>2. CASE pc # "crashed" /\ WithoutRobotLock
      BY <2>1, <2>2 DEF WithoutRobotLock, Next, RouterStep, RunStep
    <2>3. CASE Due
      BY <2>3, WakeupStutter DEF Due, simVars, wakeVars
    <2>4. CASE UNCHANGED vars
      BY <2>1, <2>4
    <2> QED
      BY <2>1, <2>2, <2>3, <2>4
      DEF RNext, BeginState, AskDriving, Publish, allVars
  <1> QED
    BY <1>1, <1>2, PTL DEF RSpec

-----------------------------------------------------------------------------
(* That reports are consistent, on one journey.  First where the robot is:  *)
(* the simulator counts in indices of an array that stitch shortens, the    *)
(* order state in sequenceIds.                                              *)

\* An array of the simulator holds what the order state does, or is cleared.
Mirrors(sim, held, zero) ==
    \A i \in DOMAIN sim :
       /\ i \in Nat \ {0}
       /\ sim[i] = zero \/ (i \in DOMAIN held /\ sim[i] = held[i])

\* The sequenceId that edgeIdx stands for, and the one of the target.
IndexStep == state.nodes[1].sequenceId + 2 * (edgeIdx - 1)

TargetStep == state.nodes[1].sequenceId + 2 * edgeIdx

\* An update may make the simulator skip nodes, but never go back.
Indexed ==
    /\ edgeIdx \in Nat \ {0}
    /\ pc = "off" => edgeIdx = 1
    /\ Mirrors(simNodes, state.nodes, ZeroNode)
    /\ Mirrors(simEdges, state.edges, ZeroEdge)
    /\ state.lastNodeSequenceId <= IndexStep

\* The place where the robot is lies at or before the target,
NearPlaces ==
    \A n \in JourneyNodes : n.nodeId = position => n.sequenceId <= TargetStep

\* and if it is the target's, and Run has looked, then the target is released:
\* no update that comes between the look and the step makes the robot arrive
\* beyond its decision point.
SeesRoad ==
    pc \in {"ticking", "gate", "stepping"} =>
       \A n \in JourneyNodes :
          n.nodeId = position /\ n.sequenceId = TargetStep
             => n.sequenceId <= state.decisionSequenceId

\* The node at n is what onTick is about to record.
IsNext(n) ==
    /\ n.nodeId = position /\ n.released
    /\ state.lastNodeSequenceId < n.sequenceId
    /\ n.sequenceId <= IndexStep

ReachesNext ==
    pc = "arrived" /\ reached = {} => \E n \in Elements(state.nodes) : IsNext(n)

ChainHeld == HoldsChain(OrderMessages, state)

Road == ChainHeld /\ Indexed /\ NearPlaces /\ SeesRoad /\ ReachesNext

LEMMA JourneyFits == ASSUME OneJourney PROVE MessagesFit(OrderMessages)
  BY RobotAssumption
     DEF RobotAssumption, MessagesTyped, OneJourney, MessagesFit

LEMMA JourneyTyped ==
    ASSUME OneJourney, NEW n \in JourneyNodes PROVE n.sequenceId \in Int
  BY DEF OneJourney, WellFormed, JourneyNodes

LEMMA OpenChain ==
    ASSUME OneJourney, OrderTyped, Open, ChainHeld
    PROVE  /\ Counts(state.nodes, state.edges)
           /\ Elements(state.nodes) \subseteq JourneyNodes
           /\ Elements(state.edges) \subseteq JourneyEdges
           /\ \E r \in DOMAIN state.nodes : \E k \in 1..r : AtBase(state, k, r)
  <1>1. Counts(state.nodes, state.edges)
    BY JourneyFits, StateChain, ChainCounts DEF Open, ChainHeld
  <1>2. JourneyNodes = AllNodes(OrderMessages) /\ JourneyEdges = AllEdges(OrderMessages)
    BY DEF JourneyNodes, JourneyEdges, AllNodes, AllEdges
  <1>3. /\ Elements(state.nodes) \subseteq JourneyNodes
        /\ Elements(state.edges) \subseteq JourneyEdges
    BY <1>2, ShapeOfTyped DEF OrderTyped
  <1>4. \E r \in DOMAIN state.nodes : \E k \in 1..r : AtBase(state, k, r)
    BY DEF Open, ChainHeld, HoldsChain
  <1> QED
    BY <1>1, <1>3, <1>4

\* What CanDrive says of the road.
LEMMA LooksAhead ==
    ASSUME OneJourney, OrderTyped, Open, Road, Sim!CanDrive
    PROVE  TargetStep <= state.decisionSequenceId
  <1>1. PICK nodes, edges : nodes = state.nodes /\ edges = state.edges
    OBVIOUS
  <1>2. PICK r \in DOMAIN nodes : \E k \in 1..r : AtBase(state, k, r)
    BY <1>1, OpenChain DEF Road
  <1>3. /\ ReleasedUpTo(nodes, edges, r)
        /\ state.decisionSequenceId = nodes[r].sequenceId
    BY <1>1, <1>2 DEF AtBase, Open
  <1>4. edgeIdx \in DOMAIN edges /\ edges[edgeIdx].released
    <2>1. edgeIdx \in DOMAIN simEdges /\ simEdges[edgeIdx].released
      BY DEF Sim!CanDrive
    <2>2. simEdges[edgeIdx] # ZeroEdge
      BY <2>1 DEF ZeroEdge
    <2> QED
      BY <1>1, <2>1, <2>2 DEF Road, Indexed, Mirrors
  <1>5. Counts(nodes, edges)
    BY <1>1, OpenChain DEF Road
  <1>6. edgeIdx < r /\ edgeIdx \in Nat /\ r \in 1..Len(nodes)
    BY <1>3, <1>4, <1>5 DEF ReleasedUpTo, Counts
  <1>7. nodes[r].sequenceId = nodes[1].sequenceId + 2 * (r - 1)
    BY <1>5, <1>6 DEF Counts
  <1>8. nodes[1].sequenceId \in Int
    BY <1>5 DEF Counts
  <1>9. nodes[1].sequenceId + 2 * edgeIdx <= nodes[r].sequenceId
    BY <1>6, <1>7, <1>8
  <1> QED
    BY <1>1, <1>3, <1>9 DEF TargetStep

\* The node that the simulator drives to, if it was not cleared.
LEMMA TargetNode ==
    ASSUME OneJourney, OrderTyped, Open, Road, Sim!InRange, Sim!Target # NoNode
    PROVE  \E n \in Elements(state.nodes) :
              /\ n.nodeId = Sim!Target /\ n.sequenceId = TargetStep
              /\ TargetStep <= state.decisionSequenceId => n.released
  <1>1. PICK nodes, edges : nodes = state.nodes /\ edges = state.edges
    OBVIOUS
  <1>2. PICK r \in DOMAIN nodes : \E k \in 1..r : AtBase(state, k, r)
    BY <1>1, OpenChain DEF Road
  <1>3. /\ ReleasedUpTo(nodes, edges, r)
        /\ state.decisionSequenceId = nodes[r].sequenceId
    BY <1>1, <1>2 DEF AtBase, Open
  <1>4. PICK i : i = edgeIdx + 1
    OBVIOUS
  <1>5. i \in DOMAIN nodes /\ simNodes[i] = nodes[i]
    <2>1. i \in DOMAIN simNodes /\ simNodes[i].nodeId # NoNode
      BY <1>4 DEF Sim!InRange, Sim!Target
    <2>2. simNodes[i] # ZeroNode
      BY <2>1 DEF ZeroNode
    <2> QED
      BY <1>1, <2>1, <2>2 DEF Road, Indexed, Mirrors
  <1>6. Counts(nodes, edges)
    BY <1>1, OpenChain DEF Road
  <1>7. /\ i \in 1..Len(nodes) /\ r \in 1..Len(nodes)
        /\ nodes[1].sequenceId \in Int
        /\ nodes[i].sequenceId = nodes[1].sequenceId + 2 * (i - 1)
        /\ nodes[r].sequenceId = nodes[1].sequenceId + 2 * (r - 1)
    BY <1>5, <1>6 DEF Counts
  <1>8. edgeIdx \in Nat
    BY DEF Road, Indexed
  <1>9. nodes[i].sequenceId = nodes[1].sequenceId + 2 * edgeIdx
    BY <1>4, <1>7, <1>8
  <1>10. nodes[i].sequenceId <= nodes[r].sequenceId => nodes[i].released
    <2>1. nodes[i].sequenceId <= nodes[r].sequenceId => i <= r
      BY <1>7
    <2> QED
      BY <1>3, <1>5, <2>1 DEF ReleasedUpTo
  <1>11. /\ nodes[i] \in Elements(state.nodes)
         /\ nodes[i].nodeId = Sim!Target
         /\ nodes[i].sequenceId = TargetStep
    BY <1>1, <1>4, <1>5, <1>9 DEF Elements, Sim!Target, TargetStep
  <1> QED
    BY <1>3, <1>10, <1>11

RoadView ==
    <<state.nodes, state.edges, state.lastNodeSequenceId,
      state.decisionSequenceId, pc, simNodes, simEdges, edgeIdx, position, reached>>

LEMMA RoadStutter ==
    ASSUME Road, ChainHeld', UNCHANGED RoadView PROVE Road'
  BY DEF Road, Indexed, IndexStep, NearPlaces, SeesRoad, TargetStep, ReachesNext,
     IsNext, RoadView

\* Run sees the road again, or goes on to the step.
LEMMA RoadLooks ==
    ASSUME OneJourney, OrderTyped, Open, Road,
           RunLooks \/ ReadPaused \/ AskEngine
    PROVE  Road'
  <1>1. /\ UNCHANGED <<state, reached, simNodes, simEdges, edgeIdx, position>>
        /\ pc \notin {"off", "arrived"} /\ pc' \notin {"off", "arrived"}
        /\ pc' \in {"ticking", "gate", "stepping"} =>
              pc \in {"ticking", "gate", "stepping"} \/ Sim!CanDrive
    BY DEF RunLooks, ReadPaused, AskEngine, Sim!Check, Sim!ReceiveWake,
       Sim!Tick, Sim!Gate, runVars
  <1>2. SeesRoad'
    <2>1. CASE Sim!CanDrive
      BY <1>1, <2>1, LooksAhead DEF SeesRoad, TargetStep
    <2>2. CASE ~Sim!CanDrive
      BY <1>1, <2>2 DEF Road, SeesRoad, TargetStep
    <2> QED
      BY <2>1, <2>2
  <1> QED
    BY <1>1, <1>2 DEF Road, ChainHeld, Indexed, IndexStep, NearPlaces, TargetStep,
       ReachesNext

\* The step is an arrival, or the place is not one behind the target.
LEMMA RoadSteps ==
    ASSUME OneJourney, OrderTyped, ReachedTyped, Open, Road, RunSteps
    PROVE  Road'
  <1>1. /\ UNCHANGED <<state, reached, simNodes, simEdges>>
        /\ pc = "stepping" /\ reached = {}
    BY DEF RunSteps, Sim!Step, runVars, ReachedTyped
  <1>2. ChainHeld'
    BY <1>1 DEF Road, ChainHeld
  <1>3. edgeIdx \in Nat \ {0} /\ state.nodes[1].sequenceId \in Int
    BY OpenChain DEF Road, Indexed, Counts
  <1>4. CASE ~Sim!InRange
    <2>1. UNCHANGED <<edgeIdx, position>> /\ pc' = "crashed"
      BY <1>4 DEF RunSteps, Sim!Step
    <2> QED
      BY <1>1, <1>2, <2>1 DEF Road, Indexed, IndexStep, NearPlaces, TargetStep,
         SeesRoad, ReachesNext
  <1>5. CASE Sim!InRange /\ Sim!Move
    <2>1. /\ UNCHANGED edgeIdx /\ pc' = "check"
          /\ position' \in {position, Sim!Target, Between}
      BY <1>5 DEF Sim!Move, Sim!Between, Between
    <2>2. NearPlaces'
      <3> SUFFICES ASSUME NEW n \in JourneyNodes, n.nodeId = position'
                   PROVE  n.sequenceId <= TargetStep'
        BY DEF NearPlaces
      <3>1. TargetStep' = TargetStep
        BY <1>1, <2>1 DEF TargetStep
      <3>2. n.nodeId \notin {NoNode, Between}
        BY DEF OneJourney
      <3>3. CASE position' = position
        BY <3>1, <3>3 DEF Road, NearPlaces
      <3>4. CASE position' = Sim!Target
        <4>1. PICK m \in Elements(state.nodes) :
                 m.nodeId = Sim!Target /\ m.sequenceId = TargetStep
          BY <1>5, <3>2, <3>4, TargetNode
        <4>2. m \in JourneyNodes
          BY OpenChain DEF Road
        <4>3. n.sequenceId = m.sequenceId
          BY <3>4, <4>1, <4>2 DEF OneJourney
        <4>4. n.sequenceId \in Int
          BY JourneyTyped
        <4> QED
          BY <3>1, <4>1, <4>3, <4>4
      <3> QED
        BY <2>1, <3>2, <3>3, <3>4
    <2> QED
      BY <1>1, <1>2, <2>1, <2>2 DEF Road, Indexed, IndexStep, SeesRoad, ReachesNext
  <1>6. CASE Sim!InRange /\ Sim!Arrive
    <2>1. /\ position = Sim!Target /\ UNCHANGED position /\ edgeIdx' = edgeIdx + 1
          /\ pc' = IF Sim!Target = NoNode THEN "check" ELSE "arrived"
      BY <1>6 DEF Sim!Arrive, Sim!NoNode, NoNode
    <2>2. IndexStep' = TargetStep /\ TargetStep' = TargetStep + 2
      BY <1>1, <1>3, <2>1 DEF IndexStep, TargetStep
    <2>3. /\ TargetStep \in Int /\ IndexStep \in Int
          /\ TargetStep = IndexStep + 2
      BY <1>3 DEF IndexStep, TargetStep
    <2>4. state.lastNodeSequenceId \in Int /\ state.lastNodeSequenceId <= IndexStep
      BY DEF OrderTyped, Typed, Road, Indexed
    <2>5. Indexed'
      BY <1>1, <1>3, <2>1, <2>2, <2>3, <2>4 DEF Road, Indexed
    <2>6. NearPlaces'
      <3> SUFFICES ASSUME NEW n \in JourneyNodes, n.nodeId = position
                   PROVE  n.sequenceId <= TargetStep + 2
        BY <2>1, <2>2 DEF NearPlaces
      <3>1. n.sequenceId <= TargetStep /\ n.sequenceId \in Int
        BY JourneyTyped DEF Road, NearPlaces
      <3> QED
        BY <2>3, <3>1
    <2>7. ReachesNext'
      <3> SUFFICES ASSUME pc' = "arrived"
                   PROVE  \E n \in Elements(state.nodes) : IsNext(n)'
        BY <1>1 DEF ReachesNext
      <3>1. Sim!Target # NoNode
        BY <2>1
      <3>2. PICK n \in Elements(state.nodes) :
               /\ n.nodeId = Sim!Target /\ n.sequenceId = TargetStep
               /\ TargetStep <= state.decisionSequenceId => n.released
        BY <1>6, <3>1, TargetNode
      <3>3. n \in JourneyNodes
        BY OpenChain DEF Road
      <3>4. n.released
        BY <1>1, <2>1, <3>2, <3>3 DEF Road, SeesRoad
      <3>5. state.lastNodeSequenceId < TargetStep
        BY <2>3, <2>4
      <3> QED
        BY <1>1, <2>1, <2>2, <2>3, <3>2, <3>4, <3>5 DEF IsNext
    <2> QED
      BY <1>2, <2>1, <2>5, <2>6, <2>7 DEF Road, SeesRoad
  <1> QED
    BY <1>4, <1>5, <1>6 DEF RunSteps, Sim!Step

\* What an arrival finds under the place: one node, although the array is
\* searched from its front.
LEMMA FindsNext ==
    ASSUME OneJourney, OrderTyped, Open, ChainHeld,
           NEW n \in Elements(state.nodes)
    PROVE  /\ SequenceIdFor(state, n.nodeId) = n.sequenceId
           /\ \E m \in Elements(state.nodes) :
                 /\ m.sequenceId = n.sequenceId
                 /\ ActionsForNode(state, n.nodeId) = m.actions
  <1>1. PICK nodes : nodes = state.nodes
    OBVIOUS
  <1>2. DOMAIN nodes = 1..Len(nodes)
    BY <1>1, OpenChain DEF Counts
  <1> DEFINE first == FirstIndex(nodes, n.nodeId)
  <1>3. first \in DOMAIN nodes /\ nodes[first].nodeId = n.nodeId
    BY <1>1, <1>2, FirstVisit
  <1>4. nodes[first] \in Elements(nodes)
    BY <1>3 DEF Elements
  <1>5. nodes[first].sequenceId = n.sequenceId
    <2>1. n \in JourneyNodes /\ nodes[first] \in JourneyNodes
      BY <1>1, <1>4, OpenChain
    <2> QED
      BY <1>3, <2>1 DEF OneJourney
  <1>6. KnowsNode(state, n.nodeId)
    BY DEF KnowsNode
  <1> QED
    BY <1>1, <1>4, <1>5, <1>6 DEF SequenceIdFor, ActionsForNode

LEMMA RoadArrives ==
    ASSUME OneJourney, OrderTyped, Open, Road, RecordArrival
    PROVE  /\ Road'
           /\ \E n \in JourneyNodes :
                 /\ reached' = {n.actions}
                 /\ state'.lastNodeSequenceId = n.sequenceId
                 /\ state.lastNodeSequenceId < n.sequenceId
  <1>1. /\ UNCHANGED simVars /\ pc = "arrived" /\ reached = {}
        /\ state' = Arrived(state, position)
        /\ reached' = {ActionsForNode(state, position)}
    BY DEF RecordArrival
  <1>2. PICK n \in Elements(state.nodes) : IsNext(n)
    BY <1>1 DEF Road, ReachesNext
  <1>3. SequenceIdFor(state, position) = n.sequenceId
    BY <1>2, FindsNext DEF Road, IsNext
  <1>4. /\ state'.lastNodeSequenceId = n.sequenceId
        /\ state'.nodes = state.nodes /\ state'.edges = state.edges
        /\ state'.decisionSequenceId = state.decisionSequenceId
    BY <1>1, <1>3, ShapeOfTyped DEF OrderTyped, Arrived, Fields
  <1>5. ChainHeld'
    BY <1>1, <1>2, JourneyFits, ArrivedChain DEF Road, ChainHeld, Open, IsNext
  <1>6. Road'
    BY <1>1, <1>2, <1>4, <1>5 DEF Road, Indexed, IndexStep, NearPlaces, SeesRoad,
       TargetStep, ReachesNext, IsNext, simVars
  <1>7. PICK m \in Elements(state.nodes) :
           m.sequenceId = n.sequenceId /\ ActionsForNode(state, position) = m.actions
    BY <1>2, FindsNext DEF Road, IsNext
  <1>8. m \in JourneyNodes
    BY OpenChain DEF Road
  <1> QED
    BY <1>1, <1>2, <1>4, <1>6, <1>7, <1>8 DEF IsNext

\* The simulator is created, or shown the new chain.
LEMMA RoadExtends ==
    ASSUME OneJourney, OrderTyped, Open, Road,
           StartSimulator \/ ExtendSimulator \/ CancelExtends
    PROVE  Road'
  <1>1. PICK nodes, edges : nodes = state.nodes /\ edges = state.edges
    OBVIOUS
  <1>2. UNCHANGED <<state, reached>> /\ simNodes' = nodes /\ simEdges' = edges
    BY <1>1 DEF StartSimulator, ExtendSimulator, CancelExtends, Sim!Create,
       Sim!SetChain, runVars
  <1>3. Counts(nodes, edges)
    BY <1>1, OpenChain DEF Road
  <1>4. ASSUME NEW s, NEW zero, DOMAIN s = 1..Len(s), Len(s) \in Nat
        PROVE  Mirrors(s, s, zero)
    BY <1>4 DEF Mirrors
  <1>5. Mirrors(nodes, nodes, ZeroNode) /\ Mirrors(edges, edges, ZeroEdge)
    <2>1. /\ DOMAIN nodes = 1..Len(nodes) /\ Len(nodes) \in Nat
          /\ DOMAIN edges = 1..Len(edges) /\ Len(edges) \in Nat
      BY <1>3 DEF Counts
    <2> QED
      BY <1>4, <2>1
  <1>6. Mirrors(simNodes, state.nodes, ZeroNode)'
          /\ Mirrors(simEdges, state.edges, ZeroEdge)'
    BY <1>1, <1>2, <1>5
  <1>7. CASE StartSimulator
    <2>1. /\ pc = "off" /\ pc' = "check" /\ edgeIdx' = 1
          /\ position' = nodes[1].nodeId
      BY <1>1, <1>7 DEF StartSimulator, Sim!Create
    <2>2. /\ nodes[1].sequenceId \in Int
          /\ nodes[1] \in Elements(nodes)
      <3>1. 1 \in DOMAIN nodes
        BY <1>3 DEF Counts
      <3> QED
        BY <1>3, <3>1 DEF Counts, Elements
    <2>3. IndexStep' = IndexStep /\ TargetStep' = nodes[1].sequenceId + 2
      BY <1>1, <1>2, <2>1, <2>2 DEF IndexStep, TargetStep, Road, Indexed
    <2>4. NearPlaces'
      <3> SUFFICES ASSUME NEW n \in JourneyNodes, n.nodeId = nodes[1].nodeId
                   PROVE  n.sequenceId <= nodes[1].sequenceId + 2
        BY <2>1, <2>3 DEF NearPlaces
      <3>1. nodes[1] \in JourneyNodes
        BY <1>1, <2>2, OpenChain DEF Road
      <3>2. n.sequenceId = nodes[1].sequenceId
        BY <3>1 DEF OneJourney
      <3> QED
        BY <2>2, <3>2
    <2> QED
      BY <1>2, <1>6, <2>1, <2>3, <2>4 DEF Road, ChainHeld, Indexed, SeesRoad,
         ReachesNext
  <1>8. CASE ExtendSimulator \/ CancelExtends
    <2>1. UNCHANGED <<pc, edgeIdx, position>>
      BY <1>8 DEF ExtendSimulator, CancelExtends, Sim!SetChain
    <2> QED
      BY <1>2, <1>6, <2>1 DEF Road, ChainHeld, Indexed, IndexStep, NearPlaces,
         SeesRoad, TargetStep, ReachesNext, IsNext
  <1> QED
    BY <1>7, <1>8

\* The array that the simulator still holds, after stitch filtered it in place.
LEMMA OverwrittenMirrors ==
    ASSUME NEW S, NEW kept \in Seq(S), NEW appended \in Seq(S),
           NEW old, DOMAIN old \subseteq Nat \ {0}, NEW zero, NEW spare
    PROVE  Mirrors(Overwritten(old, kept, appended, zero, spare),
                   kept \o appended, zero)
  <1> DEFINE all == kept \o appended
             new == IF spare \/ Len(all) <= Len(old) THEN all ELSE kept
             s == Overwritten(old, kept, appended, zero, spare)
  <1>1. s = [i \in DOMAIN old |-> IF i <= Len(new) THEN new[i] ELSE zero]
    BY DEF Overwritten
  <1>2. /\ DOMAIN kept = 1..Len(kept) /\ Len(kept) \in Nat
        /\ DOMAIN all = 1..Len(all) /\ Len(all) \in Nat
        /\ Len(kept) <= Len(all)
        /\ \A i \in 1..Len(kept) : all[i] = kept[i]
    OBVIOUS
  <1>3. /\ Len(new) \in Nat /\ Len(new) <= Len(all)
        /\ \A i \in 1..Len(new) : new[i] = all[i]
    <2> HIDE DEF all
    <2>1. CASE spare \/ Len(all) <= Len(old)
      BY <1>2, <2>1
    <2>2. CASE ~(spare \/ Len(all) <= Len(old))
      BY <1>2, <2>2
    <2> QED
      BY <2>1, <2>2
  <1> HIDE DEF all, new, s
  <1>4. ASSUME NEW i \in DOMAIN s
        PROVE  i \in Nat \ {0} /\ (s[i] = zero \/ (i \in DOMAIN all /\ s[i] = all[i]))
    <2>1. i \in DOMAIN old /\ s[i] = IF i <= Len(new) THEN new[i] ELSE zero
      BY <1>1
    <2>2. i \in Nat \ {0}
      BY <2>1
    <2>3. CASE i <= Len(new)
      <3>1. i \in 1..Len(new) /\ i \in 1..Len(all)
        BY <1>2, <1>3, <2>2, <2>3
      <3> QED
        BY <1>2, <1>3, <2>1, <2>2, <2>3, <3>1
    <2>4. CASE ~(i <= Len(new))
      BY <2>1, <2>2, <2>4
    <2> QED
      BY <2>3, <2>4
  <1> QED
    BY <1>4 DEF Mirrors, all, s

\* An update of the order, as stitch leaves it.
LEMMA Stitches ==
    ASSUME OneJourney, RouterTyped, OrderTyped, Open, Road, AcceptsOrder
    PROVE  \E o \in OrderMessages :
              /\ ~IsNew(state, o) /\ ContinuesFromDecision(state, o)
              /\ SharedArrays(o) /\ state' = Accepted(state, o)
  <1>1. PICK o \in OrderMessages : o = router.order
    BY DEF AcceptsOrder, RouterTyped
  <1>2. Rejection(state, o, router.pos) = "" /\ SharedArrays(o)
    BY <1>1 DEF AcceptsOrder, Rejected
  <1>3. state' = Accepted(state, o)
    BY <1>1, <1>2 DEF AcceptsOrder, AcceptOrder
  <1>4. ~IsNew(state, o)
    <2>1. state.orderId \in {p.orderId : p \in OrderMessages}
      BY DEF OrderTyped, Typed, Open
    <2> QED
      BY <2>1 DEF OneJourney, IsNew
  <1>5. ContinuesFromDecision(state, o)
    BY <1>2, <1>4 DEF Rejection, UpdateError
  <1> QED
    BY <1>2, <1>3, <1>4, <1>5

\* An update changes neither where the robot was last nor where it is, and what
\* it drops lies behind.
LEMMA RoadStitched ==
    ASSUME OneJourney, RouterTyped, OrderTyped, Open, Road, AcceptsOrder
    PROVE  /\ Road'
           /\ UNCHANGED <<state.lastNodeSequenceId, queue, live, reached>>
  <1>1. PICK o \in OrderMessages :
              /\ ~IsNew(state, o) /\ ContinuesFromDecision(state, o)
              /\ SharedArrays(o) /\ state' = Accepted(state, o)
    BY Stitches
  <1>2. UNCHANGED <<queue, live, pc, edgeIdx, position, reached>>
    BY DEF AcceptsOrder, queueVars, runVars
  <1>3. PICK old, nodes, edges :
           old = state.nodes /\ nodes = state'.nodes /\ edges = state'.edges
    OBVIOUS
  <1>4. /\ state'.lastNodeSequenceId = state.lastNodeSequenceId
        /\ nodes = KeptNodes(state) \o o.nodes
        /\ edges = KeptEdges(state) \o o.edges
        /\ state'.orderId = state.orderId
        /\ state'.cancelled = state.cancelled
    BY <1>1, <1>3, ShapeOfTyped DEF OrderTyped, Accepted, Fields
  <1>5. /\ ChainHeld'
        /\ \E r \in DOMAIN old : \E k \in 1..r : \E p \in DOMAIN nodes :
              /\ AtBase(state, k, r) /\ AtBase(state', 1, p) /\ r - k + 1 <= p
              /\ Carries(old, k, r, nodes)
    BY <1>1, <1>3, JourneyFits, AcceptedUpdate DEF Road, ChainHeld, Open
  <1>6. PICK r \in DOMAIN old : \E k \in 1..r : \E p \in DOMAIN nodes :
              /\ AtBase(state, k, r) /\ AtBase(state', 1, p) /\ r - k + 1 <= p
              /\ Carries(old, k, r, nodes)
    BY <1>5
  <1>7. PICK k \in 1..r, p \in DOMAIN nodes :
              /\ AtBase(state, k, r) /\ AtBase(state', 1, p) /\ r - k + 1 <= p
              /\ Carries(old, k, r, nodes)
    BY <1>6
  <1>8. /\ ReleasedUpTo(old, state.edges, r) /\ ReleasedUpTo(nodes, edges, p)
        /\ state.lastNodeSequenceId = old[k].sequenceId
        /\ state.lastNodeSequenceId = nodes[1].sequenceId
        /\ state.decisionSequenceId = old[r].sequenceId
        /\ state'.decisionSequenceId = nodes[p].sequenceId
    BY <1>3, <1>4, <1>7 DEF AtBase, Open
  <1>9. Counts(old, state.edges)
    BY <1>3, OpenChain DEF Road
  <1>10. Counts(nodes, edges)
    BY <1>3, <1>4, <1>5, JourneyFits, StateChain, ChainCounts DEF Open, ChainHeld
  <1>11. /\ r \in 1..Len(old) /\ k \in 1..Len(old) /\ p \in 1..Len(nodes)
         /\ old[1].sequenceId \in Int /\ nodes[1].sequenceId \in Int
         /\ Len(nodes) \in Nat /\ Len(old) \in Nat /\ r \in Int /\ k \in Int /\ p \in Int
    BY <1>9, <1>10 DEF Counts
  <1>19. r - k + 1 <= p
    BY <1>7
  <1>20. /\ k >= 1 /\ r \in Int /\ k \in Int /\ p \in Int
         /\ old[1].sequenceId \in Int /\ nodes[1].sequenceId \in Int
    BY <1>11
  <1>12. /\ old[k].sequenceId = old[1].sequenceId + 2 * (k - 1)
         /\ old[r].sequenceId = old[1].sequenceId + 2 * (r - 1)
         /\ nodes[p].sequenceId = nodes[1].sequenceId + 2 * (p - 1)
    BY <1>9, <1>10, <1>11 DEF Counts
  <1>13. /\ old[1].sequenceId <= nodes[1].sequenceId
         /\ nodes[1].sequenceId = old[k].sequenceId
         /\ old[r].sequenceId <= nodes[p].sequenceId
    <2>1. nodes[1].sequenceId = old[k].sequenceId
      BY <1>8
    <2> QED
      BY ONLY <1>12, <1>19, <1>20, <2>1
  <1>14. edgeIdx \in Nat \ {0}
    BY DEF Road, Indexed
  <1>15. /\ IndexStep <= IndexStep' /\ TargetStep <= TargetStep'
         /\ state.lastNodeSequenceId <= IndexStep'
         /\ {IndexStep, IndexStep', TargetStep, TargetStep'} \subseteq Int
    <2>1. /\ IndexStep = old[1].sequenceId + 2 * (edgeIdx - 1)
          /\ IndexStep' = nodes[1].sequenceId + 2 * (edgeIdx - 1)
          /\ TargetStep = old[1].sequenceId + 2 * edgeIdx
          /\ TargetStep' = nodes[1].sequenceId + 2 * edgeIdx
      BY <1>2, <1>3 DEF IndexStep, TargetStep
    <2>2. state.lastNodeSequenceId = nodes[1].sequenceId
      BY <1>8
    <2>3. IndexStep <= IndexStep' /\ TargetStep <= TargetStep'
      BY ONLY <1>13, <1>14, <1>20, <2>1
    <2>4. state.lastNodeSequenceId <= IndexStep'
      BY ONLY <1>14, <1>20, <2>1, <2>2
    <2>5. /\ IndexStep \in Int /\ IndexStep' \in Int
          /\ TargetStep \in Int /\ TargetStep' \in Int
      BY ONLY <1>14, <1>20, <2>1
    <2> QED
      BY ONLY <2>3, <2>4, <2>5
  <1>16. Indexed'
    <2>1. /\ KeptNodes(state) \in Seq(AllNodes(OrderMessages))
          /\ KeptEdges(state) \in Seq(AllEdges(OrderMessages))
      BY FilterElements DEF KeptNodes, KeptEdges, OrderTyped, Typed
    <2>2. o.nodes \in Seq(AllNodes(OrderMessages)) /\ o.edges \in Seq(AllEdges(OrderMessages))
      BY RobotAssumption, AllTyped DEF RobotAssumption
    <2>3. DOMAIN simNodes \subseteq Nat \ {0} /\ DOMAIN simEdges \subseteq Nat \ {0}
      BY DEF Road, Indexed, Mirrors
    <2>4. PICK spareNodes, spareEdges \in BOOLEAN :
            /\ simNodes' = Overwritten(simNodes, KeptNodes(state), o.nodes,
                                       ZeroNode, spareNodes)
            /\ simEdges' = Overwritten(simEdges, KeptEdges(state), o.edges,
                                       ZeroEdge, spareEdges)
      BY <1>1 DEF SharedArrays
    <2>5. Mirrors(simNodes', nodes, ZeroNode) /\ Mirrors(simEdges', edges, ZeroEdge)
      BY <1>4, <2>1, <2>2, <2>3, <2>4, OverwrittenMirrors
    <2> QED
      BY <1>2, <1>3, <1>4, <1>15, <2>5 DEF Road, Indexed
  <1>17. NearPlaces' /\ SeesRoad'
    <2>1. ASSUME NEW n \in JourneyNodes, n.nodeId = position
          PROVE  n.sequenceId <= TargetStep'
      <3>1. n.sequenceId <= TargetStep /\ n.sequenceId \in Int
        BY <2>1, JourneyTyped DEF Road, NearPlaces
      <3> QED
        BY <1>15, <3>1
    <2>2. ASSUME pc \in {"ticking", "gate", "stepping"},
                 NEW n \in JourneyNodes, n.nodeId = position,
                 n.sequenceId = TargetStep'
          PROVE  n.sequenceId <= nodes[p].sequenceId
      <3>1. n.sequenceId <= TargetStep
        BY <2>2 DEF Road, NearPlaces
      <3>2. n.sequenceId = TargetStep
        BY <1>15, <2>2, <3>1
      <3>3. n.sequenceId <= old[r].sequenceId
        BY <1>8, <2>2, <3>2 DEF Road, SeesRoad
      <3>4. n.sequenceId \in Int /\ old[r].sequenceId \in Int
             /\ nodes[p].sequenceId \in Int
        <4>1. n.sequenceId \in Int
          BY JourneyTyped
        <4> QED
          BY ONLY <1>12, <1>20, <4>1
      <3> QED
        BY ONLY <1>13, <3>3, <3>4
    <2> QED
      BY <1>2, <1>8, <2>1, <2>2 DEF NearPlaces, SeesRoad
  <1>18. ReachesNext'
    <2> SUFFICES ASSUME pc = "arrived", reached = {}
                 PROVE  \E n \in Elements(nodes) : IsNext(n)'
      BY <1>2, <1>3 DEF ReachesNext
    <2>1. PICK n \in Elements(old) : IsNext(n)
      BY <1>3 DEF Road, ReachesNext
    <2>2. PICK i \in DOMAIN old : n = old[i]
      BY DEF Elements
    <2>3. i <= r
      BY <1>8, <2>1, <2>2 DEF IsNext, ReleasedUpTo
    <2>4. /\ i \in 1..Len(old) /\ i \in Int
          /\ old[i].sequenceId = old[1].sequenceId + 2 * (i - 1)
          /\ old[k].sequenceId < old[i].sequenceId
      BY <1>8, <1>9, <2>1, <2>2 DEF IsNext, Counts
    <2>5. i \in k..r /\ i - k + 1 \in 1..p /\ i - k + 1 \in 1..Len(nodes)
      <3>1. old[1].sequenceId + 2 * (k - 1) < old[1].sequenceId + 2 * (i - 1)
        BY ONLY <1>12, <2>4, Zenon
      <3>2. i \in Int /\ i >= 1
        BY ONLY <1>11, <2>4
      <3>3. k < i
        BY ONLY <1>20, <3>1, <3>2
      <3>4. p <= Len(nodes) /\ Len(nodes) \in Int
        BY ONLY <1>11
      <3> QED
        BY ONLY <1>19, <1>20, <2>3, <3>2, <3>3, <3>4
    <2>6. /\ nodes[i-k+1].sequenceId = n.sequenceId
          /\ nodes[i-k+1].nodeId = n.nodeId
      BY <1>7, <2>2, <2>5 DEF Carries
    <2>7. i - k + 1 \in DOMAIN nodes /\ nodes[i-k+1].released
      BY <1>8, <1>10, <2>5 DEF Counts, ReleasedUpTo
    <2>8. nodes[i-k+1] \in Elements(nodes)
      BY <2>7 DEF Elements
    <2>9. n.sequenceId <= IndexStep'
      <3>1. n.sequenceId \in Int
        BY <1>11, <2>2, <2>4
      <3> QED
        BY <1>15, <2>1, <3>1 DEF IsNext
    <2>10. IsNext(nodes[i-k+1])'
      BY <1>2, <1>4, <2>1, <2>6, <2>7, <2>9 DEF IsNext
    <2> QED
      BY <2>8, <2>10
  <1> QED
    BY <1>2, <1>4, <1>5, <1>16, <1>17, <1>18 DEF Road

-----------------------------------------------------------------------------

\* The other steps of the router, of the engine and of the clock.
Aside ==
    /\ ~AcceptsOrder /\ ~StartSimulator /\ ~ExtendSimulator
    /\ ~CancelExtends /\ ~CancelOrder /\ ~RunStep

LEMMA AsideSteps ==
    ASSUME OrderTyped, [Next]_vars, Aside
    PROVE  /\ UNCHANGED <<state.nodes, state.edges, state.orderId, state.cancelled,
                          state.lastNodeSequenceId, state.decisionSequenceId>>
           /\ UNCHANGED <<pc, simNodes, simEdges, edgeIdx, position, reached>>
           /\ ChainHeld => ChainHeld'
  <1>1. UNCHANGED <<pc, simNodes, simEdges, edgeIdx, position, reached>>
    BY DEF Aside, Next, RouterStep, InstantAction, EngineStep, ReceiveOrder,
       RejectOrder, SignalSimulator, CancelSignals, StartPause, StopPause, Retry,
       SkipRetry, FailInstant, AdvanceQueue, CompareStates, Elapse, Sim!SendWake,
       vars, simVars, runVars
  <1>2. state' \in {state, Paused(state, TRUE), Paused(state, FALSE)}
    BY DEF Aside, Next, RouterStep, InstantAction, EngineStep, ReceiveOrder,
       RejectOrder, SignalSimulator, CancelSignals, StartPause, StopPause, Retry,
       SkipRetry, FailInstant, AdvanceQueue, CompareStates, Elapse, vars
  <1>3. UNCHANGED <<state.nodes, state.edges, state.orderId, state.cancelled,
                    state.lastNodeSequenceId, state.decisionSequenceId>>
    BY <1>2, ShapeOfTyped DEF OrderTyped, Paused, Fields
  <1>4. ChainHeld => ChainHeld'
    BY <1>2, PausedChain DEF ChainHeld
  <1> QED
    BY <1>1, <1>3, <1>4

LEMMA RoadStep ==
    ASSUME OneJourney, AllTypes, Open, Road, [Next]_vars, ~CancelOrder
    PROVE  Road'
  <1>1. CASE Aside
    BY <1>1, AsideSteps, RoadStutter DEF AllTypes, RoadView, Road
  <1>2. CASE AcceptsOrder
    BY <1>2, RoadStitched DEF AllTypes
  <1>3. CASE StartSimulator \/ ExtendSimulator \/ CancelExtends
    BY <1>3, RoadExtends DEF AllTypes
  <1>4. CASE RunLooks \/ ReadPaused \/ AskEngine
    BY <1>4, RoadLooks DEF AllTypes
  <1>5. CASE RunSteps
    BY <1>5, RoadSteps DEF AllTypes
  <1>6. CASE RecordArrival
    BY <1>6, RoadArrives DEF AllTypes
  <1>7. CASE EnqueueActions
    <2>1. /\ UNCHANGED <<state, simNodes, simEdges, edgeIdx, position>>
          /\ pc = "arrived" /\ pc' = "check"
      BY <1>7 DEF EnqueueActions, Sim!OnTick
    <2> QED
      BY <2>1 DEF Road, ChainHeld, Indexed, IndexStep, NearPlaces, SeesRoad,
         TargetStep, ReachesNext
  <1> QED
    BY <1>1, <1>2, <1>3, <1>4, <1>5, <1>6, <1>7 DEF Aside, RunStep

\* Only an arrival moves the last node of the order, and onTick alone knows of
\* the actions that come with it.
LEMMA LastStays ==
    ASSUME OneJourney, AllTypes, Open, Road, [Next]_vars,
           ~CancelOrder, ~RecordArrival, ~EnqueueActions
    PROVE  UNCHANGED <<state.lastNodeSequenceId, reached>>
  <1>1. CASE Aside
    BY <1>1, AsideSteps DEF AllTypes
  <1>2. CASE AcceptsOrder
    BY <1>2, RoadStitched DEF AllTypes
  <1>3. CASE StartSimulator \/ ExtendSimulator \/ CancelExtends
              \/ RunLooks \/ ReadPaused \/ AskEngine \/ RunSteps
    BY <1>3 DEF StartSimulator, ExtendSimulator, CancelExtends, RunLooks,
       ReadPaused, AskEngine, RunSteps, runVars
  <1> QED
    BY <1>1, <1>2, <1>3 DEF Aside, RunStep

\* The order that a cancelled robot has is the only one there is.
LEMMA CancelIsFinal ==
    ASSUME OneJourney, AllTypes, [Next]_vars, Open'
    PROVE  (Open /\ ~CancelOrder) \/ state.orderId = NoOrder
  <1> SUFFICES ASSUME state.orderId # NoOrder
               PROVE  ~state.cancelled /\ ~CancelOrder
    BY DEF Open
  <1>1. DOMAIN state = Fields
    BY ShapeOfTyped DEF AllTypes, OrderTyped
  <1>2. ~CancelOrder
    BY <1>1 DEF CancelOrder, Cancelled, Fields, Open
  <1>3. CASE Aside
    BY <1>2, <1>3, AsideSteps DEF AllTypes, Open
  <1>4. CASE AcceptsOrder
    <2>1. PICK o \in OrderMessages : o = router.order
      BY <1>4 DEF AcceptsOrder, AllTypes, RouterTyped
    <2>2. Rejection(state, o, router.pos) = ""
      BY <1>4, <2>1 DEF AcceptsOrder, Rejected
    <2>3. ~IsNew(state, o)
      <3>1. state.orderId \in {p.orderId : p \in OrderMessages}
        BY DEF AllTypes, OrderTyped, Typed
      <3> QED
        BY <3>1 DEF OneJourney, IsNew
    <2> QED
      BY <1>2, <2>2, <2>3 DEF Rejection, UpdateError
  <1>5. CASE RecordArrival
    BY <1>1, <1>2, <1>5 DEF RecordArrival, Arrived, Fields, Open
  <1>6. CASE StartSimulator \/ ExtendSimulator \/ CancelExtends
              \/ RunLooks \/ ReadPaused \/ AskEngine \/ RunSteps \/ EnqueueActions
    BY <1>2, <1>6 DEF StartSimulator, ExtendSimulator, CancelExtends, RunLooks,
       ReadPaused, AskEngine, RunSteps, EnqueueActions, Open
  <1> QED
    BY <1>2, <1>3, <1>4, <1>5, <1>6 DEF Aside, RunStep

-----------------------------------------------------------------------------
(* Before the first order.                                                  *)

Fresh ==
    /\ ChainHeld
    /\ pc = "off" /\ router.at \in {"idle", "accept"}
    /\ simNodes = <<>> /\ simEdges = <<>> /\ edgeIdx = 1 /\ position = NoNode
    /\ DOMAIN queue = {} /\ live = {} /\ reached = {}

LEMMA FreshInit == Init => Fresh
  <1> SUFFICES ASSUME Init PROVE Fresh
    OBVIOUS
  <1>1. state = NoState
    BY DEF Init, OS!Init, OS!NoState, NoState, OS!NoOrder, NoOrder, OS!NoNode, NoNode
  <1>2. ChainHeld
    <2>1. OrderTyped
      BY <1>1, NoStateTyped DEF OrderTyped
    <2> QED
      BY <1>1 DEF ChainHeld, HoldsChain, StateTyped, OrderShape, NoState, Fields
  <1>3. DOMAIN queue = {} /\ live = {}
    BY DEF Init, Engine!Init
  <1>4. router.at = "idle"
    BY DEF Init, Idle
  <1> QED
    BY <1>2, <1>3, <1>4 DEF Fresh, Init, Sim!Init, Sim!NoNode, NoNode

LEMMA FreshBegins ==
    ASSUME OneJourney, AllTypes, state.orderId = NoOrder, Fresh, AcceptsOrder
    PROVE  Open' /\ Road' /\ UNCHANGED <<queue, live, reached>>
  <1>1. PICK o \in OrderMessages : o = router.order
    BY DEF AcceptsOrder, AllTypes, RouterTyped
  <1>2. Rejection(state, o, router.pos) = "" /\ SharedArrays(o)
    BY <1>1 DEF AcceptsOrder, Rejected
  <1>3. IsNew(state, o) /\ state' = Accepted(state, o)
    BY <1>1, <1>2, JourneyFits, MessageChain DEF AcceptsOrder, AcceptOrder, IsNew
  <1>4. ChainHeld' /\ ~state'.cancelled
    BY <1>3, JourneyFits, AcceptedNew DEF ChainHeld, Fresh
  <1>5. /\ UNCHANGED <<queue, live, reached, pc, simNodes, simEdges, edgeIdx, position>>
    BY <1>2, <1>3 DEF AcceptsOrder, SharedArrays, queueVars, runVars
  <1>6. /\ state'.nodes = o.nodes /\ state'.orderId = o.orderId
        /\ state'.lastNodeSequenceId = o.nodes[1].sequenceId
    BY <1>3, ShapeOfTyped DEF AllTypes, OrderTyped, Accepted, Fields
  <1>7. Open'
    BY <1>4, <1>6, JourneyFits, MessageChain DEF Open
  <1>8. o.nodes[1].sequenceId \in Int
    BY RobotAssumption, AllTyped DEF RobotAssumption
  <1>9. Indexed'
    <2>1. state'.lastNodeSequenceId <= IndexStep'
      BY <1>5, <1>6, <1>8 DEF Fresh, IndexStep
    <2> QED
      BY <1>5, <2>1 DEF Fresh, Indexed, Mirrors
  <1>10. NearPlaces' /\ SeesRoad' /\ ReachesNext'
    BY <1>5 DEF Fresh, OneJourney, NearPlaces, SeesRoad, ReachesNext
  <1> QED
    BY <1>4, <1>5, <1>7, <1>9, <1>10 DEF Road

LEMMA FreshStep ==
    ASSUME OneJourney, AllTypes, state.orderId = NoOrder, Fresh, [Next]_vars,
           ~AcceptsOrder
    PROVE  Fresh' /\ state'.orderId = NoOrder
  <1>1. /\ ~RunStep /\ ~StartSimulator /\ ~ExtendSimulator /\ ~CancelExtends
        /\ ~SignalSimulator /\ ~CancelSignals
    BY DEF Fresh, RunStep, RunLooks, ReadPaused, AskEngine, RunSteps,
       RecordArrival, EnqueueActions, Sim!Check, Sim!ReceiveWake, Sim!Tick,
       Sim!Gate, Sim!Step, StartSimulator, ExtendSimulator, CancelExtends,
       SignalSimulator, CancelSignals
  <1>2. DOMAIN queue' = {} /\ live' = {}
    <2>1. ~EnqueueActions
      BY <1>1 DEF RunStep
    <2>2. UNCHANGED queueVars \/ Calm
      BY <2>1, QueueSteps DEF AllTypes, vars
    <2> QED
      BY <2>2 DEF Fresh, Calm, queueVars
  <1>3. CASE CancelOrder
    <2>1. ChainHeld'
      BY <1>3, JourneyFits, CancelledChain DEF CancelOrder, Fresh, ChainHeld
    <2>2. UNCHANGED <<pc, simNodes, simEdges, edgeIdx, position, reached>>
           /\ router' = Idle
      BY <1>3 DEF CancelOrder, Fresh, simVars, runVars
    <2>3. state'.orderId = NoOrder
      BY <1>3, ShapeOfTyped DEF AllTypes, OrderTyped, CancelOrder, Cancelled, Fields
    <2> QED
      BY <1>2, <2>1, <2>2, <2>3 DEF Fresh, Idle
  <1>4. CASE ~CancelOrder
    <2>1. Aside
      BY <1>1, <1>4 DEF Aside
    <2>2. router'.at \in {"idle", "accept"}
      <3>1. CASE UNCHANGED router
        BY <3>1 DEF Fresh
      <3>2. ASSUME NEW o \in OrderMessages, ReceiveOrder(o) PROVE router'.at = "accept"
        BY <3>2 DEF ReceiveOrder
      <3>3. CASE RejectOrder
        BY <3>3 DEF RejectOrder, Idle
      <3>4. ASSUME Next, ~RejectOrder, ~(\E o \in OrderMessages : ReceiveOrder(o))
            PROVE  UNCHANGED router
        BY <1>1, <1>4, <3>4 DEF Next, RouterStep, InstantAction, EngineStep,
           StartPause, StopPause, Retry, SkipRetry, FailInstant, AdvanceQueue,
           CompareStates, Elapse
      <3> QED
        BY <3>1, <3>2, <3>3, <3>4 DEF vars
    <2> QED
      BY <1>2, <2>1, <2>2, AsideSteps DEF AllTypes, Fresh
  <1> QED
    BY <1>3, <1>4

-----------------------------------------------------------------------------
(* The actions of the nodes reached.                                        *)

\* The action is of a node that was reached, and enqueued with its others.
Behind(a) ==
    \E n \in JourneyNodes :
       /\ a \in Elements(n.actions)
       /\ n.sequenceId <= state.lastNodeSequenceId
       /\ reached # {} => n.sequenceId < state.lastNodeSequenceId

\* What onTick has read are the actions of the last node,
ReachedNow ==
    \A actions \in reached : \E n \in JourneyNodes :
       n.actions = actions /\ n.sequenceId = state.lastNodeSequenceId

\* what is in the queue comes from before, once,
QueuedOnce ==
    /\ \A t \in DOMAIN queue : Behind(queue[t].action)
    /\ \A t, u \in DOMAIN queue : queue[t].action = queue[u].action => t = u

\* and what was told to have ended has.
ToldEnded ==
    \A a \in told :
       /\ Behind(a)
       /\ \A t \in live :
             queue[t].action = a => queue[t].status \in Engine!Terminal

Settled == ReachedNow /\ QueuedOnce /\ ToldEnded

LEMMA SettledStays ==
    ASSUME Engine!TypeOK, Settled,
           UNCHANGED <<state.lastNodeSequenceId, reached, told>>,
           UNCHANGED queueVars \/ Calm
    PROVE  Settled'
  <1>1. /\ DOMAIN queue' = DOMAIN queue /\ live' \subseteq live
        /\ live \subseteq DOMAIN queue
        /\ \A t \in DOMAIN queue : queue'[t].action = queue[t].action
        /\ \A t \in live' : queue[t].status \in Engine!Terminal
                               => queue'[t].status \in Engine!Terminal
    BY EntryOf DEF Calm, queueVars
  <1>2. \A a : Behind(a)' <=> Behind(a)
    BY DEF Behind
  <1>3. ReachedNow'
    BY DEF Settled, ReachedNow
  <1>4. QueuedOnce'
    BY <1>1, <1>2 DEF Settled, QueuedOnce
  <1>5. ToldEnded'
    BY <1>1, <1>2 DEF Settled, ToldEnded
  <1> QED
    BY <1>3, <1>4, <1>5 DEF Settled

LEMMA SettledArrives ==
    ASSUME OneJourney, OrderTyped, Open, Road, Settled, RecordArrival,
           UNCHANGED told
    PROVE  Settled'
  <1>1. PICK n \in JourneyNodes :
           /\ reached' = {n.actions}
           /\ state'.lastNodeSequenceId = n.sequenceId
           /\ state.lastNodeSequenceId < n.sequenceId
    BY RoadArrives
  <1>2. UNCHANGED <<queue, live>>
    BY DEF RecordArrival, queueVars
  <1>3. ASSUME NEW a, Behind(a) PROVE Behind(a)'
    <2>1. PICK m \in JourneyNodes :
             a \in Elements(m.actions) /\ m.sequenceId <= state.lastNodeSequenceId
      BY <1>3 DEF Behind
    <2>2. /\ m.sequenceId \in Int /\ n.sequenceId \in Int
          /\ state.lastNodeSequenceId \in Int
      BY JourneyTyped DEF OrderTyped, Typed
    <2>3. m.sequenceId < n.sequenceId
      BY <1>1, <2>1, <2>2
    <2> QED
      BY <1>1, <2>1, <2>2, <2>3 DEF Behind
  <1>4. ReachedNow'
    BY <1>1 DEF ReachedNow
  <1>5. QueuedOnce' /\ ToldEnded'
    BY <1>2, <1>3 DEF Settled, QueuedOnce, ToldEnded
  <1> QED
    BY <1>4, <1>5 DEF Settled

\* No action of the last node was enqueued before.
LEMMA NothingRepeats ==
    ASSUME OneJourney, reached # {}, NEW n \in JourneyNodes,
           n.sequenceId = state.lastNodeSequenceId,
           NEW a \in Elements(n.actions)
    PROVE  ~Behind(a)
  <1> SUFFICES ASSUME Behind(a) PROVE FALSE
    OBVIOUS
  <1>1. PICK m \in JourneyNodes :
           a \in Elements(m.actions) /\ m.sequenceId < state.lastNodeSequenceId
    BY DEF Behind
  <1>2. m.sequenceId = n.sequenceId
    BY <1>1 DEF OneJourney
  <1>3. n.sequenceId \in Int
    BY JourneyTyped
  <1> QED
    BY <1>1, <1>2, <1>3

\* What an append of actions to the queue yields.
Appends(actions) ==
    /\ DOMAIN queue = 1..Len(queue) /\ Len(queue) \in Nat
    /\ DOMAIN actions = 1..Len(actions) /\ Len(actions) \in Nat
    /\ DOMAIN queue' = 1..Len(queue) + Len(actions)
    /\ live' = live \union (Len(queue) + 1 .. Len(queue) + Len(actions))
    /\ \A t \in 1..Len(queue) : queue'[t] = queue[t]
    /\ \A i \in 1..Len(actions) : queue'[Len(queue) + i].action = actions[i]

LEMMA EnqueueAppends ==
    ASSUME Engine!TypeOK, NEW actions \in Seq(Action), Engine!Enqueue(actions)
    PROVE  Appends(actions)
  <1> DEFINE new == [i \in DOMAIN actions |-> Engine!Waiting(actions[i])]
  <1>1. queue \in Seq(Engine!QueuedAction)
    BY DEF Engine!TypeOK
  <1>2. queue' = queue \o new
        /\ live' = live \union (Len(queue) + 1 .. Len(queue) + Len(actions))
    BY DEF Engine!Enqueue
  <1>3. DOMAIN actions = 1..Len(actions) /\ Len(actions) \in Nat
    OBVIOUS
  <1>4. \A i \in 1..Len(actions) : actions[i] \in Action
    OBVIOUS
  <1>5. new \in Seq(Engine!QueuedAction) /\ Len(new) = Len(actions)
    BY <1>3, <1>4 DEF Engine!Waiting, Engine!QueuedAction, Engine!Status
  <1>6. \A i \in 1..Len(actions) : new[i].action = actions[i]
    BY <1>3 DEF Engine!Waiting
  <1> HIDE DEF new
  <1>7. /\ DOMAIN queue = 1..Len(queue) /\ Len(queue) \in Nat
        /\ DOMAIN queue' = 1..Len(queue) + Len(actions)
        /\ \A t \in 1..Len(queue) : queue'[t] = queue[t]
        /\ \A i \in 1..Len(actions) : queue'[Len(queue) + i] = new[i]
    <2>1. PICK old, all : old = queue /\ all = queue'
      OBVIOUS
    <2>2. old \in Seq(Engine!QueuedAction) /\ all = old \o new
      BY <1>1, <1>2, <2>1
    <2>3. /\ old \o new \in Seq(Engine!QueuedAction)
          /\ Len(old \o new) = Len(old) + Len(new)
          /\ \A t \in 1 .. Len(old) + Len(new) :
                (old \o new)[t] = IF t <= Len(old) THEN old[t]
                                  ELSE new[t - Len(old)]
      BY <1>5, <2>2, ConcatProperties
    <2>4. PICK n, m : n = Len(old) /\ m = Len(new)
      OBVIOUS
    <2>5. /\ n \in Nat /\ m \in Nat /\ all \in Seq(Engine!QueuedAction)
          /\ Len(all) = n + m
          /\ \A t \in 1..n + m : all[t] = IF t <= n THEN old[t] ELSE new[t - n]
      BY <1>3, <1>5, <2>2, <2>3, <2>4
    <2>6. ASSUME NEW t \in 1..n PROVE all[t] = old[t]
      <3>1. t \in 1..n + m /\ t <= n
        BY <2>5
      <3> QED
        BY <2>5, <3>1
    <2>7. ASSUME NEW i \in 1..m PROVE all[n + i] = new[i]
      <3>1. n + i \in 1..n + m /\ ~(n + i <= n) /\ (n + i) - n = i
        BY <2>5
      <3> QED
        BY <2>5, <3>1
    <2>8. DOMAIN old = 1..n /\ DOMAIN all = 1..n + m
      BY <2>2, <2>4, <2>5
    <2> QED
      BY <1>5, <2>1, <2>4, <2>5, <2>6, <2>7, <2>8
  <1> QED
    BY <1>2, <1>3, <1>6, <1>7 DEF Appends

LEMMA SettledEnqueues ==
    ASSUME OneJourney, AllTypes, Settled, EnqueueActions, UNCHANGED told
    PROVE  Settled'
  <1>1. PICK actions \in reached : Engine!Enqueue(actions)
    BY DEF EnqueueActions
  <1>2. reached' = {} /\ UNCHANGED state
    BY DEF EnqueueActions
  <1>3. Appends(actions)
    BY <1>1, EnqueueAppends DEF AllTypes, ReachedTyped
  <1>4. PICK n \in JourneyNodes :
           n.actions = actions /\ n.sequenceId = state.lastNodeSequenceId
    BY DEF Settled, ReachedNow
  <1>5. PICK l, m : l = Len(queue) /\ m = Len(actions)
    OBVIOUS
  <1>6. /\ l \in Nat /\ m \in Nat
        /\ DOMAIN queue = 1..l /\ DOMAIN actions = 1..m
        /\ DOMAIN queue' = 1..l + m
        /\ live' = live \union (l + 1 .. l + m)
        /\ \A t \in 1..l : queue'[t] = queue[t]
        /\ \A i \in 1..m : queue'[l + i].action = actions[i]
    BY <1>3, <1>5, Zenon DEF Appends
  \* A ticket is an old one, or that of one of the actions.
  <1>7. ASSUME NEW t \in 1..l + m, t \notin 1..l
        PROVE  \E i \in 1..m : t = l + i /\ queue'[t].action = actions[i]
    <2>1. t - l \in 1..m /\ t = l + (t - l)
      BY <1>6, <1>7
    <2> QED
      BY <1>6, <2>1
  <1>8. ASSUME NEW a, Behind(a) PROVE Behind(a)'
    BY <1>2, <1>8 DEF Behind
  <1>9. ASSUME NEW i \in 1..m PROVE Behind(actions[i])' /\ ~Behind(actions[i])
    <2>1. actions[i] \in Elements(n.actions)
      BY <1>4, <1>6 DEF Elements
    <2>2. ~Behind(actions[i])
      BY <1>1, <1>4, <2>1, NothingRepeats
    <2>3. n.sequenceId \in Int
      BY JourneyTyped
    <2> QED
      BY <1>2, <1>4, <2>1, <2>2, <2>3 DEF Behind
  <1>10. ASSUME NEW i \in 1..m, NEW j \in 1..m, actions[i] = actions[j]
         PROVE  i = j
    BY <1>4, <1>6, <1>10 DEF OneJourney
  <1>11. QueuedOnce'
    <2>1. ASSUME NEW t \in 1..l + m PROVE Behind(queue[t].action)'
      <3>1. CASE t \in 1..l
        <4>1. PICK a : a = queue[t].action /\ a = queue'[t].action
          BY <1>6, <3>1
        <4>2. Behind(a)
          BY <1>6, <3>1, <4>1 DEF Settled, QueuedOnce
        <4>3. Behind(a)'
          BY <1>8, <4>2
        <4> QED
          BY <4>1, <4>3
      <3>2. CASE t \notin 1..l
        <4>1. PICK i \in 1..m : queue'[t].action = actions[i]
          BY <1>7, <3>2
        <4> QED
          BY <1>9, <4>1
      <3> QED
        BY <3>1, <3>2
    <2>2. ASSUME NEW t \in 1..l, NEW i \in 1..m
          PROVE  queue'[t].action # actions[i]
      <3>1. Behind(queue[t].action)
        BY <1>6 DEF Settled, QueuedOnce
      <3> QED
        BY <1>6, <1>9, <3>1
    <2>3. ASSUME NEW t \in 1..l + m, NEW u \in 1..l + m,
                 queue'[t].action = queue'[u].action
          PROVE  t = u
      <3>1. CASE t \in 1..l /\ u \in 1..l
        BY <1>6, <2>3, <3>1 DEF Settled, QueuedOnce
      <3>2. CASE t \in 1..l /\ u \notin 1..l
        BY <1>7, <2>2, <2>3, <3>2
      <3>3. CASE t \notin 1..l /\ u \in 1..l
        BY <1>7, <2>2, <2>3, <3>3
      <3>4. CASE t \notin 1..l /\ u \notin 1..l
        <4>1. PICK i \in 1..m : t = l + i /\ queue'[t].action = actions[i]
          BY <1>7, <3>4
        <4>2. PICK j \in 1..m : u = l + j /\ queue'[u].action = actions[j]
          BY <1>7, <3>4
        <4> QED
          BY <1>10, <2>3, <4>1, <4>2
      <3> QED
        BY <3>1, <3>2, <3>3, <3>4
    <2> QED
      BY <1>6, <2>1, <2>3 DEF QueuedOnce
  <1>12. ToldEnded'
    <2> SUFFICES ASSUME NEW a \in told
                 PROVE  /\ Behind(a)'
                        /\ \A t \in live' : queue'[t].action = a
                              => queue'[t].status \in Engine!Terminal
      BY DEF ToldEnded
    <2>1. Behind(a) /\ Behind(a)'
      BY <1>8 DEF Settled, ToldEnded
    <2>2. ASSUME NEW t \in live', queue'[t].action = a
          PROVE  queue'[t].status \in Engine!Terminal
      <3>1. live \subseteq 1..l
        BY <1>6 DEF AllTypes, Engine!TypeOK, Engine!Ticket
      <3>2. CASE t \in live
        BY <1>6, <2>2, <3>1, <3>2 DEF Settled, ToldEnded
      <3>3. CASE t \notin live
        <4>1. t \in 1..l + m /\ t \notin 1..l
          BY <1>6, <3>3
        <4> QED
          BY <1>7, <1>9, <2>1, <2>2, <4>1
      <3> QED
        BY <3>2, <3>3
    <2> QED
      BY <2>1, <2>2
  <1>13. ReachedNow'
    BY <1>2 DEF ReachedNow
  <1> QED
    BY <1>11, <1>12, <1>13 DEF Settled

LEMMA SettledStep ==
    ASSUME OneJourney, AllTypes, Open, Road, Settled, [Next]_vars, ~CancelOrder,
           UNCHANGED told
    PROVE  Settled'
  <1>1. CASE RecordArrival
    BY <1>1, SettledArrives DEF AllTypes
  <1>2. CASE EnqueueActions
    BY <1>2, SettledEnqueues
  <1>3. CASE ~RecordArrival /\ ~EnqueueActions
    <2>1. UNCHANGED <<state.lastNodeSequenceId, reached>>
      BY <1>3, LastStays
    <2>2. UNCHANGED queueVars \/ Calm
      BY <1>3, QueueSteps DEF AllTypes, vars
    <2> QED
      BY <2>1, <2>2, SettledStays DEF AllTypes
  <1> QED
    BY <1>1, <1>2, <1>3

-----------------------------------------------------------------------------
(* The report.                                                              *)

\* ActionStates has entries for what is in the slice, and no others: each of
\* its places is the number of the entries in front of somebody.
LEMMA PlaceTaken ==
    ASSUME NEW L, NEW n \in Nat, L \subseteq 1..n, NEW p \in 1..Cardinality(L)
    PROVE  \E t \in L : Cardinality({u \in L : u < t}) = p - 1
  <1> DEFINE Before(t) == {u \in L : u < t}
             c == Cardinality(L)
             place == [t \in L |-> Cardinality(Before(t)) + 1]
  <1>1. IsFiniteSet(L) /\ c \in Nat
    BY FiniteInterval, FS_Subset, FS_CardinalityType
  <1>2. ASSUME NEW t \in L
        PROVE  /\ IsFiniteSet(Before(t)) /\ Cardinality(Before(t)) \in Nat
               /\ Cardinality(Before(t)) < c
    <2>1. Before(t) \in SUBSET L /\ t \notin Before(t)
      BY DEF Before
    <2>2. IsFiniteSet(Before(t)) /\ Cardinality(Before(t)) <= c /\ Cardinality(Before(t)) # c
      BY <1>1, <2>1, FS_Subset
    <2>3. Cardinality(Before(t)) \in Nat
      BY <2>2, FS_CardinalityType
    <2> QED
      BY <1>1, <2>2, <2>3
  <1>3. ASSUME NEW t \in L, NEW u \in L, t < u
        PROVE  Cardinality(Before(t)) # Cardinality(Before(u))
    <2>1. t \in Int /\ u \in Int
      OBVIOUS
    <2>2. t \in Before(u) /\ t \notin Before(t)
      BY <1>3, <2>1
    <2>3. ASSUME NEW v \in Before(t) PROVE v \in Before(u)
      <3>1. v \in L /\ v \in Int /\ v < t
        OBVIOUS
      <3>2. v < u
        BY <1>3, <2>1, <3>1
      <3> QED
        BY <3>1, <3>2
    <2>4. Before(t) \in SUBSET Before(u)
      BY <2>3, Zenon
    <2> QED
      BY <1>2, <2>2, <2>4, FS_Subset
  <1>4. place \in [L -> 1..c]
    BY <1>1, <1>2
  <1>5. ASSUME NEW t \in L, NEW u \in L, place[t] = place[u] PROVE t = u
    <2>1. Cardinality(Before(t)) = Cardinality(Before(u))
      BY <1>2, <1>5
    <2>2. t \in Int /\ u \in Int
      OBVIOUS
    <2> QED
      BY <1>3, <2>1, <2>2
  <1>6. IsFiniteSet(1..c) /\ Cardinality(1..c) = c
    BY <1>1, FiniteInterval
  <1>7. place \in Surjection(L, 1..c)
    <2> HIDE DEF place
    <2>1. place \in Injection(L, 1..c)
      BY <1>4, <1>5, Zenon DEF Injection, IsInjective
    <2> QED
      BY <1>6, <2>1, FS_Injection
  <1>8. PICK t \in L : place[t] = p
    <2> HIDE DEF place
    <2> QED
      BY <1>7 DEF Surjection
  <1>9. Cardinality(Before(t)) = p - 1
    BY <1>2, <1>8
  <1> QED
    BY <1>9

LEMMA EntryReported ==
    ASSUME Engine!TypeOK, NEW s \in Elements(Engine!ActionStates)
    PROVE  \E t \in live : s = [actionId |-> queue[t].action,
                                actionStatus |-> queue[t].status]
  <1> DEFINE Nth(i) == CHOOSE t \in live : Cardinality({u \in live : u < t}) = i - 1
  <1>0. \A S : Engine!Cardinality(S) = Cardinality(S)
    BY Zenon DEF Cardinality, Engine!Cardinality
  <1>1. PICK i \in 1..Cardinality(live) :
           s = [actionId |-> queue[Nth(i)].action,
                actionStatus |-> queue[Nth(i)].status]
    <2>1. DOMAIN Engine!ActionStates = 1..Cardinality(live)
      BY <1>0 DEF Engine!ActionStates, Engine!StatusOf
    <2>2. PICK i \in DOMAIN Engine!ActionStates : s = Engine!ActionStates[i]
      BY Zenon DEF Elements
    <2>3. \A j \in 1..Cardinality(live) :
             Engine!ActionStates[j] = [actionId |-> queue[Nth(j)].action,
                                       actionStatus |-> queue[Nth(j)].status]
      BY <1>0 DEF Engine!ActionStates, Engine!StatusOf
    <2> HIDE DEF Nth
    <2> QED
      BY <2>1, <2>2, <2>3, Zenon
  <1>2. live \subseteq 1..Len(queue) /\ Len(queue) \in Nat
    BY DEF Engine!TypeOK, Engine!Ticket
  <1>3. Nth(i) \in live
    <2>1. \E t \in live : Cardinality({u \in live : u < t}) = i - 1
      BY <1>2, PlaceTaken
    <2> QED
      BY <2>1, Zenon
  <1> HIDE DEF Nth
  <1> QED
    BY <1>1, <1>3

\* The entry of an action that is still ahead of the robot.
IsAnnounced(s) ==
    \E x \in JourneyNodes \union JourneyEdges : \E a \in Elements(x.actions) :
       /\ s = [actionId |-> a, actionStatus |-> "WAITING"]
       /\ x.sequenceId > state.lastNodeSequenceId

\* While buildState holds robot.mu, nothing that it announced is reached.
Drafted ==
    publisher \in {"driving", "actions"} =>
       \A s \in draft.actionStates : IsAnnounced(s)

\* What ReportsAreConsistent says of a report.
Consistent ==
    \A s \in report.actionStates :
       /\ \A r \in report.actionStates : r.actionId = s.actionId => r = s
       /\ s.actionId \in told => s.actionStatus \in Engine!Terminal

\* What was reached is not announced any more.
LEMMA AheadNotBehind ==
    ASSUME OneJourney, OrderTyped, NEW s, IsAnnounced(s)
    PROVE  ~Behind(s.actionId) /\ s.actionStatus \notin Engine!Terminal
  <1>1. PICK x \in JourneyNodes \union JourneyEdges :
           \E a \in Elements(x.actions) :
              /\ s = [actionId |-> a, actionStatus |-> "WAITING"]
              /\ x.sequenceId > state.lastNodeSequenceId
    BY Zenon DEF IsAnnounced
  <1>2. /\ s.actionId \in Elements(x.actions) /\ s.actionStatus = "WAITING"
        /\ x.sequenceId > state.lastNodeSequenceId
    BY <1>1
  <1>3. ASSUME NEW n \in JourneyNodes, s.actionId \in Elements(n.actions),
               n.sequenceId <= state.lastNodeSequenceId
        PROVE  FALSE
    <2>1. x.sequenceId = n.sequenceId
      BY <1>2, <1>3 DEF OneJourney
    <2>2. n.sequenceId \in Int /\ state.lastNodeSequenceId \in Int
      BY JourneyTyped DEF OrderTyped, Typed
    <2> QED
      BY <1>2, <1>3, <2>1, <2>2
  <1> QED
    BY <1>2, <1>3 DEF Behind, Engine!Terminal

LEMMA AnnouncesAhead ==
    ASSUME OneJourney, OrderTyped, Open, Road, NEW s \in Announced
    PROVE  IsAnnounced(s)
  <1>1. /\ Elements(state.nodes) \subseteq JourneyNodes
        /\ Elements(state.edges) \subseteq JourneyEdges
    BY OpenChain DEF Road
  <1> QED
    BY <1>1 DEF Announced, Ahead, IsAnnounced

\* What a publication appends to the announced actions, and what it tells.
Now == Elements(Engine!ActionStates)

Ends == {s.actionId : s \in {x \in report.actionStates :
                               x.actionStatus \in Engine!Terminal}}

LEMMA PublishGathers ==
    ASSUME Publish, "actionStates" \in DOMAIN draft
    PROVE  /\ report'.actionStates = draft.actionStates \union Now
           /\ told' = told \union Ends'
           /\ draft'.actionStates = {} /\ "actionStates" \in DOMAIN draft'
           /\ publisher = "actions" /\ publisher' = "ticking" /\ UNCHANGED vars
  <1>1. report' = [draft EXCEPT !.actionStates = @ \union Now]
    BY DEF Publish, Now
  <1>2. told' = told \union Ends'
    BY Zenon DEF Publish, Ends
  <1> QED
    BY <1>1, <1>2 DEF Publish, NoReport

\* The entry of an action that was reached.
IsQueued(s) ==
    \E t \in live : s.actionId = queue[t].action /\ s.actionStatus = queue[t].status
                      /\ s = [actionId |-> queue[t].action,
                              actionStatus |-> queue[t].status]

LEMMA QueuedBehind ==
    ASSUME Engine!TypeOK, Settled, NEW s, IsQueued(s)
    PROVE  /\ Behind(s.actionId)
           /\ \A r : IsQueued(r) /\ r.actionId = s.actionId => r = s
           /\ s.actionId \in told => s.actionStatus \in Engine!Terminal
           /\ s.actionStatus \in Engine!Terminal =>
                 \A t \in live : queue[t].action = s.actionId
                                    => queue[t].status \in Engine!Terminal
  <1>1. PICK t \in live :
           /\ s.actionId = queue[t].action /\ s.actionStatus = queue[t].status
           /\ s = [actionId |-> queue[t].action, actionStatus |-> queue[t].status]
    BY Zenon DEF IsQueued
  <1>2. live \subseteq DOMAIN queue
    BY EntryOf
  <1>3. \A u \in live : queue[u].action = s.actionId => u = t
    BY <1>1, <1>2 DEF Settled, QueuedOnce
  <1>4. Behind(s.actionId)
    BY <1>1, <1>2 DEF Settled, QueuedOnce
  <1>5. ASSUME NEW r, IsQueued(r), r.actionId = s.actionId PROVE r = s
    <2>1. PICK u \in live :
             /\ r.actionId = queue[u].action
             /\ r = [actionId |-> queue[u].action, actionStatus |-> queue[u].status]
      BY <1>5, Zenon DEF IsQueued
    <2>2. u = t
      BY <1>3, <1>5, <2>1, Zenon
    <2> QED
      BY <1>1, <2>1, <2>2, Zenon
  <1> QED
    BY <1>1, <1>3, <1>4, <1>5, Zenon DEF Settled, ToldEnded

\* The report gathered in three looks agrees with itself, and with all that
\* were published before.
LEMMA PublishesConsistently ==
    ASSUME OneJourney, AllTypes, Settled, Drafted, Publish,
           "actionStates" \in DOMAIN draft
    PROVE  Consistent' /\ Settled'
  <1>1. /\ report'.actionStates = draft.actionStates \union Now
        /\ told' = told \union Ends'
        /\ publisher = "actions" /\ UNCHANGED vars
    BY PublishGathers
  <1>2. Engine!TypeOK /\ OrderTyped
    BY DEF AllTypes
  <1>3. ASSUME NEW s \in report'.actionStates PROVE IsAnnounced(s) \/ IsQueued(s)
    <2>1. CASE s \in draft.actionStates
      BY <1>1, <2>1 DEF Drafted
    <2>2. CASE s \in Now
      <3>1. \E t \in live : s = [actionId |-> queue[t].action,
                                 actionStatus |-> queue[t].status]
        BY <1>2, <2>2, EntryReported DEF Now
      <3> QED
        BY <3>1 DEF IsQueued
    <2> QED
      BY <1>1, <2>1, <2>2
  <1>4. ASSUME NEW s, IsAnnounced(s)
        PROVE  /\ ~Behind(s.actionId) /\ s.actionStatus \notin Engine!Terminal
               /\ s.actionStatus = "WAITING"
               /\ \A r : IsAnnounced(r) /\ r.actionId = s.actionId => r = s
    <2>1. \A r : IsAnnounced(r) =>
             r = [actionId |-> r.actionId, actionStatus |-> "WAITING"]
      BY DEF IsAnnounced
    <2>2. ~Behind(s.actionId) /\ s.actionStatus \notin Engine!Terminal
      BY <1>2, <1>4, AheadNotBehind
    <2> QED
      BY <1>4, <2>1, <2>2
  <1>5. \A a \in told : Behind(a)
    BY DEF Settled, ToldEnded
  <1>6. ASSUME NEW s \in report'.actionStates, NEW r \in report'.actionStates,
               r.actionId = s.actionId
        PROVE  r = s
    BY <1>2, <1>3, <1>4, <1>6, QueuedBehind, Zenon
  <1>7. ASSUME NEW a \in Ends'
        PROVE  \E s \in report'.actionStates :
                  a = s.actionId /\ s.actionStatus \in Engine!Terminal
    BY <1>7 DEF Ends
  <1>8. ASSUME NEW s \in report'.actionStates, s.actionId \in told'
        PROVE  s.actionStatus \in Engine!Terminal
    <2>1. CASE s.actionId \in told
      BY <1>2, <1>3, <1>4, <1>5, <2>1, QueuedBehind, Zenon
    <2>2. CASE s.actionId \in Ends'
      BY <1>6, <1>7, <2>2
    <2> QED
      BY <1>1, <1>8, <2>1, <2>2
  <1>9. Consistent'
    BY <1>6, <1>8 DEF Consistent
  <1>10. /\ \A a : Behind(a)' <=> Behind(a)
         /\ UNCHANGED <<live, queue, reached, state>>
    BY <1>1 DEF Behind, vars, queueVars, runVars
  <1>11. ReachedNow' /\ QueuedOnce'
    BY <1>10 DEF Settled, ReachedNow, QueuedOnce
  <1>12. ASSUME NEW a \in told'
         PROVE  /\ Behind(a)
                /\ \A t \in live :
                      queue[t].action = a => queue[t].status \in Engine!Terminal
    <2>1. CASE a \in told
      BY <2>1 DEF Settled, ToldEnded
    <2>2. CASE a \in Ends'
      <3>1. PICK s \in report'.actionStates :
               a = s.actionId /\ s.actionStatus \in Engine!Terminal
        BY <1>7, <2>2
      <3>2. IsQueued(s)
        BY <1>3, <1>4, <3>1, Zenon
      <3> QED
        BY <1>2, <3>1, <3>2, QueuedBehind, Zenon
    <2> QED
      BY <1>1, <1>12, <2>1, <2>2
  <1>13. ToldEnded'
    BY <1>10, <1>12 DEF ToldEnded
  <1> QED
    BY <1>9, <1>11, <1>13 DEF Settled

-----------------------------------------------------------------------------

\* Nothing was announced, reported or told before the first order.
Silent == told = {} /\ draft.actionStates = {} /\ report.actionStates = {}

\* The inductive invariant, for as long as the order is not cancelled.
JourneyInv ==
    /\ AllTypes /\ "actionStates" \in DOMAIN draft
    /\ state.orderId = NoOrder => Fresh /\ Silent
    /\ Open => Road /\ Settled /\ Drafted /\ Consistent

LEMMA JourneyInit == RInit => JourneyInv
  <1> SUFFICES ASSUME RInit PROVE JourneyInv
    OBVIOUS
  <1>1. Init
    BY DEF RInit
  <1>2. AllTypes /\ Fresh
    BY <1>1, AllTypesInit, FreshInit
  <1>3. Silent /\ "actionStates" \in DOMAIN draft
    BY DEF RInit, NoReport, Silent
  <1>4. state.orderId = NoOrder
    BY <1>1 DEF Init, OS!Init, OS!NoState, OS!NoOrder, NoOrder
  <1> QED
    BY <1>2, <1>3, <1>4 DEF JourneyInv, Open

\* The first order that is accepted, and an update of it.
LEMMA JourneyAccepts ==
    ASSUME OneJourney, JourneyInv, AcceptsOrder, [Next]_vars,
           publisher \in {"ticking", "build"}, UNCHANGED repVars
    PROVE  Open' => Road' /\ Settled' /\ Drafted' /\ Consistent'
  <1>1. Drafted'
    BY DEF repVars, Drafted
  <1>2. CASE state.orderId = NoOrder
    <2>1. Fresh /\ Silent /\ AllTypes
      BY <1>2 DEF JourneyInv
    <2>2. Road' /\ UNCHANGED <<queue, live, reached>>
      BY <1>2, <2>1, FreshBegins
    <2>3. Settled'
      BY <2>1, <2>2 DEF Fresh, Silent, repVars, Settled, ReachedNow, QueuedOnce,
         ToldEnded
    <2>4. Consistent'
      BY <2>1 DEF Silent, repVars, Consistent
    <2> QED
      BY <1>1, <2>2, <2>3, <2>4
  <1>3. CASE Open /\ ~CancelOrder
    <2>1. Road' /\ Settled'
      BY <1>3, RoadStep, SettledStep DEF JourneyInv, repVars
    <2>2. Consistent'
      BY <1>3 DEF JourneyInv, repVars, Consistent
    <2> QED
      BY <1>1, <2>1, <2>2
  <1> QED
    BY <1>2, <1>3, CancelIsFinal DEF JourneyInv

\* A robot that has had an order has one.
LEMMA NeverForgets ==
    ASSUME OneJourney, AllTypes, [Next]_vars, state'.orderId = NoOrder
    PROVE  state.orderId = NoOrder
  <1>1. DOMAIN state = Fields
    BY ShapeOfTyped DEF AllTypes, OrderTyped
  <1>2. CASE AcceptsOrder
    <2>1. PICK o \in OrderMessages : o = router.order
      BY <1>2 DEF AcceptsOrder, AllTypes, RouterTyped
    <2>2. state' = Accepted(state, o)
      BY <1>2, <2>1 DEF AcceptsOrder, Rejected, AcceptOrder
    <2>3. o.orderId # NoOrder
      BY DEF OneJourney, WellFormed
    <2>4. CASE IsNew(state, o)
      <3>1. state'.orderId = o.orderId
        BY <1>1, <2>2, <2>4 DEF Accepted, Fields
      <3> QED
        BY <2>3, <3>1
    <2>5. CASE ~IsNew(state, o)
      BY <1>1, <2>2, <2>5 DEF Accepted, Fields
    <2> QED
      BY <2>4, <2>5
  <1>3. CASE CancelOrder
    BY <1>1, <1>3 DEF CancelOrder, Cancelled, Fields
  <1>4. CASE RecordArrival
    BY <1>1, <1>4 DEF RecordArrival, Arrived, Fields
  <1>5. CASE Aside
    BY <1>5, AsideSteps DEF AllTypes
  <1>6. CASE StartSimulator \/ ExtendSimulator \/ CancelExtends
              \/ RunLooks \/ ReadPaused \/ AskEngine \/ RunSteps \/ EnqueueActions
    BY <1>6 DEF StartSimulator, ExtendSimulator, CancelExtends, RunLooks,
       ReadPaused, AskEngine, RunSteps, EnqueueActions
  <1> QED
    BY <1>2, <1>3, <1>4, <1>5, <1>6 DEF Aside, RunStep

\* A step of the robot, with the publisher elsewhere or with robot.mu.
LEMMA JourneyRobot ==
    ASSUME OneJourney, JourneyInv, [Next]_vars, UNCHANGED repVars,
           publisher \in {"ticking", "build"} \/ UNCHANGED state
    PROVE  JourneyInv'
  <1>1. AllTypes /\ AllTypes'
    BY AllTypesStep DEF JourneyInv
  <1>2. "actionStates" \in DOMAIN draft'
    BY DEF JourneyInv, repVars
  <1>3. ASSUME state'.orderId = NoOrder PROVE Fresh' /\ Silent'
    <2>1. state.orderId = NoOrder
      BY <1>1, <1>3, NeverForgets, Zenon
    <2>2. Fresh /\ Silent
      BY <2>1 DEF JourneyInv
    <2>3. ~AcceptsOrder
      BY <1>1, <1>3, <2>1, <2>2, FreshBegins DEF Open
    <2> QED
      BY <1>1, <2>1, <2>2, <2>3, FreshStep DEF Silent, repVars
  <1>4. ASSUME Open' PROVE Road' /\ Settled' /\ Drafted' /\ Consistent'
    <2>1. CASE AcceptsOrder /\ publisher \in {"ticking", "build"}
      BY <1>4, <2>1, JourneyAccepts
    <2>2. CASE state.orderId = NoOrder /\ ~(AcceptsOrder /\ publisher \in {"ticking", "build"})
      <3>1. Fresh
        BY <2>2 DEF JourneyInv
      <3>2. CASE AcceptsOrder
        BY <1>4, <2>2, <3>2 DEF Open
      <3>3. CASE ~AcceptsOrder
        <4>1. state'.orderId = NoOrder
          BY <1>1, <2>2, <3>1, <3>3, FreshStep
        <4> QED
          BY <1>4, <4>1 DEF Open
      <3> QED
        BY <3>2, <3>3
    <2>3. CASE Open /\ ~CancelOrder
      <3>1. Road /\ Settled /\ Drafted /\ Consistent
        BY <2>3 DEF JourneyInv
      <3>2. Road' /\ Settled'
        BY <1>1, <2>3, <3>1, RoadStep, SettledStep DEF repVars
      <3>3. Consistent'
        BY <3>1 DEF repVars, Consistent
      <3>4. Drafted'
        <4>1. CASE publisher \in {"ticking", "build"}
          BY <4>1 DEF repVars, Drafted
        <4>2. CASE UNCHANGED state
          BY <3>1, <4>2 DEF repVars, Drafted, IsAnnounced
        <4> QED
          BY <4>1, <4>2
      <3> QED
        BY <3>2, <3>3, <3>4
    <2> QED
      BY <1>1, <1>4, <2>1, <2>2, <2>3, CancelIsFinal
  <1> QED
    BY <1>1, <1>2, <1>3, <1>4 DEF JourneyInv

\* A step of the publisher leaves the robot as it is, but for the flag.
LEMMA RobotRests ==
    ASSUME AllTypes, dirty' \in BOOLEAN,
           UNCHANGED <<state, queueVars, simVars, runVars, router, engineVars>>
    PROVE  /\ AllTypes' /\ UNCHANGED state
           /\ Fresh => Fresh'
           /\ Road => Road'
           /\ Settled /\ UNCHANGED told => Settled'
  <1>1. UNCHANGED <<state, queue, live, pc, simNodes, simEdges, edgeIdx, position,
                    pausedSeen, reached, router, enginePc, last>>
    BY DEF queueVars, simVars, runVars, engineVars
  <1>2. OrderTyped' /\ RouterTyped' /\ FlagsTyped' /\ ReachedTyped'
    BY <1>1 DEF AllTypes, OrderTyped, RouterTyped, FlagsTyped, ReachedTyped
  <1>3. Engine!TypeOK'
    BY <1>1 DEF AllTypes, Engine!TypeOK, Engine!Ticket
  <1>4. ChainHeld => ChainHeld'
    BY <1>1 DEF ChainHeld
  <1>5. Fresh => Fresh'
    BY <1>1, <1>4 DEF Fresh
  <1>6. Road => Road'
    BY <1>1, <1>4, RoadStutter DEF Road, RoadView
  <1>7. Settled /\ UNCHANGED told => Settled'
    BY <1>1, SettledStays DEF AllTypes, queueVars
  <1> QED
    BY <1>1, <1>2, <1>3, <1>5, <1>6, <1>7 DEF AllTypes

LEMMA JourneyDue ==
    ASSUME JourneyInv, Due PROVE JourneyInv'
  <1>1. /\ UNCHANGED <<state, queueVars, simVars, runVars, router, engineVars>>
        /\ dirty' \in BOOLEAN /\ publisher' = "build"
        /\ UNCHANGED <<draft, report, told>>
    BY DEF Due
  <1>2. /\ AllTypes' /\ UNCHANGED state
        /\ Fresh => Fresh'
        /\ Road => Road'
        /\ Settled => Settled'
    BY <1>1, RobotRests DEF JourneyInv
  <1>3. Drafted' /\ (Consistent => Consistent') /\ (Silent => Silent')
    BY <1>1 DEF Drafted, Consistent, Silent
  <1> QED
    BY <1>1, <1>2, <1>3 DEF JourneyInv, Open

LEMMA PublisherRests ==
    ASSUME AllTypes, UNCHANGED vars
    PROVE  /\ AllTypes' /\ UNCHANGED state
           /\ Fresh => Fresh'
           /\ Road => Road'
           /\ Settled /\ UNCHANGED told => Settled'
  <1>1. UNCHANGED <<state, queueVars, simVars, runVars, router, engineVars, dirty>>
    BY DEF vars
  <1>2. dirty' \in BOOLEAN
    BY <1>1 DEF AllTypes, FlagsTyped
  <1> QED
    BY <1>1, <1>2, RobotRests

\* The look at the order announces what lies ahead of the robot,
LEMMA JourneyBegins ==
    ASSUME OneJourney, JourneyInv, BeginState PROVE JourneyInv'
  <1>1. /\ UNCHANGED vars /\ UNCHANGED <<report, told>>
        /\ draft'.actionStates = Announced /\ "actionStates" \in DOMAIN draft'
    BY DEF BeginState
  <1>2. /\ AllTypes' /\ UNCHANGED state
        /\ Fresh => Fresh'
        /\ Road => Road'
        /\ Settled => Settled'
    BY <1>1, PublisherRests DEF JourneyInv
  <1>3. Consistent => Consistent'
    BY <1>1 DEF Consistent
  <1>4. ASSUME state.orderId = NoOrder PROVE Announced = {}
    <2>1. state.nodes = <<>> /\ state.edges = <<>>
      BY <1>4 DEF JourneyInv, Fresh, ChainHeld, HoldsChain
    <2> QED
      BY <2>1 DEF Announced, Ahead, Elements
  <1>5. ASSUME Open PROVE Drafted'
    <2>1. \A s \in Announced : IsAnnounced(s)
      BY <1>5, AnnouncesAhead DEF JourneyInv, AllTypes
    <2>2. \A s : IsAnnounced(s)' <=> IsAnnounced(s)
      BY <1>2 DEF IsAnnounced
    <2> QED
      BY <1>1, <2>1, <2>2 DEF Drafted
  <1> QED
    BY <1>1, <1>2, <1>3, <1>4, <1>5 DEF JourneyInv, Open, Silent

\* the look at the gate leaves it alone,
LEMMA JourneyAsks ==
    ASSUME JourneyInv, AskDriving PROVE JourneyInv'
  <1>1. /\ UNCHANGED vars /\ UNCHANGED <<report, told>>
        /\ draft'.actionStates = draft.actionStates
        /\ "actionStates" \in DOMAIN draft' /\ publisher = "driving"
    BY DEF AskDriving, JourneyInv
  <1>2. /\ AllTypes' /\ UNCHANGED state
        /\ Fresh => Fresh'
        /\ Road => Road'
        /\ Settled => Settled'
    BY <1>1, PublisherRests DEF JourneyInv
  <1>3. (Consistent => Consistent') /\ (Silent => Silent')
    BY <1>1 DEF Consistent, Silent
  <1>4. Drafted => Drafted'
    BY <1>1, <1>2 DEF Drafted, IsAnnounced
  <1> QED
    BY <1>1, <1>2, <1>3, <1>4 DEF JourneyInv, Open

\* and the look at the queue adds what was reached.
LEMMA JourneyPublishes ==
    ASSUME OneJourney, JourneyInv, Publish PROVE JourneyInv'
  <1>1. /\ UNCHANGED vars /\ publisher' = "ticking"
        /\ report'.actionStates = draft.actionStates \union Now
        /\ told' = told \union Ends'
        /\ draft'.actionStates = {} /\ "actionStates" \in DOMAIN draft'
    BY PublishGathers DEF JourneyInv
  <1>2. /\ AllTypes' /\ UNCHANGED state
        /\ Fresh => Fresh'
        /\ Road => Road'
    BY <1>1, PublisherRests DEF JourneyInv
  <1>3. ASSUME state.orderId = NoOrder PROVE Silent'
    <2>1. Now = {}
      <3>1. live = {} /\ Engine!TypeOK
        BY <1>3 DEF JourneyInv, Fresh, AllTypes
      <3> QED
        BY <3>1, EntryReported DEF Now
    <2>2. report'.actionStates = {}
      BY <1>1, <1>3, <2>1 DEF JourneyInv, Silent
    <2>3. Ends' = {}
      BY <2>2 DEF Ends
    <2> QED
      BY <1>1, <1>3, <2>2, <2>3 DEF JourneyInv, Silent
  <1>4. ASSUME Open PROVE Consistent' /\ Settled'
    BY <1>4, PublishesConsistently DEF JourneyInv
  <1>5. Drafted'
    BY <1>1 DEF Drafted
  <1> QED
    BY <1>1, <1>2, <1>3, <1>4, <1>5 DEF JourneyInv, Open

LEMMA JourneyStep ==
    ASSUME OneJourney PROVE JourneyInv /\ [RNext]_allVars => JourneyInv'
  <1> SUFFICES ASSUME JourneyInv, [RNext]_allVars PROVE JourneyInv'
    OBVIOUS
  <1>1. CASE publisher \in {"ticking", "build"} /\ Next /\ UNCHANGED repVars
    BY <1>1, JourneyRobot
  <1>2. CASE pc # "crashed" /\ WithoutRobotLock /\ UNCHANGED repVars
    <2>1. Next
      BY <1>2 DEF WithoutRobotLock, Next, RouterStep, RunStep
    <2>2. UNCHANGED state
      BY <1>2 DEF WithoutRobotLock, ExtendSimulator, SignalSimulator, RunLooks,
         AskEngine, RunSteps, EnqueueActions, EngineStep, AdvanceQueue,
         CompareStates, Elapse
    <2> QED
      BY <1>2, <2>1, <2>2, JourneyRobot
  <1>3. CASE UNCHANGED allVars
    <2>1. UNCHANGED vars /\ UNCHANGED repVars /\ UNCHANGED state
      BY <1>3 DEF allVars, vars
    <2> QED
      BY <2>1, JourneyRobot
  <1> QED
    BY <1>1, <1>2, <1>3, JourneyDue, JourneyBegins, JourneyAsks, JourneyPublishes
    DEF RNext

LEMMA JourneyCorrect == ASSUME OneJourney PROVE RSpec => []JourneyInv
  BY JourneyInit, JourneyStep, PTL DEF RSpec

\* On one journey, until a cancelOrder, every report gives each action one
\* status, although buildState gathers them in three looks while the robot
\* drives on, and never takes back that an action has ended.
THEOREM ReportsStayConsistent ==
    ASSUME OneJourney PROVE RSpec => []ReportsAreConsistent
  <1>1. JourneyInv => ReportsAreConsistent
    BY DEF JourneyInv, Silent, Open, Consistent, ReportsAreConsistent
  <1> QED
    BY <1>1, JourneyCorrect, PTL

-----------------------------------------------------------------------------
(* The same beside the publisher of what the engine and the gate promise.   *)

\* The robot takes a step, or the publisher, which leaves it alone.
LEMMA RobotOrPublisher ==
    ASSUME AllTypes, [RNext]_allVars
    PROVE  \/ [Next]_vars
           \/ /\ UNCHANGED <<state, queueVars, simVars, runVars, router, engineVars>>
              /\ dirty' \in BOOLEAN
  <1>1. CASE pc # "crashed" /\ WithoutRobotLock
    BY <1>1 DEF WithoutRobotLock, Next, RouterStep, RunStep
  <1>2. CASE Due
    BY <1>2 DEF Due
  <1>3. CASE BeginState \/ AskDriving \/ Publish
    BY <1>3 DEF BeginState, AskDriving, Publish
  <1>4. CASE UNCHANGED allVars
    BY <1>4 DEF allVars
  <1> QED
    BY <1>1, <1>2, <1>3, <1>4 DEF RNext

LEMMA ReportingTypesStep == AllTypes /\ [RNext]_allVars => AllTypes'
  BY RobotOrPublisher, AllTypesStep, RobotRests

LEMMA ReportingTypes == RSpec => []AllTypes
  <1>1. RInit => AllTypes
    BY AllTypesInit DEF RInit
  <1> QED
    BY <1>1, ReportingTypesStep, PTL DEF RSpec

\* Beside the publisher, too, no SOFT or HARD action is queued when the robot
\* moves.
THEOREM ReportingStepsOnlyWhenAllowed == RSpec => []StepsOnlyWhenAllowed
  <1>1. RInit => StepsOnlyWhenAllowed
    BY DEF RInit, Init, Sim!Init, StepsOnlyWhenAllowed
  <1>2. AllTypes /\ StepsOnlyWhenAllowed /\ [RNext]_allVars => StepsOnlyWhenAllowed'
    <2> SUFFICES ASSUME AllTypes, StepsOnlyWhenAllowed, [RNext]_allVars
                 PROVE  StepsOnlyWhenAllowed'
      OBVIOUS
    <2>1. CASE [Next]_vars
      BY <2>1, PermissionStep
    <2>2. CASE UNCHANGED <<state, queueVars, simVars, runVars, router, engineVars>>
      BY <2>2 DEF StepsOnlyWhenAllowed, queueVars, simVars, Engine!DrivingAllowed,
         Engine!StatusOf, Engine!Blocking
    <2> QED
      BY <2>1, <2>2, RobotOrPublisher
  <1> QED
    BY <1>1, <1>2, ReportingTypes, PTL DEF RSpec

\* And every step leaves the engine's queue alone or is one of the engine.
THEOREM ReportingUsesEngine == RSpec => Engine!Spec
  <1>1. RInit => Engine!Init /\ ReachedKnown
    BY DEF RInit, Init, ReachedKnown
  <1>2. AllTypes /\ ReachedKnown /\ [RNext]_allVars => ReachedKnown'
    <2> SUFFICES ASSUME AllTypes, ReachedKnown, [RNext]_allVars PROVE ReachedKnown'
      OBVIOUS
    <2>1. CASE UNCHANGED runVars
      BY <2>1 DEF runVars, ReachedKnown
    <2> QED
      BY <2>1, RobotOrPublisher, ReachedKnownStep DEF AllTypes
  <1>3. AllTypes /\ ReachedKnown /\ [RNext]_allVars => [Engine!Next]_(Engine!vars)
    <2> SUFFICES ASSUME AllTypes, ReachedKnown, [RNext]_allVars
                 PROVE  [Engine!Next]_queueVars
      BY DEF queueVars, Engine!vars
    <2> QED
      BY RobotOrPublisher, EngineSteps
  <1> QED
    BY <1>1, <1>2, <1>3, ReportingTypes, PTL DEF RSpec, Engine!Spec

-----------------------------------------------------------------------------
(* On one journey the robot stays on its base and goes forward.             *)

LEMMA OnBase ==
    ASSUME OneJourney, JourneyInv PROVE StaysOnBase /\ OS!DecisionEndsBase
  <1>1. CASE Open
    <2>1. PICK r \in DOMAIN state.nodes : \E k \in 1..r : AtBase(state, k, r)
      BY <1>1, OpenChain DEF JourneyInv, AllTypes, Road
    <2>2. Counts(state.nodes, state.edges) /\ ~state.cancelled
      BY <1>1, OpenChain DEF JourneyInv, AllTypes, Road, Open
    <2>3. /\ state.lastNodeSequenceId <= state.decisionSequenceId
          /\ \E n \in Elements(state.nodes) :
                 /\ n.nodeId = state.decisionNodeId
                 /\ n.sequenceId = state.decisionSequenceId
                 /\ \A m \in Elements(state.nodes) :
                       m.released <=> m.sequenceId <= n.sequenceId
      BY <2>1, <2>2, EndOfBase
    <2> QED
      BY <2>3, Zenon DEF StaysOnBase, OS!DecisionEndsBase, OS!Elements, Elements
  <1>2. CASE ~Open
    BY <1>2 DEF Open, StaysOnBase, OS!DecisionEndsBase, OS!NoOrder, NoOrder
  <1> QED
    BY <1>1, <1>2

\* On one journey the decision point is where the base of the held chain ends,
\* and the robot never records an arrival beyond it, although Run looks at the
\* released flag under the simulator's mutex and updates are stitched under
\* robot.mu.
THEOREM JourneyStaysOnBase ==
    ASSUME OneJourney PROVE RSpec => [](StaysOnBase /\ OS!DecisionEndsBase)
  <1>1. JourneyInv => StaysOnBase /\ OS!DecisionEndsBase
    BY OnBase
  <1> QED
    BY <1>1, JourneyCorrect, PTL

LEMMA ForwardStep ==
    ASSUME OneJourney, JourneyInv, [RNext]_allVars, Open, Open'
    PROVE  state.lastNodeSequenceId <= state'.lastNodeSequenceId
  <1>1. state.lastNodeSequenceId \in Int
    BY DEF JourneyInv, AllTypes, OrderTyped, Typed
  <1>2. CASE [Next]_vars
    <2>1. ~CancelOrder
      BY <1>2, CancelIsFinal DEF JourneyInv, Open
    <2>2. CASE RecordArrival
      <3>1. PICK n \in JourneyNodes :
               /\ state'.lastNodeSequenceId = n.sequenceId
               /\ state.lastNodeSequenceId < n.sequenceId
        BY <2>2, RoadArrives DEF JourneyInv, AllTypes
      <3>2. n.sequenceId \in Int
        BY JourneyTyped
      <3> QED
        BY <1>1, <3>1, <3>2
    <2>3. CASE EnqueueActions
      BY <1>1, <2>3 DEF EnqueueActions
    <2>4. CASE ~RecordArrival /\ ~EnqueueActions
      <3>1. state'.lastNodeSequenceId = state.lastNodeSequenceId
        BY <1>2, <2>1, <2>4, LastStays DEF JourneyInv
      <3> QED
        BY <1>1, <3>1
    <2> QED
      BY <2>2, <2>3, <2>4
  <1>3. CASE UNCHANGED state
    BY <1>1, <1>3
  <1> QED
    BY <1>2, <1>3, RobotOrPublisher DEF JourneyInv

\* On one journey lastNodeSequenceId never decreases until a cancelOrder, for
\* every number of updates that arrive while the robot drives.
THEOREM JourneyGoesForward ==
    ASSUME OneJourney PROVE RSpec => NeverTurnsBack
  <1>1. JourneyInv /\ [RNext]_allVars => [GoesForward]_allVars
    BY ForwardStep DEF GoesForward
  <1> QED
    BY <1>1, JourneyCorrect, PTL DEF RSpec, NeverTurnsBack

\* On one journey, until a cancelOrder, onTick gives the engine each action at
\* most once, although stitch repeats the nodes that the update overlaps.
THEOREM ActionsEnqueuedOnce ==
    ASSUME OneJourney PROVE RSpec => []ActsOnce
  <1>1. JourneyInv => ActsOnce
    BY DEF JourneyInv, Settled, QueuedOnce, ActsOnce
  <1> QED
    BY <1>1, JourneyCorrect, PTL

=============================================================================

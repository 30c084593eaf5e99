---------------------------- MODULE RobotProofs ----------------------------
(***************************************************************************)
(* Theorems about Robot, for every set of orders and actions, on any road; *)
(* those that assume a SingleTrip, for every trip that is one order.       *)
(***************************************************************************)
EXTENDS Robot, OrdersProofs

\* What the wake-ups depend on.
wakeVars == <<pc, simNodes, simEdges, edgeIdx, wake, router>>

LEMMA WakeupInit == Init => NoLostWakeup
  BY DEF Init, Sim!Init, NoLostWakeup

LEMMA WakeupStutter ==
    ASSUME NoLostWakeup, UNCHANGED wakeVars PROVE NoLostWakeup'
  BY DEF wakeVars, NoLostWakeup, Sim!CanDrive

LEMMA WakeupRouter ==
    ASSUME NoLostWakeup, RouterStep PROVE NoLostWakeup'
  <1>1. CASE RejectOrder
    BY <1>1 DEF RejectOrder, simVars, NoLostWakeup, Sim!CanDrive
  <1>2. CASE AcceptsOrder
    BY <1>2 DEF AcceptsOrder, Idle, NoLostWakeup
  <1>3. CASE StartSimulator
    BY <1>3 DEF StartSimulator, Sim!Create, NoLostWakeup
  <1>4. CASE ExtendSimulator
    BY <1>4 DEF ExtendSimulator, Idle, NoLostWakeup
  <1>5. CASE SignalSimulator
    BY <1>5 DEF SignalSimulator, Sim!SendWake, NoLostWakeup
  <1>6. CASE CancelExtends
    BY <1>6 DEF CancelExtends, Idle, NoLostWakeup
  <1>7. CASE CancelSignals
    BY <1>7 DEF CancelSignals, Sim!SendWake, NoLostWakeup
  <1> QED
    BY <1>1, <1>2, <1>3, <1>4, <1>5, <1>6, <1>7 DEF RouterStep

LEMMA WakeupInstant ==
    ASSUME NoLostWakeup, InstantAction PROVE NoLostWakeup'
  <1>1. CASE CancelOrder
    <2>1. CASE pc = "off"
      BY <1>1, <2>1 DEF CancelOrder, simVars, NoLostWakeup
    <2>2. CASE pc # "off"
      BY <1>1, <2>2 DEF CancelOrder, Idle, NoLostWakeup
    <2> QED
      BY <2>1, <2>2
  <1>2. CASE StartPause \/ StopPause
    BY <1>2, WakeupStutter DEF StartPause, StopPause, simVars, wakeVars
  <1>3. ASSUME NEW a \in Action, Retry(a) \/ SkipRetry(a) PROVE NoLostWakeup'
    BY <1>3, WakeupStutter DEF Retry, SkipRetry, simVars, wakeVars
  <1>4. ASSUME NEW type \in InstantTypes, FailInstant(type) PROVE NoLostWakeup'
    BY <1>4, WakeupStutter DEF FailInstant, simVars, wakeVars
  <1> QED
    BY <1>1, <1>2, <1>3, <1>4 DEF InstantAction

\* Run parks only when the edge it looked at, under the simulator's mutex, is
\* not there or not released.
LEMMA WakeupRun ==
    ASSUME NoLostWakeup, RunStep PROVE NoLostWakeup'
  <1>1. CASE RunLooks
    BY <1>1 DEF RunLooks, Sim!Check, Sim!ReceiveWake, NoLostWakeup, Sim!CanDrive
  <1>2. CASE ReadPaused \/ AskEngine
    BY <1>2 DEF ReadPaused, AskEngine, Sim!Tick, Sim!Gate, NoLostWakeup
  <1>3. CASE RunSteps
    BY <1>3 DEF RunSteps, Sim!Step, Sim!Arrive, Sim!Move, NoLostWakeup
  <1>4. CASE RecordArrival
    BY <1>4, WakeupStutter DEF RecordArrival, simVars, wakeVars
  <1>5. CASE EnqueueActions
    BY <1>5 DEF EnqueueActions, Sim!OnTick, NoLostWakeup
  <1> QED
    BY <1>1, <1>2, <1>3, <1>4, <1>5 DEF RunStep

LEMMA WakeupOthers ==
    ASSUME NoLostWakeup,
           EngineStep \/ (\E t \in live : Elapse(t)) \/ UNCHANGED vars
    PROVE  NoLostWakeup'
  BY WakeupStutter DEF EngineStep, AdvanceQueue, CompareStates, Elapse, vars,
     simVars, wakeVars

LEMMA WakeupStep == NoLostWakeup /\ [Next]_vars => NoLostWakeup'
  <1> SUFFICES ASSUME NoLostWakeup, [Next]_vars PROVE NoLostWakeup'
    OBVIOUS
  <1>1. ASSUME NEW o \in OrderMessages, ReceiveOrder(o) PROVE NoLostWakeup'
    BY <1>1 DEF ReceiveOrder, simVars, NoLostWakeup, Sim!CanDrive
  <1> QED
    BY <1>1, WakeupRouter, WakeupInstant, WakeupRun, WakeupOthers DEF Next

\* Whatever is accepted, updated or cancelled while Run parks, with the arrays
\* that stitch overwrites under its eyes, a released edge wakes it up.
THEOREM RobotLosesNoWakeup == Spec => []NoLostWakeup
  BY WakeupInit, WakeupStep, PTL DEF Spec

-----------------------------------------------------------------------------
(* Type correctness, one conjunct after the other.                         *)

OrderTyped == Typed(OrderMessages, state)

RouterTyped ==
    /\ router.at \in {"idle", "accept", "extend", "signal", "cancelExtend",
                      "cancelSignal"}
    /\ router.order \in OrderMessages \union {NoMessage}
    /\ router.at = "accept" => router.order \in OrderMessages

FlagsTyped ==
    /\ enginePc \in {"advance", "compare"}
    /\ pausedSeen \in BOOLEAN /\ dirty \in BOOLEAN

\* What onTick has read and not enqueued yet.
ReachedTyped ==
    /\ reached \subseteq Seq(Action)
    /\ reached # {} => pc = "arrived"

AllTypes == OrderTyped /\ RouterTyped /\ FlagsTyped /\ ReachedTyped /\ Engine!TypeOK

LEMMA OrderTypedStep ==
    ASSUME OrderTyped, RouterTyped, [Next]_vars PROVE OrderTyped'
  <1>1. CASE UNCHANGED state
    BY <1>1, Zenon DEF OrderTyped
  <1>2. CASE AcceptsOrder
    <2>1. state' = Accepted(state, router.order) /\ router.order \in OrderMessages
      BY <1>2 DEF AcceptsOrder, Rejected, AcceptOrder, RouterTyped
    <2> QED
      BY <2>1, AcceptedTyped, RobotAssumption DEF OrderTyped, RobotAssumption
  <1>3. CASE CancelOrder
    BY <1>3, CancelledTyped DEF CancelOrder, OrderTyped
  <1>4. CASE StartPause \/ StopPause
    BY <1>4, PausedTyped DEF StartPause, StopPause, OrderTyped
  <1>5. CASE RecordArrival
    BY <1>5, ArrivedTyped, RobotAssumption
       DEF RecordArrival, OrderTyped, RobotAssumption
  <1>6. ASSUME Next, ~AcceptsOrder, ~CancelOrder, ~StartPause, ~StopPause,
               ~RecordArrival
        PROVE  UNCHANGED state
    BY <1>6 DEF Next, RouterStep, InstantAction, RunStep, EngineStep,
       ReceiveOrder, RejectOrder, StartSimulator, ExtendSimulator,
       SignalSimulator, CancelExtends, CancelSignals, Retry, SkipRetry,
       FailInstant, RunLooks, ReadPaused, AskEngine, RunSteps, EnqueueActions,
       AdvanceQueue, CompareStates, Elapse
  <1> QED
    BY <1>1, <1>2, <1>3, <1>4, <1>5, <1>6 DEF vars

LEMMA RouterTypedStep ==
    ASSUME RouterTyped, [Next]_vars PROVE RouterTyped'
  <1>1. CASE UNCHANGED router
    BY <1>1 DEF RouterTyped
  <1>2. ASSUME NEW o \in OrderMessages, ReceiveOrder(o) PROVE RouterTyped'
    BY <1>2 DEF ReceiveOrder, RouterTyped
  <1>3. CASE RouterStep
    BY <1>3 DEF RouterStep, RejectOrder, AcceptsOrder, StartSimulator,
       ExtendSimulator, SignalSimulator, CancelExtends, CancelSignals, Idle,
       RouterTyped
  <1>4. CASE CancelOrder
    BY <1>4 DEF CancelOrder, Idle, RouterTyped
  <1>5. ASSUME Next, ~RouterStep, ~CancelOrder,
               ~(\E o \in OrderMessages : ReceiveOrder(o))
        PROVE  UNCHANGED router
    BY <1>5 DEF Next, InstantAction, RunStep, EngineStep, StartPause, StopPause,
       Retry, SkipRetry, FailInstant, RunLooks, ReadPaused, AskEngine, RunSteps,
       RecordArrival, EnqueueActions, AdvanceQueue, CompareStates, Elapse
  <1> QED
    BY <1>1, <1>2, <1>3, <1>4, <1>5 DEF vars

LEMMA DirtyTyped ==
    ASSUME FlagsTyped, [Next]_vars PROVE dirty' \in BOOLEAN
  <1>1. dirty' = dirty \/ dirty' = TRUE \/ dirty' = (dirty \/ pc = "off")
           \/ dirty' = (dirty \/ last' # last)
    BY DEF Next, RouterStep, InstantAction, RunStep, EngineStep,
       ReceiveOrder, RejectOrder, AcceptsOrder, StartSimulator, ExtendSimulator,
       SignalSimulator, CancelExtends, CancelSignals, CancelOrder, StartPause,
       StopPause, Retry, SkipRetry, FailInstant, RunLooks, ReadPaused, AskEngine,
       RunSteps, RecordArrival, EnqueueActions, AdvanceQueue, CompareStates,
       Elapse, vars
  <1> QED
    BY <1>1, Zenon DEF FlagsTyped

LEMMA FlagsTypedStep ==
    ASSUME FlagsTyped, OrderTyped, [Next]_vars PROVE FlagsTyped'
  <1>1. pausedSeen' \in {pausedSeen, state.paused, FALSE}
    BY DEF Next, RouterStep, InstantAction, RunStep, EngineStep,
       ReceiveOrder, RejectOrder, AcceptsOrder, StartSimulator, ExtendSimulator,
       SignalSimulator, CancelExtends, CancelSignals, CancelOrder, StartPause,
       StopPause, Retry, SkipRetry, FailInstant, RunLooks, ReadPaused, AskEngine,
       RunSteps, RecordArrival, EnqueueActions, AdvanceQueue, CompareStates,
       Elapse, vars, runVars
  <1>2. pausedSeen' \in BOOLEAN
    BY <1>1, Zenon DEF FlagsTyped, OrderTyped, Typed
  <1>3. enginePc' \in {enginePc, "advance", "compare"}
    BY DEF Next, RouterStep, InstantAction, RunStep, EngineStep,
       ReceiveOrder, RejectOrder, AcceptsOrder, StartSimulator, ExtendSimulator,
       SignalSimulator, CancelExtends, CancelSignals, CancelOrder, StartPause,
       StopPause, Retry, SkipRetry, FailInstant, RunLooks, ReadPaused, AskEngine,
       RunSteps, RecordArrival, EnqueueActions, AdvanceQueue, CompareStates,
       Elapse, vars, engineVars
  <1>4. enginePc' \in {"advance", "compare"}
    BY <1>3 DEF FlagsTyped
  <1> QED
    BY <1>2, <1>4, DirtyTyped, Zenon DEF FlagsTyped

LEMMA ReachedTypedStep ==
    ASSUME ReachedTyped, OrderTyped, [Next]_vars PROVE ReachedTyped'
  <1>1. CASE RecordArrival
    <2>1. ActionsForNode(state, position) \in Seq(Action)
      <3>1. CASE ActionsForNode(state, position) = <<>>
        BY <3>1
      <3>2. ASSUME NEW n \in AllNodes(OrderMessages)
            PROVE  n.actions \in Seq(Action)
        BY RobotAssumption DEF RobotAssumption, NodeActions, AllNodes
      <3> QED
        BY <3>1, <3>2, ActionsOfNode DEF OrderTyped
    <2> QED
      BY <1>1, <2>1 DEF RecordArrival, simVars, ReachedTyped
  <1>2. CASE EnqueueActions
    BY <1>2 DEF EnqueueActions, ReachedTyped
  <1>3. CASE UNCHANGED <<reached, pc>>
    BY <1>3 DEF ReachedTyped
  <1>4. CASE StartSimulator
    BY <1>4 DEF StartSimulator, Sim!Create, runVars, ReachedTyped
  <1>5. CASE RunLooks
    BY <1>5 DEF RunLooks, Sim!Check, Sim!ReceiveWake, runVars, ReachedTyped
  <1>6. CASE ReadPaused \/ AskEngine
    BY <1>6 DEF ReadPaused, AskEngine, Sim!Tick, Sim!Gate, ReachedTyped
  <1>7. CASE RunSteps
    BY <1>7 DEF RunSteps, Sim!Step, runVars, ReachedTyped
  <1>8. ASSUME Next, ~RecordArrival, ~EnqueueActions, ~StartSimulator,
               ~RunLooks, ~ReadPaused, ~AskEngine, ~RunSteps
        PROVE  UNCHANGED <<reached, pc>>
    BY <1>8 DEF Next, RouterStep, InstantAction, RunStep, EngineStep,
       ReceiveOrder, RejectOrder, AcceptsOrder, ExtendSimulator,
       SignalSimulator, CancelExtends, CancelSignals, CancelOrder, StartPause,
       StopPause, Retry, SkipRetry, FailInstant, AdvanceQueue, CompareStates,
       Elapse, simVars, runVars, Sim!SetChain, Sim!SendWake
  <1> QED
    BY <1>1, <1>2, <1>3, <1>4, <1>5, <1>6, <1>7, <1>8 DEF vars, simVars, runVars

-----------------------------------------------------------------------------
(* The queue.                                                              *)

\* What every step on the queue but an append does: entries stay where they
\* are, and what has ended stays so until it is dropped.
Calm ==
    /\ queue' \in [DOMAIN queue -> Engine!QueuedAction]
    /\ live' \subseteq live
    /\ \A t \in DOMAIN queue : queue'[t].action = queue[t].action
    /\ \A t \in live' : queue[t].status \in Engine!Terminal
                           => queue'[t].status \in Engine!Terminal

LEMMA CalmTyped == ASSUME Engine!TypeOK, Calm PROVE Engine!TypeOK'
  <1>1. queue \in Seq(Engine!QueuedAction) /\ live \subseteq DOMAIN queue
    BY DEF Engine!TypeOK, Engine!Ticket
  <1>2. queue' \in Seq(Engine!QueuedAction) /\ DOMAIN queue' = DOMAIN queue
    BY <1>1 DEF Calm
  <1> QED
    BY <1>1, <1>2 DEF Calm, Engine!TypeOK, Engine!Ticket

LEMMA EntryOf ==
    ASSUME Engine!TypeOK
    PROVE  /\ queue \in [DOMAIN queue -> Engine!QueuedAction]
           /\ live \subseteq DOMAIN queue
  BY DEF Engine!TypeOK, Engine!Ticket

LEMMA CalmPass == ASSUME Engine!TypeOK, Engine!Advance PROVE Calm
  <1>1. PICK unlucky : Engine!AdvanceWith(unlucky)
    BY DEF Engine!Advance
  <1> DEFINE next(t) == IF t \in Engine!Kept /\ Engine!Reached(t, unlucky)
                        THEN Engine!Advanced(t, unlucky) ELSE queue[t]
  <1>2. queue' = [t \in DOMAIN queue |-> next(t)] /\ live' = Engine!Kept
    BY <1>1 DEF Engine!AdvanceWith, Engine!Ticket
  <1>3. ASSUME NEW t \in DOMAIN queue
        PROVE  next(t) \in Engine!QueuedAction /\ next(t).action = queue[t].action
    <2>1. queue[t] \in Engine!QueuedAction
      BY EntryOf
    <2>2. Engine!AfterRun(t, unlucky) \in Engine!Status
      BY <2>1 DEF Engine!AfterRun, Engine!StatusOf, Engine!Status, Engine!QueuedAction
    <2> QED
      BY <2>1, <2>2 DEF Engine!Advanced, Engine!QueuedAction, Engine!Status
  <1> HIDE DEF next
  <1> QED
    BY <1>2, <1>3, EntryOf DEF Calm, Engine!Kept, Engine!StatusOf

LEMMA CalmClock == ASSUME Engine!TypeOK, NEW t \in live, Engine!Elapse(t) PROVE Calm
  BY EntryOf DEF Engine!Elapse, Engine!QueuedAction, Calm

LEMMA CalmRetry == ASSUME Engine!TypeOK, NEW a, Engine!Retry(a) PROVE Calm
  <1>1. PICK t \in live :
           /\ queue[t].status = "RETRIABLE" /\ live' = live
           /\ queue' = [queue EXCEPT ![t].status = "RUNNING", ![t].elapsed = FALSE]
    BY DEF Engine!Retry, Engine!CanRetry, Engine!StatusOf
  <1> QED
    BY <1>1, EntryOf DEF Engine!QueuedAction, Engine!Status, Engine!Terminal, Calm

LEMMA CalmSkip == ASSUME Engine!TypeOK, NEW a, Engine!SkipRetry(a) PROVE Calm
  BY EntryOf DEF Engine!SkipRetry, Engine!QueuedAction, Engine!Status,
     Engine!Terminal, Calm

LEMMA CalmCancel == ASSUME Engine!TypeOK, Engine!CancelAll PROVE Calm
  BY EntryOf DEF Engine!CancelAll, Engine!Ticket, Engine!QueuedAction,
     Engine!Status, Engine!Terminal, Calm

\* Nothing but onTick touches the queue otherwise.
LEMMA QueueSteps ==
    ASSUME Engine!TypeOK, Next, ~EnqueueActions
    PROVE  UNCHANGED queueVars \/ Calm
  <1>1. CASE AdvanceQueue
    BY <1>1, CalmPass DEF AdvanceQueue
  <1>2. CASE CancelOrder
    BY <1>2, CalmCancel DEF CancelOrder
  <1>3. ASSUME NEW a \in Action, Retry(a) \/ SkipRetry(a) PROVE Calm
    BY <1>3, CalmRetry, CalmSkip DEF Retry, SkipRetry
  <1>4. ASSUME NEW t \in live, Elapse(t) PROVE Calm
    BY <1>4, CalmClock DEF Elapse
  <1>5. CASE RouterStep \/ RunStep \/ CompareStates \/ StartPause \/ StopPause
              \/ (\E type \in InstantTypes : FailInstant(type))
              \/ (\E o \in OrderMessages : ReceiveOrder(o))
    BY <1>5 DEF RouterStep, RunStep, ReceiveOrder, RejectOrder, AcceptsOrder,
       StartSimulator, ExtendSimulator, SignalSimulator, CancelExtends,
       CancelSignals, StartPause, StopPause, FailInstant, RunLooks, ReadPaused,
       AskEngine, RunSteps, RecordArrival, CompareStates
  <1> QED
    BY <1>1, <1>2, <1>3, <1>4, <1>5 DEF Next, InstantAction, EngineStep

LEMMA AppendTyped ==
    ASSUME Engine!TypeOK, NEW actions \in Seq(Action), Engine!Enqueue(actions)
    PROVE  Engine!TypeOK'
  <1> DEFINE fresh == [i \in DOMAIN actions |-> Engine!Waiting(actions[i])]
  <1>1. /\ DOMAIN actions = 1..Len(actions) /\ Len(actions) \in Nat
        /\ \A i \in 1..Len(actions) : actions[i] \in Action
    OBVIOUS
  <1>2. \A a \in Action : Engine!Waiting(a) \in Engine!QueuedAction
    BY DEF Engine!Waiting, Engine!QueuedAction, Engine!Status
  <1>3. fresh \in [1..Len(actions) -> Engine!QueuedAction]
    BY <1>1, <1>2
  <1>4. fresh \in Seq(Engine!QueuedAction) /\ Len(fresh) = Len(actions)
    BY <1>1, <1>3
  <1>5. queue \in Seq(Engine!QueuedAction) /\ queue' = queue \o fresh
    BY DEF Engine!TypeOK, Engine!Enqueue
  <1>6. live \subseteq 1..Len(queue)
        /\ live' = live \union (Len(queue) + 1 .. Len(queue) + Len(actions))
    BY <1>5 DEF Engine!TypeOK, Engine!Enqueue, Engine!Ticket
  <1> HIDE DEF fresh
  <1>7. /\ queue' \in Seq(Engine!QueuedAction)
        /\ Len(queue') = Len(queue) + Len(actions) /\ Len(queue) \in Nat
    <2>1. PICK old, new : old = queue /\ new = queue'
      OBVIOUS
    <2>2. old \in Seq(Engine!QueuedAction) /\ new = old \o fresh
      BY <1>5, <2>1
    <2>3. new \in Seq(Engine!QueuedAction) /\ Len(new) = Len(old) + Len(fresh)
      BY <1>4, <2>2, ConcatProperties
    <2> QED
      BY <1>4, <2>1, <2>2, <2>3
  <1>8. DOMAIN queue' = 1 .. Len(queue) + Len(actions)
    BY <1>7
  <1>9. live' \subseteq 1 .. Len(queue) + Len(actions)
    <2>1. PICK n, m : n = Len(queue) /\ m = Len(actions)
      OBVIOUS
    <2>2. n \in Nat /\ m \in Nat /\ live' \subseteq 1..n \union (n + 1 .. n + m)
      BY <1>1, <1>6, <1>7, <2>1
    <2> QED
      BY <2>1, <2>2
  <1> QED
    BY <1>7, <1>8, <1>9 DEF Engine!TypeOK, Engine!Ticket

LEMMA QueueTypedStep ==
    ASSUME Engine!TypeOK, ReachedTyped, [Next]_vars PROVE Engine!TypeOK'
  <1>1. CASE UNCHANGED queueVars
    BY <1>1 DEF queueVars, Engine!TypeOK, Engine!Ticket
  <1>2. CASE EnqueueActions
    BY <1>2, AppendTyped DEF EnqueueActions, ReachedTyped
  <1> QED
    BY <1>1, <1>2, QueueSteps, CalmTyped DEF vars

LEMMA AllTypesInit == Init => AllTypes
  <1> SUFFICES ASSUME Init PROVE AllTypes
    OBVIOUS
  <1>1. OrderTyped
    <2>1. state = NoState
      BY DEF Init, OS!Init, OS!NoState, OS!NoOrder, OS!NoNode, NoState, NoOrder, NoNode
    <2> QED
      BY <2>1, NoStateTyped DEF OrderTyped
  <1>2. RouterTyped /\ FlagsTyped /\ ReachedTyped
    BY DEF Init, Idle, RouterTyped, FlagsTyped, ReachedTyped
  <1>3. Engine!TypeOK
    BY DEF Init, Engine!Init, Engine!TypeOK, Engine!Ticket
  <1> QED
    BY <1>1, <1>2, <1>3 DEF AllTypes

LEMMA AllTypesStep == AllTypes /\ [Next]_vars => AllTypes'
  BY OrderTypedStep, RouterTypedStep, FlagsTypedStep, ReachedTypedStep,
     QueueTypedStep DEF AllTypes

LEMMA AllTypesCorrect == Spec => []AllTypes
  BY AllTypesInit, AllTypesStep, PTL DEF Spec

\* The order state, the queue and the locals of the goroutines keep their
\* shape, whatever the messages and whoever comes first.
THEOREM RobotTyped == Spec => []TypeOK
  <1>1. AllTypes => TypeOK
    <2> SUFFICES ASSUME AllTypes PROVE TypeOK
      OBVIOUS
    <2>1. Typed(OrderMessages, state)
      BY DEF AllTypes, OrderTyped
    <2>2. /\ Elements(state.nodes) \subseteq AllNodes(OrderMessages)
          /\ Elements(state.edges) \subseteq AllEdges(OrderMessages)
      BY <2>1, ShapeOfTyped
    <2>3. OS!TypeOK
      BY <2>1, <2>2, Zenon DEF OS!TypeOK, OS!Shape, OS!Fields, OS!NoOrder,
         OS!Elements, Typed, OrderShape, Fields, NoOrder, Elements, AllNodes,
         AllEdges
    <2> QED
      BY <2>3, Zenon DEF TypeOK, AllTypes, RouterTyped, FlagsTyped, ReachedTyped
  <1> QED
    BY <1>1, AllTypesCorrect, PTL

\* What holds between the question and the step, and is disturbed by nobody.
LEMMA CalmKeepsPermission ==
    ASSUME Engine!TypeOK, Engine!DrivingAllowed, Calm PROVE Engine!DrivingAllowed'
  BY EntryOf DEF Engine!DrivingAllowed, Calm, Engine!StatusOf, Engine!Blocking

LEMMA PermissionStep ==
    AllTypes /\ StepsOnlyWhenAllowed /\ [Next]_vars => StepsOnlyWhenAllowed'
  <1> SUFFICES ASSUME AllTypes, StepsOnlyWhenAllowed, [Next]_vars
               PROVE  StepsOnlyWhenAllowed'
    OBVIOUS
  <1>1. CASE EnqueueActions
    BY <1>1 DEF EnqueueActions, Sim!OnTick, StepsOnlyWhenAllowed
  <1>2. ASSUME ~EnqueueActions, pc = "stepping", pc' = "stepping"
        PROVE  StepsOnlyWhenAllowed'
    <2>1. Engine!DrivingAllowed
      BY <1>2 DEF StepsOnlyWhenAllowed
    <2>2. UNCHANGED queueVars => Engine!DrivingAllowed'
      BY <2>1 DEF queueVars, Engine!DrivingAllowed, Engine!StatusOf, Engine!Blocking
    <2>3. UNCHANGED queueVars \/ Calm
      BY <1>2, QueueSteps DEF AllTypes, vars
    <2> QED
      BY <2>1, <2>2, <2>3, CalmKeepsPermission DEF StepsOnlyWhenAllowed, AllTypes
  <1>3. ASSUME ~EnqueueActions, pc # "stepping", pc' = "stepping"
        PROVE  StepsOnlyWhenAllowed'
    <2>1. AskEngine
      BY <1>3 DEF Next, RouterStep, InstantAction, RunStep, EngineStep,
         ReceiveOrder, RejectOrder, AcceptsOrder, StartSimulator,
         ExtendSimulator, SignalSimulator, CancelExtends, CancelSignals,
         CancelOrder, StartPause, StopPause, Retry, SkipRetry, FailInstant,
         RunLooks, ReadPaused, RunSteps, RecordArrival, AdvanceQueue,
         CompareStates, Elapse, vars, simVars, Sim!Create, Sim!SetChain,
         Sim!SendWake, Sim!Check, Sim!ReceiveWake, Sim!Tick, Sim!Step,
         Sim!Arrive, Sim!Move
    <2>2. Engine!DrivingAllowed /\ UNCHANGED queueVars
      BY <1>3, <2>1 DEF AskEngine, Sim!Gate
    <2> QED
      BY <2>2 DEF StepsOnlyWhenAllowed, queueVars, Engine!DrivingAllowed,
         Engine!StatusOf, Engine!Blocking
  <1> QED
    BY <1>1, <1>2, <1>3 DEF StepsOnlyWhenAllowed

\* No SOFT or HARD action is in the queue when the robot moves, although the
\* gate lets the engine's mutex go before the step.
THEOREM RobotStepsOnlyWhenAllowed == Spec => []StepsOnlyWhenAllowed
  <1>1. Init => StepsOnlyWhenAllowed
    BY DEF Init, Sim!Init, StepsOnlyWhenAllowed
  <1> QED
    BY <1>1, PermissionStep, AllTypesCorrect, PTL DEF Spec

-----------------------------------------------------------------------------
(* Progress.                                                               *)

\* The node whose arrival was recorded last.
Recorded == IF pc = "arrived" /\ reached = {} THEN edgeIdx - 1 ELSE edgeIdx

\* No order came yet;
NotSent ==
    /\ pc = "off" /\ router.at \in {"idle", "accept"}
    /\ state.orderId = NoOrder

\* the order was accepted,
Holds(o) ==
    /\ state.orderId = o.orderId /\ state.orderUpdateId = o.orderUpdateId
    /\ ~state.cancelled
    /\ state.nodes = o.nodes /\ state.edges = o.edges

LastAt(o, i) ==
    /\ i \in DOMAIN o.nodes
    /\ state.lastNodeSequenceId = o.nodes[i].sequenceId
    /\ state.lastNodeId = o.nodes[i].nodeId

\* and the simulator is about to be created,
Sent(o) ==
    /\ Holds(o) /\ LastAt(o, 1)
    /\ pc = "off" /\ router.at = "extend"

\* or drives it.
Underway(o) ==
    /\ Holds(o) /\ LastAt(o, Recorded)
    /\ pc # "off" /\ router.at \in {"idle", "accept"}
    /\ simNodes = o.nodes /\ simEdges = o.edges
    /\ edgeIdx \in DOMAIN o.nodes
    /\ pc = "arrived" => position = o.nodes[edgeIdx].nodeId

Trip == NotSent \/ \E o \in OrderMessages : Sent(o) \/ Underway(o)

\* What a step leaves alone when neither the router nor Run takes it.
LEMMA QuietSteps ==
    ASSUME "cancelOrder" \notin InstantTypes, [Next]_vars,
           ~RouterStep, ~RunStep
    PROVE  /\ UNCHANGED <<simVars, reached>>
           /\ state' \in {state, Paused(state, TRUE), Paused(state, FALSE)}
           /\ \/ UNCHANGED router
              \/ router.at = "idle" /\ router'.at = "accept"
  <1>1. ~CancelOrder
    BY DEF CancelOrder, Report
  <1>2. UNCHANGED <<simVars, reached>>
    BY <1>1 DEF Next, InstantAction, EngineStep, ReceiveOrder, StartPause,
       StopPause, Retry, SkipRetry, FailInstant, AdvanceQueue, CompareStates,
       Elapse, vars, runVars
  <1>3. state' \in {state, Paused(state, TRUE), Paused(state, FALSE)}
    BY <1>1 DEF Next, InstantAction, EngineStep, ReceiveOrder, StartPause,
       StopPause, Retry, SkipRetry, FailInstant, AdvanceQueue, CompareStates,
       Elapse, vars
  <1>4. \/ UNCHANGED router
        \/ router.at = "idle" /\ router'.at = "accept"
    <2>1. ASSUME NEW o \in OrderMessages, ReceiveOrder(o)
          PROVE  router.at = "idle" /\ router'.at = "accept"
      BY <2>1 DEF ReceiveOrder
    <2>2. ASSUME ~\E o \in OrderMessages : ReceiveOrder(o) PROVE UNCHANGED router
      BY <1>1, <2>2 DEF Next, InstantAction, EngineStep, StartPause,
         StopPause, Retry, SkipRetry, FailInstant, AdvanceQueue, CompareStates,
         Elapse, vars
    <2> QED
      BY <2>1, <2>2
  <1> QED
    BY <1>2, <1>3, <1>4

\* A pause is no progress.
LEMMA PauseKeeps ==
    ASSUME OrderTyped,
           state' \in {state, Paused(state, TRUE), Paused(state, FALSE)}
    PROVE  /\ state'.orderId = state.orderId
           /\ state'.orderUpdateId = state.orderUpdateId
           /\ state'.cancelled = state.cancelled
           /\ state'.nodes = state.nodes /\ state'.edges = state.edges
           /\ state'.lastNodeId = state.lastNodeId
           /\ state'.lastNodeSequenceId = state.lastNodeSequenceId
  <1>1. DOMAIN state = Fields
    BY ShapeOfTyped DEF OrderTyped
  <1> QED
    BY <1>1 DEF Paused, Fields

LEMMA TripQuiet ==
    ASSUME SingleTrip, OrderTyped, Trip, [Next]_vars, ~RouterStep, ~RunStep
    PROVE  Trip'
  <1>1. /\ UNCHANGED <<simVars, reached>>
        /\ state' \in {state, Paused(state, TRUE), Paused(state, FALSE)}
        /\ \/ UNCHANGED router
           \/ router.at = "idle" /\ router'.at = "accept"
    BY QuietSteps DEF SingleTrip
  <1>2. /\ state'.orderId = state.orderId
        /\ state'.orderUpdateId = state.orderUpdateId
        /\ state'.cancelled = state.cancelled
        /\ state'.nodes = state.nodes /\ state'.edges = state.edges
        /\ state'.lastNodeId = state.lastNodeId
        /\ state'.lastNodeSequenceId = state.lastNodeSequenceId
    BY <1>1, PauseKeeps
  <1>3. CASE NotSent
    BY <1>1, <1>2, <1>3 DEF NotSent, simVars, Trip
  <1>4. ASSUME NEW o \in OrderMessages, Sent(o) PROVE Trip'
    BY <1>1, <1>2, <1>4 DEF Sent, Holds, LastAt, simVars, Trip
  <1>5. ASSUME NEW o \in OrderMessages, Underway(o) PROVE Trip'
    BY <1>1, <1>2, <1>5 DEF Underway, Holds, LastAt, Recorded, simVars, Trip
  <1> QED
    BY <1>3, <1>4, <1>5 DEF Trip

\* The order is accepted once, and never stitched.
LEMMA TripRouter ==
    ASSUME SingleTrip, AllTypes, Trip, RouterStep PROVE Trip'
  <1>1. CASE RejectOrder
    <2>1. UNCHANGED <<state, simVars, reached>> /\ router'.at = "idle"
          /\ router.at = "accept"
      BY <1>1 DEF RejectOrder, Idle, runVars
    <2> QED
      BY <2>1 DEF Trip, NotSent, Sent, Underway, Holds, LastAt, Recorded, simVars
  <1>2. CASE AcceptsOrder
    <2>1. PICK o \in OrderMessages :
             /\ o = router.order /\ router.at = "accept"
             /\ Rejection(state, o, router.pos) = "" /\ state' = Accepted(state, o)
             /\ router'.at = "extend" /\ pc' = pc
      BY <1>2 DEF AcceptsOrder, Rejected, AcceptOrder, AllTypes, RouterTyped, Idle
    <2>2. o.orderUpdateId \in Int /\ DOMAIN state = Fields
      BY RobotAssumption, ShapeOfTyped
         DEF RobotAssumption, MessagesTyped, AllTypes, OrderTyped
    <2>3. CASE NotSent
      <3>1. IsNew(state, o)
        BY <2>3 DEF SingleTrip, WellFormed, NotSent, IsNew
      <3>2. Holds(o)' /\ LastAt(o, 1)'
        <4>1. 1 \in DOMAIN o.nodes
          BY RobotAssumption DEF RobotAssumption, MessagesTyped
        <4>2. /\ state'.orderId = o.orderId
              /\ state'.orderUpdateId = o.orderUpdateId
              /\ state'.cancelled = FALSE
              /\ state'.nodes = o.nodes /\ state'.edges = o.edges
              /\ state'.lastNodeSequenceId = o.nodes[1].sequenceId
              /\ state'.lastNodeId = o.nodes[1].nodeId
          BY <2>1, <2>2, <3>1 DEF Accepted, Fields
        <4> QED
          BY <4>1, <4>2 DEF Holds, LastAt
      <3> QED
        BY <2>1, <2>3, <3>2 DEF NotSent, Sent, Trip
    <2>4. ASSUME NEW p \in OrderMessages, Holds(p) PROVE FALSE
      <3>1. p = o
        BY DEF SingleTrip
      <3> QED
        BY <2>1, <2>2, <2>4, <3>1 DEF Holds, Rejection, IsNew, UpdateError
    <2> QED
      BY <2>3, <2>4 DEF Trip, Sent, Underway
  <1>3. CASE StartSimulator
    <2>1. PICK o \in OrderMessages : Sent(o)
      BY <1>3 DEF StartSimulator, Trip, NotSent, Underway
    <2>2. /\ UNCHANGED <<state, reached>> /\ router'.at = "idle" /\ pc' = "check"
          /\ simNodes' = o.nodes /\ simEdges' = o.edges /\ edgeIdx' = 1
      BY <1>3, <2>1 DEF StartSimulator, Sim!Create, Idle, runVars, Sent, Holds
    <2>3. Underway(o)'
      BY <2>1, <2>2 DEF Underway, Sent, Holds, LastAt, Recorded
    <2> QED
      BY <2>3 DEF Trip
  <1>4. ~ExtendSimulator /\ ~SignalSimulator /\ ~CancelExtends /\ ~CancelSignals
    BY DEF ExtendSimulator, SignalSimulator, CancelExtends, CancelSignals,
       Sim!SetChain, Trip, NotSent, Sent, Underway
  <1> QED
    BY <1>1, <1>2, <1>3, <1>4 DEF RouterStep

\* The one order is a chain, whose sequenceIds count up,
LEMMA CountsOfTrip ==
    ASSUME SingleTrip, NEW o \in OrderMessages
    PROVE  o.nodes \in Seq(Elements(o.nodes)) /\ Counts(o.nodes, o.edges)
  <1>1. MessagesFit(OrderMessages)
    BY RobotAssumption DEF RobotAssumption, MessagesTyped, MessagesFit, SingleTrip
  <1>2. Chain(NodesOf(OrderMessages, o.orderId), EdgesOf(OrderMessages, o.orderId),
              o.nodes, o.edges)
    BY <1>1, MessageChain
  <1> QED
    BY <1>2, ChainCounts, RobotAssumption DEF RobotAssumption, MessagesTyped

\* and it visits a place once, where the lookups find it.
LEMMA PlaceOfTrip ==
    ASSUME SingleTrip, NEW o \in OrderMessages, Holds(o),
           NEW i \in DOMAIN o.nodes
    PROVE  /\ SequenceIdFor(state, o.nodes[i].nodeId) = o.nodes[i].sequenceId
           /\ ActionsForNode(state, o.nodes[i].nodeId) = o.nodes[i].actions
  <1>1. PICK nodes : nodes = o.nodes /\ nodes = state.nodes
    BY DEF Holds
  <1>2. Counts(nodes, o.edges)
    BY <1>1, CountsOfTrip
  <1>3. nodes[i] \in Elements(nodes)
    BY <1>1 DEF Elements
  <1> DEFINE first == FirstIndex(nodes, nodes[i].nodeId)
  <1>4. first \in DOMAIN nodes /\ nodes[first].nodeId = nodes[i].nodeId
    BY <1>2, <1>3, FirstVisit DEF Counts
  <1>5. nodes[first] = nodes[i]
    <2>1. \A n, m \in Elements(nodes) : n.nodeId = m.nodeId => n = m
      BY <1>1 DEF SingleTrip
    <2>2. nodes[first] \in Elements(nodes)
      BY <1>4 DEF Elements
    <2> QED
      BY <1>3, <1>4, <2>1, <2>2
  <1>6. KnowsNode(state, nodes[i].nodeId)
    BY <1>1, <1>3 DEF KnowsNode
  <1> QED
    BY <1>1, <1>5, <1>6 DEF SequenceIdFor, ActionsForNode

LEMMA TripRun ==
    ASSUME SingleTrip, AllTypes, Trip, RunStep PROVE Trip'
  <1>1. PICK o \in OrderMessages : Underway(o)
    <2>1. pc # "off"
      BY DEF RunStep, RunLooks, ReadPaused, AskEngine, RunSteps, RecordArrival,
         EnqueueActions, Sim!Check, Sim!ReceiveWake, Sim!Tick, Sim!Gate,
         Sim!Step, Sim!OnTick
    <2> QED
      BY <2>1 DEF Trip, NotSent, Sent
  <1>2. reached # {} => pc = "arrived"
    BY DEF AllTypes, ReachedTyped
  <1>3. o.nodes \in Seq(Elements(o.nodes))
    BY RobotAssumption DEF RobotAssumption, MessagesTyped
  <1>4. DOMAIN state = Fields
    BY ShapeOfTyped DEF AllTypes, OrderTyped
  <1> SUFFICES Underway(o)'
    BY DEF Trip
  <1>5. CASE RunLooks \/ ReadPaused \/ AskEngine
    <2>1. /\ UNCHANGED <<state, router, reached, simNodes, simEdges, edgeIdx>>
          /\ pc # "arrived" /\ pc' \notin {"off", "arrived"}
      BY <1>5 DEF RunLooks, ReadPaused, AskEngine, Sim!Check, Sim!ReceiveWake,
         Sim!Tick, Sim!Gate, runVars
    <2> QED
      BY <1>1, <2>1 DEF Underway, Holds, LastAt, Recorded
  <1>6. CASE RunSteps
    <2>1. /\ UNCHANGED <<state, router, reached, simNodes, simEdges>>
          /\ pc = "stepping"
          /\ \/ UNCHANGED edgeIdx /\ pc' \in {"check", "crashed"}
             \/ /\ edgeIdx' = edgeIdx + 1 /\ edgeIdx + 1 \in DOMAIN simNodes
                /\ position = simNodes[edgeIdx + 1].nodeId
                /\ position' = position
                /\ pc' = IF position = NoNode THEN "check" ELSE "arrived"
      BY <1>6 DEF RunSteps, Sim!Step, Sim!Arrive, Sim!Move, Sim!InRange, Sim!Target,
         Sim!NoNode, NoNode, runVars
    <2>2. CASE UNCHANGED edgeIdx /\ pc' \in {"check", "crashed"}
      BY <1>1, <2>1, <2>2 DEF Underway, Holds, LastAt, Recorded
    <2>3. CASE edgeIdx' = edgeIdx + 1 /\ ~(UNCHANGED edgeIdx /\ pc' \in {"check", "crashed"})
      <3>1. edgeIdx \in Int /\ edgeIdx' \in DOMAIN o.nodes /\ edgeIdx' # edgeIdx
        BY <1>1, <1>3, <2>1, <2>3 DEF Underway
      <3>2. position = o.nodes[edgeIdx'].nodeId /\ position # NoNode
        BY <1>1, <2>1, <2>3, <3>1 DEF Underway, SingleTrip, Elements
      <3>3. pc' = "arrived" /\ reached' = {} /\ position' = position
        BY <1>2, <2>1, <3>1, <3>2
      <3>4. Recorded = edgeIdx /\ Recorded' = edgeIdx
        BY <2>1, <2>3, <3>1, <3>3 DEF Recorded
      <3> QED
        BY <1>1, <2>1, <3>1, <3>2, <3>3, <3>4 DEF Underway, Holds, LastAt
    <2> QED
      BY <2>1, <2>2, <2>3
  <1>7. CASE RecordArrival
    <2>1. /\ UNCHANGED <<router, simVars>> /\ pc = "arrived"
          /\ state' = Arrived(state, position) /\ reached' # {}
      BY <1>7 DEF RecordArrival
    <2>2. position = o.nodes[edgeIdx].nodeId /\ edgeIdx \in DOMAIN o.nodes /\ Holds(o)
      BY <1>1, <2>1 DEF Underway
    <2>3. SequenceIdFor(state, position) = o.nodes[edgeIdx].sequenceId
      BY <2>2, PlaceOfTrip
    <2>4. /\ state'.orderId = state.orderId
          /\ state'.orderUpdateId = state.orderUpdateId
          /\ state'.cancelled = state.cancelled
          /\ state'.nodes = state.nodes /\ state'.edges = state.edges
          /\ state'.lastNodeId = position
          /\ state'.lastNodeSequenceId = SequenceIdFor(state, position)
      BY <1>4, <2>1 DEF Arrived, Fields
    <2>5. Recorded' = edgeIdx
      BY <2>1 DEF Recorded, simVars
    <2> QED
      BY <1>1, <2>1, <2>2, <2>3, <2>4, <2>5 DEF Underway, Holds, LastAt, simVars
  <1>8. CASE EnqueueActions
    <2>1. /\ UNCHANGED <<state, router, simNodes, simEdges, edgeIdx, position>>
          /\ pc = "arrived" /\ pc' = "check" /\ reached # {}
      BY <1>8 DEF EnqueueActions, Sim!OnTick
    <2> QED
      BY <1>1, <2>1 DEF Underway, Holds, LastAt, Recorded
  <1> QED
    BY <1>5, <1>6, <1>7, <1>8 DEF RunStep

LEMMA TripStep ==
    ASSUME SingleTrip PROVE AllTypes /\ Trip /\ [Next]_vars => Trip'
  BY TripQuiet, TripRouter, TripRun DEF AllTypes

LEMMA TripCorrect == ASSUME SingleTrip PROVE Spec => []Trip
  <1>1. Init => Trip
    <2> SUFFICES ASSUME Init PROVE NotSent
      BY DEF Trip
    <2>1. state.orderId = NoOrder
      BY DEF Init, OS!Init, OS!NoState, OS!NoOrder, NoOrder
    <2> QED
      BY <2>1 DEF Init, Sim!Init, Idle, NotSent
  <1>2. AllTypes /\ Trip /\ [Next]_vars => Trip'
    BY TripStep
  <1> QED
    BY <1>1, <1>2, AllTypesCorrect, PTL DEF Spec

\* On one order, as long as one likes and sent as often as one likes, the
\* index of the simulator and the sequenceId of the order state agree.
THEOREM RobotProgressAgrees == ASSUME SingleTrip PROVE Spec => []ProgressAgrees
  <1>1. Trip => ProgressAgrees
    <2> SUFFICES ASSUME Trip, pc \notin {"off", "crashed"}
                 PROVE  /\ Recorded \in DOMAIN simNodes
                        /\ state.lastNodeSequenceId = simNodes[Recorded].sequenceId
                        /\ state.lastNodeId = simNodes[Recorded].nodeId
      BY DEF ProgressAgrees, Recorded
    <2> QED
      BY DEF Trip, NotSent, Sent, Underway, LastAt
  <1> QED
    BY <1>1, TripCorrect, PTL

-----------------------------------------------------------------------------
(* The actions of the road.                                                *)

\* The recurrence of CarriedBy.
Carried(nodes, Driven, carried, i) ==
    IF i = 0 THEN <<>>
    ELSE IF nodes[i] \in Driven THEN carried[i-1] \o nodes[i].actions
    ELSE carried[i-1]

CarriesUpTo(nodes, Driven, n, carried) ==
    carried = [i \in 0..n |-> Carried(nodes, Driven, carried, i)]

LEMMA CarriedExists ==
    ASSUME NEW nodes, Len(nodes) \in Nat, NEW Driven
    PROVE  \E carried : /\ CarriesUpTo(nodes, Driven, Len(nodes), carried)
                        /\ CarriedBy(nodes, Driven) = carried[Len(nodes)]
  <1> DEFINE Good == {n \in 0..Len(nodes) :
                         \E carried : CarriesUpTo(nodes, Driven, n, carried)}
  <1>1. 0..Len(nodes) \subseteq Good
    <2>1. 0 \in Good
      <3>1. CarriesUpTo(nodes, Driven, 0, [i \in 0..0 |-> <<>>])
        BY DEF CarriesUpTo, Carried
      <3> QED
        BY <3>1
    <2>2. ASSUME NEW n \in 1..Len(nodes), n - 1 \in Good PROVE n \in Good
      <3>1. PICK carried : CarriesUpTo(nodes, Driven, n - 1, carried)
        BY <2>2
      <3> DEFINE next == [i \in 0..n |-> IF i < n THEN carried[i]
                                         ELSE Carried(nodes, Driven, carried, n)]
      <3>2. ASSUME NEW i \in 0..n PROVE next[i] = Carried(nodes, Driven, next, i)
        <4>1. i # 0 => next[i-1] = carried[i-1]
          OBVIOUS
        <4>2. Carried(nodes, Driven, next, i) = Carried(nodes, Driven, carried, i)
          BY <4>1 DEF Carried
        <4>3. i < n => carried[i] = Carried(nodes, Driven, carried, i)
          <5>1. i < n => i \in 0..n - 1
            OBVIOUS
          <5> HIDE DEF next
          <5> QED
            BY <3>1, <5>1 DEF CarriesUpTo
        <4> QED
          BY <4>2, <4>3
      <3>3. next = [i \in 0..n |-> Carried(nodes, Driven, next, i)]
        <4>1. DOMAIN next = 0..n /\ next = [i \in DOMAIN next |-> next[i]]
          OBVIOUS
        <4> HIDE DEF next
        <4> QED
          BY <3>2, <4>1
      <3>4. CarriesUpTo(nodes, Driven, n, next)
        BY <3>3 DEF CarriesUpTo
      <3> QED
        BY <3>4
    <2> HIDE DEF Good
    <2> QED
      BY <2>1, <2>2, Induction
  <1>2. \E carried : CarriesUpTo(nodes, Driven, Len(nodes), carried)
    <2>1. Len(nodes) \in 0..Len(nodes)
      OBVIOUS
    <2> QED
      BY <1>1, <2>1
  <1> QED
    BY <1>2, Zenon DEF CarriesUpTo, Carried, CarriedBy

\* The same, one step at a time.
LEMMA CarriedSteps ==
    ASSUME NEW nodes, Len(nodes) \in Nat, NEW Driven
    PROVE  \E carried :
              /\ carried[0] = <<>>
              /\ \A n \in 1..Len(nodes) :
                    /\ nodes[n] \in Driven
                          => carried[n] = carried[n-1] \o nodes[n].actions
                    /\ nodes[n] \notin Driven => carried[n] = carried[n-1]
              /\ CarriedBy(nodes, Driven) = carried[Len(nodes)]
  <1>1. PICK carried : /\ CarriesUpTo(nodes, Driven, Len(nodes), carried)
                       /\ CarriedBy(nodes, Driven) = carried[Len(nodes)]
    BY CarriedExists
  <1>2. ASSUME NEW n \in 0..Len(nodes)
        PROVE  carried[n] = Carried(nodes, Driven, carried, n)
    BY <1>1 DEF CarriesUpTo
  <1>3. ASSUME NEW n \in 1..Len(nodes)
        PROVE  /\ nodes[n] \in Driven
                     => carried[n] = carried[n-1] \o nodes[n].actions
               /\ nodes[n] \notin Driven => carried[n] = carried[n-1]
    <2>1. carried[n] = Carried(nodes, Driven, carried, n) /\ n # 0
      BY <1>2
    <2> QED
      BY <2>1 DEF Carried
  <1>4. carried[0] = <<>>
    BY <1>2 DEF Carried
  <1> QED
    BY <1>1, <1>3, <1>4

\* Where nothing was driven, nothing was carried.
LEMMA CarriedNothing ==
    ASSUME NEW nodes, Len(nodes) \in Nat, NEW Driven,
           \A n \in 1..Len(nodes) : nodes[n] \notin Driven
    PROVE  CarriedBy(nodes, Driven) = <<>>
  <1>1. PICK carried :
           /\ carried[0] = <<>>
           /\ \A n \in 1..Len(nodes) : carried[n] = carried[n-1]
           /\ CarriedBy(nodes, Driven) = carried[Len(nodes)]
    BY CarriedSteps
  <1> DEFINE Good == {n \in 0..Len(nodes) : carried[n] = <<>>}
  <1>2. 0 \in Good
    BY <1>1
  <1>3. ASSUME NEW n \in 1..Len(nodes), n - 1 \in Good PROVE n \in Good
    BY <1>1, <1>3
  <1>4. Len(nodes) \in Good
    <2>1. Len(nodes) \in 0..Len(nodes)
      OBVIOUS
    <2> HIDE DEF Good
    <2> QED
      BY <1>2, <1>3, <2>1, Induction
  <1> QED
    BY <1>1, <1>4

\* One node more adds its actions behind the others.
OneMore(nodes, L, Before, After, k) ==
    \A n \in 1..L : /\ nodes[n] \in After <=> (nodes[n] \in Before \/ n = k)
                    /\ nodes[n] \in Before => n < k

LEMMA CarriedOneMore ==
    ASSUME NEW nodes, NEW L \in Nat, Len(nodes) = L,
           NEW Before, NEW After, NEW k \in 1..L,
           OneMore(nodes, L, Before, After, k)
    PROVE  CarriedBy(nodes, After) = CarriedBy(nodes, Before) \o nodes[k].actions
  <1>1. PICK old :
           /\ old[0] = <<>>
           /\ \A n \in 1..L :
                 /\ nodes[n] \in Before => old[n] = old[n-1] \o nodes[n].actions
                 /\ nodes[n] \notin Before => old[n] = old[n-1]
           /\ CarriedBy(nodes, Before) = old[L]
    BY CarriedSteps
  <1>2. PICK new :
           /\ new[0] = <<>>
           /\ \A n \in 1..L :
                 /\ nodes[n] \in After => new[n] = new[n-1] \o nodes[n].actions
                 /\ nodes[n] \notin After => new[n] = new[n-1]
           /\ CarriedBy(nodes, After) = new[L]
    BY CarriedSteps
  <1> DEFINE Agree(n) == IF n < k THEN new[n] = old[n]
                         ELSE new[n] = old[n] \o nodes[k].actions
             Good == {n \in 0..L : Agree(n)}
  <1>3. Agree(0)
    BY <1>1, <1>2
  <1>4. ASSUME NEW n \in 1..L, Agree(n - 1) PROVE Agree(n)
    <2>0. /\ nodes[n] \in Before => old[n] = old[n-1] \o nodes[n].actions
          /\ nodes[n] \notin Before => old[n] = old[n-1]
          /\ nodes[n] \in After => new[n] = new[n-1] \o nodes[n].actions
          /\ nodes[n] \notin After => new[n] = new[n-1]
          /\ nodes[n] \in After <=> (nodes[n] \in Before \/ n = k)
          /\ nodes[n] \in Before => n < k
      BY <1>1, <1>2 DEF OneMore
    <2>1. CASE n < k
      <3>0. n - 1 < k /\ n # k
        BY <2>1
      <3>1. new[n-1] = old[n-1]
        BY <1>4, <3>0
      <3>2. new[n] = old[n]
        BY <2>0, <3>0, <3>1
      <3> QED
        BY <2>1, <3>2
    <2>2. CASE n = k
      <3>0. n - 1 < k /\ ~(n < k)
        BY <2>2
      <3>1. new[n-1] = old[n-1]
        BY <1>4, <3>0
      <3>2. new[n] = old[n] \o nodes[k].actions
        BY <2>0, <2>2, <3>0, <3>1
      <3> QED
        BY <3>0, <3>2
    <2>3. CASE n > k
      <3>0. ~(n - 1 < k) /\ ~(n < k) /\ n # k
        BY <2>3
      <3>1. new[n-1] = old[n-1] \o nodes[k].actions
        BY <1>4, <3>0
      <3>2. new[n] = old[n] \o nodes[k].actions
        BY <2>0, <3>0, <3>1
      <3> QED
        BY <3>0, <3>2
    <2>4. n < k \/ n = k \/ n > k
      OBVIOUS
    <2> QED
      BY <2>1, <2>2, <2>3, <2>4
  <1>5. Agree(L)
    <2> HIDE DEF Agree
    <2>1. 0 \in Good
      BY <1>3
    <2>2. ASSUME NEW n \in 1..L, n - 1 \in Good PROVE n \in Good
      BY <1>4, <2>2
    <2>3. L \in Good
      <3>1. L \in 0..L
        OBVIOUS
      <3> HIDE DEF Good
      <3> QED
        BY <2>1, <2>2, <3>1, Induction
    <2> QED
      BY <2>3
  <1>6. ~(L < k)
    OBVIOUS
  <1> QED
    BY <1>1, <1>2, <1>5, <1>6

\* What the actions of the nodes driven over depend on.
RoadState == <<state.nodes, state.lastNodeSequenceId>>

\* The queue before the simulator is created; onTick has one array at most.
QueueInv ==
    /\ pc = "off" => queue = <<>>
    /\ \A a, b \in reached : a = b
    /\ QueueFollowsTheRoad

LEMMA SameRoad ==
    ASSUME QueueInv, UNCHANGED <<RoadState, Enqueued, reached>>,
           pc' = "off" => pc = "off" /\ queue' = queue
    PROVE  QueueInv'
  <1>1. state'.nodes = state.nodes
        /\ state'.lastNodeSequenceId = state.lastNodeSequenceId
    BY DEF RoadState
  <1>2. Pending' = Pending
    BY DEF Pending
  <1> QED
    BY <1>1, <1>2 DEF QueueInv, QueueFollowsTheRoad

\* The nodes driven over are those up to the last one, but for the first.
LEMMA RoadSoFar ==
    ASSUME NEW nodes, NEW edges, Counts(nodes, edges),
           NEW k \in 1..Len(nodes), NEW n \in 1..Len(nodes)
    PROVE  nodes[n] \in DrivenUpTo(nodes, nodes[k].sequenceId)
              <=> (n # 1 /\ n <= k)
  <1>1. PICK first \in Int :
           /\ first = nodes[1].sequenceId
           /\ nodes[n].sequenceId = first + 2 * (n - 1)
           /\ nodes[k].sequenceId = first + 2 * (k - 1)
    BY DEF Counts
  <1>2. n \in Int /\ k \in Int
    BY DEF Counts
  <1>3. nodes[n].sequenceId <= nodes[k].sequenceId <=> n <= k
    BY <1>1, <1>2
  <1>4. nodes[n] = nodes[1] <=> n = 1
    BY <1>1, <1>2
  <1>5. nodes[n] \in Elements(nodes)
    BY DEF Elements, Counts
  <1> QED
    BY <1>3, <1>4, <1>5 DEF DrivenUpTo

\* At the first node nothing was driven yet;
LEMMA RoadBegins ==
    ASSUME NEW nodes, NEW edges, Counts(nodes, edges)
    PROVE  CarriedBy(nodes, DrivenUpTo(nodes, nodes[1].sequenceId)) = <<>>
  <1>1. Len(nodes) \in Nat /\ 1 \in 1..Len(nodes)
    BY DEF Counts
  <1>2. ASSUME NEW n \in 1..Len(nodes)
        PROVE  nodes[n] \notin DrivenUpTo(nodes, nodes[1].sequenceId)
    <2>1. nodes[n] \in DrivenUpTo(nodes, nodes[1].sequenceId)
             <=> (n # 1 /\ n <= 1)
      BY <1>1, RoadSoFar
    <2> QED
      BY <1>1, <2>1
  <1> QED
    BY <1>1, <1>2, CarriedNothing

\* the next node adds its actions.
LEMMA RoadGoesOn ==
    ASSUME NEW nodes, NEW edges, Counts(nodes, edges), NEW k \in 2..Len(nodes)
    PROVE  CarriedBy(nodes, DrivenUpTo(nodes, nodes[k].sequenceId))
              = CarriedBy(nodes, DrivenUpTo(nodes, nodes[k-1].sequenceId))
                   \o nodes[k].actions
  <1> DEFINE Before == DrivenUpTo(nodes, nodes[k-1].sequenceId)
             After == DrivenUpTo(nodes, nodes[k].sequenceId)
  <1>1. Len(nodes) \in Nat /\ k \in 1..Len(nodes) /\ k - 1 \in 1..Len(nodes)
    BY DEF Counts
  <1>2. ASSUME NEW n \in 1..Len(nodes)
        PROVE  /\ nodes[n] \in After <=> (nodes[n] \in Before \/ n = k)
               /\ nodes[n] \in Before => n < k
    <2>1. nodes[n] \in Before <=> (n # 1 /\ n <= k - 1)
      BY <1>1, RoadSoFar
    <2>2. nodes[n] \in After <=> (n # 1 /\ n <= k)
      BY <1>1, RoadSoFar
    <2> HIDE DEF Before, After
    <2> QED
      BY <1>1, <2>1, <2>2
  <1> HIDE DEF Before, After
  <1>3. CarriedBy(nodes, After) = CarriedBy(nodes, Before) \o nodes[k].actions
    <2>1. OneMore(nodes, Len(nodes), Before, After, k)
      BY <1>2, Zenon DEF OneMore
    <2> QED
      BY <1>1, <2>1, CarriedOneMore
  <1> QED
    BY <1>3 DEF Before, After

\* The names of the entries are a sequence as long as the queue.
LEMMA ActionsOf ==
    ASSUME NEW entries \in Seq(Engine!QueuedAction)
    PROVE  /\ [t \in DOMAIN entries |-> entries[t].action] \in Seq(Action)
           /\ Len([t \in DOMAIN entries |-> entries[t].action]) = Len(entries)
  <1> DEFINE names == [t \in DOMAIN entries |-> entries[t].action]
  <1>1. /\ DOMAIN entries = 1..Len(entries) /\ Len(entries) \in Nat
        /\ \A t \in 1..Len(entries) : entries[t] \in Engine!QueuedAction
    OBVIOUS
  <1>2. names \in [1..Len(entries) -> Action]
    BY <1>1 DEF Engine!QueuedAction
  <1>3. names \in Seq(Action) /\ Len(names) = Len(entries)
    <2> HIDE DEF names
    <2> QED
      BY <1>1, <1>2
  <1> QED
    BY <1>3

\* onTick reads the actions of the node the robot has just come to.
LEMMA RoadGrows ==
    ASSUME SingleTrip, AllTypes, Trip, QueueInv, RecordArrival
    PROVE  QueueInv'
  <1>1. /\ pc = "arrived" /\ pc' = pc /\ queue' = queue /\ reached = {}
        /\ edgeIdx' = edgeIdx
        /\ state' = Arrived(state, position)
        /\ reached' = {ActionsForNode(state, position)}
    BY DEF RecordArrival, simVars, queueVars
  <1>2. PICK o \in OrderMessages : Underway(o)
    BY <1>1 DEF Trip, NotSent, Sent
  <1>3. /\ Holds(o) /\ LastAt(o, edgeIdx - 1) /\ edgeIdx \in DOMAIN o.nodes
        /\ position = o.nodes[edgeIdx].nodeId
    BY <1>1, <1>2 DEF Underway, Recorded
  <1>4. /\ SequenceIdFor(state, position) = o.nodes[edgeIdx].sequenceId
        /\ ActionsForNode(state, position) = o.nodes[edgeIdx].actions
    BY <1>3, PlaceOfTrip
  <1>5. DOMAIN state = Fields
    BY ShapeOfTyped DEF AllTypes, OrderTyped
  <1>6. Holds(o)' /\ LastAt(o, edgeIdx)'
    <2>1. /\ state'.orderId = state.orderId
          /\ state'.orderUpdateId = state.orderUpdateId
          /\ state'.cancelled = state.cancelled
          /\ state'.nodes = state.nodes /\ state'.edges = state.edges
          /\ state'.lastNodeId = position
          /\ state'.lastNodeSequenceId = SequenceIdFor(state, position)
      BY <1>1, <1>5 DEF Arrived, Fields
    <2> QED
      BY <1>1, <1>3, <1>4, <2>1 DEF Holds, LastAt
  <1>7. PICK nodes, k : nodes = o.nodes /\ k = edgeIdx
    OBVIOUS
  <1>8. Counts(nodes, o.edges)
    BY <1>7, CountsOfTrip
  <1>9. k \in 2..Len(nodes)
    <2>1. k \in 1..Len(nodes) /\ k - 1 \in 1..Len(nodes) /\ Len(nodes) \in Nat
      BY <1>3, <1>7, <1>8 DEF Counts, LastAt
    <2> QED
      BY <2>1
  <1>10. CarriedBy(nodes, DrivenUpTo(nodes, nodes[k].sequenceId))
            = CarriedBy(nodes, DrivenUpTo(nodes, nodes[k-1].sequenceId))
                 \o nodes[k].actions
    BY <1>8, <1>9, RoadGoesOn
  <1>11. CarriedBy(nodes, DrivenUpTo(nodes, nodes[k-1].sequenceId)) = Enqueued
    <2>1. Enqueued \o <<>> = Enqueued
      <3>1. queue \in Seq(Engine!QueuedAction)
        BY DEF AllTypes, Engine!TypeOK
      <3> QED
        BY <3>1, ActionsOf, ConcatEmptySeq DEF Enqueued
    <2> QED
      BY <1>1, <1>3, <1>7, <2>1
         DEF QueueInv, QueueFollowsTheRoad, Pending, Holds, LastAt
  <1>12. Pending' = nodes[k].actions /\ Enqueued' = Enqueued
    BY <1>1, <1>4, <1>7 DEF Pending, Enqueued
  <1>13. state'.nodes = nodes
         /\ state'.lastNodeSequenceId = nodes[k].sequenceId
    BY <1>1, <1>6, <1>7 DEF Holds, LastAt
  <1>14. QueueFollowsTheRoad'
    BY <1>10, <1>11, <1>12, <1>13 DEF QueueFollowsTheRoad
  <1> QED
    BY <1>1, <1>14 DEF QueueInv

LEMMA NothingEnqueued ==
    \A entries : entries = <<>> =>
       [t \in DOMAIN entries |-> entries[t].action] \o <<>> = <<>>
  OBVIOUS

\* An append to the queue appends the actions.
LEMMA ActionsOfAppend ==
    ASSUME NEW old \in Seq(Engine!QueuedAction), NEW actions \in Seq(Action),
           NEW new, new = old \o [i \in DOMAIN actions |-> Engine!Waiting(actions[i])]
    PROVE  [t \in DOMAIN new |-> new[t].action]
              = [t \in DOMAIN old |-> old[t].action] \o actions
  <1> DEFINE fresh == [i \in DOMAIN actions |-> Engine!Waiting(actions[i])]
             before == [t \in DOMAIN old |-> old[t].action]
             after == [t \in DOMAIN new |-> new[t].action]
  <1>1. /\ DOMAIN actions = 1..Len(actions) /\ Len(actions) \in Nat
        /\ \A i \in 1..Len(actions) : actions[i] \in Action
    OBVIOUS
  <1>2. \A a \in Action : Engine!Waiting(a) \in Engine!QueuedAction
    BY DEF Engine!Waiting, Engine!QueuedAction, Engine!Status
  <1>3. fresh \in [1..Len(actions) -> Engine!QueuedAction]
    BY <1>1, <1>2
  <1>4. /\ fresh \in Seq(Engine!QueuedAction) /\ Len(fresh) = Len(actions)
        /\ \A i \in 1..Len(actions) : fresh[i].action = actions[i]
    BY <1>1, <1>3 DEF Engine!Waiting
  <1> HIDE DEF fresh
  <1>5. /\ new \in Seq(Engine!QueuedAction)
        /\ Len(new) = Len(old) + Len(actions) /\ Len(old) \in Nat
        /\ \A t \in 1..Len(new) :
              new[t] = IF t <= Len(old) THEN old[t] ELSE fresh[t - Len(old)]
    <2>1. new = old \o fresh
      BY DEF fresh
    <2>2. /\ old \o fresh \in Seq(Engine!QueuedAction)
          /\ Len(old \o fresh) = Len(old) + Len(fresh)
          /\ \A t \in 1 .. Len(old) + Len(fresh) :
                (old \o fresh)[t] = IF t <= Len(old) THEN old[t]
                                    ELSE fresh[t - Len(old)]
      BY <1>4, ConcatProperties
    <2>3. Len(new) = Len(old) + Len(actions) /\ Len(old) \in Nat
      BY <1>4, <2>1, <2>2
    <2> QED
      BY <1>4, <2>1, <2>2, <2>3, Zenon
  <1>6. /\ before \in Seq(Action) /\ Len(before) = Len(old)
        /\ after \in Seq(Action) /\ Len(after) = Len(new)
    BY <1>5, ActionsOf
  <1>7. /\ before \o actions \in Seq(Action)
        /\ Len(before \o actions) = Len(new)
        /\ \A t \in 1..Len(new) :
              (before \o actions)[t] = IF t <= Len(old) THEN before[t]
                                       ELSE actions[t - Len(old)]
    <2> HIDE DEF before
    <2>1. /\ before \o actions \in Seq(Action)
          /\ Len(before \o actions) = Len(before) + Len(actions)
          /\ \A t \in 1 .. Len(before) + Len(actions) :
                (before \o actions)[t] = IF t <= Len(before) THEN before[t]
                                         ELSE actions[t - Len(before)]
      BY <1>6, ConcatProperties
    <2> QED
      BY <1>5, <1>6, <2>1, Zenon
  <1>8. ASSUME NEW t \in 1..Len(new) PROVE after[t] = (before \o actions)[t]
    <2>1. after[t] = new[t].action
      BY <1>5
    <2>2. CASE t <= Len(old)
      <3>1. t \in DOMAIN old
        BY <1>5, <2>2
      <3>2. before[t] = old[t].action
        BY <3>1
      <3> QED
        BY <1>5, <1>7, <2>1, <2>2, <3>2
    <2>3. CASE ~(t <= Len(old))
      <3>1. t - Len(old) \in 1..Len(actions)
        BY <1>1, <1>5, <2>3
      <3> QED
        BY <1>4, <1>5, <1>7, <2>1, <2>3, <3>1
    <2> QED
      BY <2>2, <2>3
  <1>9. after = before \o actions
    <2> HIDE DEF after, before
    <2> QED
      BY <1>6, <1>7, <1>8, SeqEqual
  <1> QED
    BY <1>9

\* What was read goes to the back of the queue.
LEMMA RoadEnqueued ==
    ASSUME AllTypes, QueueInv, EnqueueActions PROVE QueueInv'
  <1>1. PICK actions \in reached :
           /\ Engine!Enqueue(actions) /\ Sim!OnTick /\ reached' = {} /\ state' = state
    BY DEF EnqueueActions
  <1>2. actions \in Seq(Action) /\ Pending = actions
    BY DEF AllTypes, ReachedTyped, Pending, QueueInv
  <1>3. Enqueued' = Enqueued \o actions /\ Enqueued \o actions \in Seq(Action)
    <2>1. PICK old, new :
             /\ old = queue /\ new = queue' /\ old \in Seq(Engine!QueuedAction)
             /\ new = old \o [i \in DOMAIN actions |-> Engine!Waiting(actions[i])]
      BY <1>1 DEF Engine!Enqueue, AllTypes, Engine!TypeOK
    <2>2. [t \in DOMAIN new |-> new[t].action]
             = [t \in DOMAIN old |-> old[t].action] \o actions
      BY <1>2, <2>1, ActionsOfAppend
    <2>3. [t \in DOMAIN old |-> old[t].action] \o actions \in Seq(Action)
      BY <1>2, <2>1, ActionsOf, ConcatProperties
    <2> QED
      BY <2>1, <2>2, <2>3 DEF Enqueued
  <1>4. Pending' = <<>>
    BY <1>1 DEF Pending
  <1>5. QueueFollowsTheRoad'
    BY <1>1, <1>2, <1>3, <1>4 DEF QueueInv, QueueFollowsTheRoad
  <1> QED
    BY <1>1, <1>5 DEF QueueInv, Sim!OnTick

\* The order comes before the simulator, and nothing was driven before.
LEMMA RoadAccepted ==
    ASSUME SingleTrip, AllTypes, Trip, QueueInv, AcceptsOrder
    PROVE  QueueInv'
  <1>1. /\ router'.at = "extend" /\ pc' = pc /\ queue' = queue /\ reached' = reached
    BY DEF AcceptsOrder, Idle, queueVars, runVars
  <1>2. PICK o \in OrderMessages : Sent(o)'
    <2>1. Trip'
      BY TripRouter DEF RouterStep
    <2> QED
      BY <1>1, <2>1 DEF Trip, NotSent, Underway
  <1>3. queue = <<>> /\ reached = {}
    BY <1>1, <1>2 DEF Sent, QueueInv, AllTypes, ReachedTyped
  <1>4. PICK nodes : /\ nodes = o.nodes /\ nodes = state'.nodes
                     /\ state'.lastNodeSequenceId = nodes[1].sequenceId
    BY <1>2 DEF Sent, Holds, LastAt
  <1>5. CarriedBy(nodes, DrivenUpTo(nodes, nodes[1].sequenceId)) = <<>>
    BY <1>4, CountsOfTrip, RoadBegins
  <1>6. Enqueued' \o Pending' = <<>>
    BY <1>1, <1>3, NothingEnqueued DEF Pending, Enqueued
  <1>7. QueueFollowsTheRoad'
    BY <1>4, <1>5, <1>6 DEF QueueFollowsTheRoad
  <1> QED
    BY <1>1, <1>3, <1>7 DEF QueueInv

\* Nothing else adds to the queue, or to what is driven over.
LEMMA QuietQueue ==
    ASSUME AllTypes, Next, ~EnqueueActions
    PROVE  UNCHANGED Enqueued /\ (queue = <<>> => queue' = queue)
  <1>1. CASE UNCHANGED queueVars
    BY <1>1 DEF queueVars, Enqueued
  <1>2. CASE Calm
    <2>1. DOMAIN queue' = DOMAIN queue
      BY <1>2 DEF Calm
    <2>2. UNCHANGED Enqueued
      BY <1>2, <2>1 DEF Calm, Enqueued
    <2>3. queue' \in Seq(Engine!QueuedAction) /\ queue \in Seq(Engine!QueuedAction)
      BY <1>2, CalmTyped DEF AllTypes, Engine!TypeOK
    <2> QED
      BY <2>1, <2>2, <2>3
  <1> QED
    BY <1>1, <1>2, QueueSteps DEF AllTypes

LEMMA QuietRoad ==
    ASSUME SingleTrip, AllTypes, Trip, Next,
           ~AcceptsOrder, ~RecordArrival, ~EnqueueActions
    PROVE  UNCHANGED <<RoadState, reached>> /\ (pc' = "off" => pc = "off")
  <1>1. CASE ~RouterStep /\ ~RunStep
    BY <1>1, QuietSteps, PauseKeeps DEF SingleTrip, AllTypes, simVars, RoadState
  <1>2. CASE RouterStep
    BY <1>2 DEF RouterStep, RejectOrder, StartSimulator, ExtendSimulator,
       SignalSimulator, CancelExtends, CancelSignals, Sim!Create, Sim!SetChain,
       Sim!SendWake, runVars, simVars, RoadState
  <1>3. CASE RunStep
    BY <1>3 DEF RunStep, RunLooks, ReadPaused, AskEngine, RunSteps, Sim!Check,
       Sim!ReceiveWake, Sim!Tick, Sim!Gate, Sim!Step, Sim!Arrive, Sim!Move,
       runVars, RoadState
  <1> QED
    BY <1>1, <1>2, <1>3

LEMMA QueueInvStep ==
    ASSUME SingleTrip, AllTypes, Trip, QueueInv, [Next]_vars PROVE QueueInv'
  <1>1. CASE AcceptsOrder
    BY <1>1, RoadAccepted
  <1>2. CASE RecordArrival
    BY <1>2, RoadGrows
  <1>3. CASE EnqueueActions
    BY <1>3, RoadEnqueued
  <1>4. ASSUME ~AcceptsOrder, ~RecordArrival, ~EnqueueActions PROVE QueueInv'
    <2>1. CASE Next
      BY <1>4, <2>1, QuietRoad, QuietQueue, SameRoad DEF QueueInv
    <2>2. CASE UNCHANGED vars
      BY <2>2, SameRoad DEF vars, queueVars, simVars, runVars, RoadState, Enqueued
    <2> QED
      BY <2>1, <2>2
  <1> QED
    BY <1>1, <1>2, <1>3, <1>4

\* On such a trip the queue has received the actions of the nodes driven over,
\* in the order of the road and once each, however often the order is sent
\* again and whatever the engine, the clock and the operator do meanwhile.
THEOREM RobotQueueFollowsTheRoad ==
    ASSUME SingleTrip PROVE Spec => []QueueFollowsTheRoad
  <1>1. Init => QueueInv
    <2> SUFFICES ASSUME Init PROVE QueueInv
      OBVIOUS
    <2>1. /\ queue = <<>> /\ reached = {} /\ state.nodes = <<>>
      BY DEF Init, Engine!Init, OS!Init, OS!NoState
    <2>2. PICK nodes : nodes = <<>> /\ nodes = state.nodes
      BY <2>1
    <2>3. CarriedBy(nodes, DrivenUpTo(nodes, state.lastNodeSequenceId)) = <<>>
      <3>1. Len(nodes) \in Nat /\ 1..Len(nodes) = {}
        BY <2>2
      <3> QED
        BY <3>1, CarriedNothing
    <2>4. Enqueued \o Pending = <<>>
      BY <2>1, NothingEnqueued DEF Pending, Enqueued
    <2> QED
      BY <2>1, <2>2, <2>3, <2>4 DEF QueueInv, QueueFollowsTheRoad
  <1>2. AllTypes /\ Trip /\ QueueInv /\ [Next]_vars => QueueInv'
    BY QueueInvStep
  <1>3. QueueInv => QueueFollowsTheRoad
    BY DEF QueueInv
  <1> QED
    BY <1>1, <1>2, <1>3, AllTypesCorrect, TripCorrect, PTL DEF Spec

-----------------------------------------------------------------------------
(* The robot uses the action engine as the engine asks to be used.          *)

EngineTheorems == INSTANCE ActionEngineProofs

\* What onTick has read is what a node carries, or nothing.
ReachedKnown == reached \subseteq NodeActions \union {<<>>}

LEMMA ReachedKnownStep ==
    ASSUME ReachedKnown, OrderTyped, [Next]_vars PROVE ReachedKnown'
  <1>1. CASE RecordArrival
    <2>1. ActionsForNode(state, position) \in NodeActions \union {<<>>}
      <3>1. ASSUME NEW n \in AllNodes(OrderMessages)
            PROVE  n.actions \in NodeActions
        BY DEF NodeActions, AllNodes
      <3> QED
        BY <3>1, ActionsOfNode DEF OrderTyped
    <2> QED
      BY <1>1, <2>1 DEF RecordArrival, ReachedKnown
  <1>2. CASE EnqueueActions
    BY <1>2 DEF EnqueueActions, ReachedKnown
  <1>3. CASE UNCHANGED reached
    BY <1>3 DEF ReachedKnown
  <1>4. ASSUME Next, ~RecordArrival, ~EnqueueActions PROVE UNCHANGED reached
    BY <1>4 DEF Next, RouterStep, InstantAction, RunStep, EngineStep,
       ReceiveOrder, RejectOrder, AcceptsOrder, StartSimulator, ExtendSimulator,
       SignalSimulator, CancelExtends, CancelSignals, CancelOrder, StartPause,
       StopPause, Retry, SkipRetry, FailInstant, RunLooks, ReadPaused, AskEngine,
       RunSteps, AdvanceQueue, CompareStates, Elapse, runVars
  <1> QED
    BY <1>1, <1>2, <1>3, <1>4 DEF vars, runVars

LEMMA EngineReady == EngineTheorems!EngineAssumption
  BY RobotAssumption, Zenon DEF RobotAssumption, EngineTheorems!EngineAssumption

\* An arrival at a node without actions appends nothing.
LEMMA EnqueueNothing ==
    ASSUME Engine!TypeOK, Engine!Enqueue(<<>>) PROVE UNCHANGED queueVars
  <1>1. queue \in Seq(Engine!QueuedAction)
    BY DEF Engine!TypeOK
  <1>2. queue' = queue
    <2>1. [i \in DOMAIN <<>> |-> Engine!Waiting((<<>>)[i])] = <<>>
      OBVIOUS
    <2> QED
      BY <1>1, <2>1, ConcatEmptySeq DEF Engine!Enqueue
  <1>3. live' = live
    <2>1. Len(queue) + 1 .. Len(queue) + Len(<<>>) = {}
      BY <1>1
    <2> QED
      BY <2>1 DEF Engine!Enqueue
  <1> QED
    BY <1>2, <1>3 DEF queueVars

\* Whatever the robot does, its queue takes a step of the engine, or none.
LEMMA EngineSteps ==
    ASSUME AllTypes, ReachedKnown, [Next]_vars PROVE [Engine!Next]_queueVars
  <1>1. CASE EnqueueActions
    <2>1. PICK actions \in reached :
             Len(queue) + Len(actions) <= MaxEnqueued /\ Engine!Enqueue(actions)
      BY <1>1 DEF EnqueueActions
    <2>2. CASE actions \in NodeActions
      BY <2>1, <2>2 DEF Engine!Next
    <2>3. CASE actions = <<>>
      BY <2>1, <2>3, EnqueueNothing DEF AllTypes
    <2> QED
      BY <2>1, <2>2, <2>3 DEF ReachedKnown
  <1>2. CASE AdvanceQueue
    BY <1>2 DEF AdvanceQueue, Engine!Next
  <1>3. CASE CancelOrder
    BY <1>3 DEF CancelOrder, Engine!Next
  <1>4. ASSUME NEW a \in Action, Retry(a) \/ SkipRetry(a) PROVE Engine!Next
    BY <1>4 DEF Retry, SkipRetry, Engine!Next
  <1>5. ASSUME NEW t \in live, Elapse(t) PROVE Engine!Next
    BY <1>5 DEF Elapse, Engine!Next
  <1>6. CASE RouterStep \/ CompareStates \/ StartPause \/ StopPause
              \/ (RunStep /\ ~EnqueueActions)
              \/ (\E type \in InstantTypes : FailInstant(type))
              \/ (\E o \in OrderMessages : ReceiveOrder(o)) \/ UNCHANGED vars
    BY <1>6 DEF RouterStep, RunStep, ReceiveOrder, RejectOrder, AcceptsOrder,
       StartSimulator, ExtendSimulator, SignalSimulator, CancelExtends,
       CancelSignals, StartPause, StopPause, FailInstant, RunLooks, ReadPaused,
       AskEngine, RunSteps, RecordArrival, CompareStates, vars
  <1> QED
    BY <1>1, <1>2, <1>3, <1>4, <1>5, <1>6 DEF Next, InstantAction, EngineStep

\* Every step of the robot is a step of the engine, or leaves its queue alone:
\* what ActionEngine promises, for every queue and every clock, it promises to
\* the handlers and to Run, which enter it under actionEngine.mu in any order.
THEOREM RobotUsesEngine == Spec => Engine!Spec
  <1>1. Init => Engine!Init /\ ReachedKnown
    BY DEF Init, ReachedKnown
  <1>2. AllTypes /\ ReachedKnown /\ [Next]_vars => ReachedKnown'
    BY ReachedKnownStep DEF AllTypes
  <1>3. AllTypes /\ ReachedKnown /\ [Next]_vars => [Engine!Next]_(Engine!vars)
    BY EngineSteps DEF queueVars, Engine!vars
  <1> QED
    BY <1>1, <1>2, <1>3, AllTypesCorrect, PTL DEF Spec, Engine!Spec

\* The two instances are one specification.
LEMMA SameEngine == Engine!Spec <=> EngineTheorems!Spec
  <1>1. Engine!Init <=> EngineTheorems!Init
    BY DEF Engine!Init, EngineTheorems!Init
  <1>2. [Engine!Next]_(Engine!vars) <=> [EngineTheorems!Next]_(EngineTheorems!vars)
    BY Zenon DEF Engine!Next, EngineTheorems!Next, Engine!Enqueue,
       EngineTheorems!Enqueue, Engine!Waiting, EngineTheorems!Waiting,
       Engine!Elapse, EngineTheorems!Elapse, Engine!StatusOf,
       EngineTheorems!StatusOf, Engine!IsTimed, EngineTheorems!IsTimed,
       Engine!TimedTypes, EngineTheorems!TimedTypes, Engine!Advance,
       EngineTheorems!Advance, Engine!AdvanceWith,
       EngineTheorems!AdvanceWith, Engine!Kept, EngineTheorems!Kept,
       Engine!Terminal, EngineTheorems!Terminal, Engine!Due,
       EngineTheorems!Due, Engine!IsPick, EngineTheorems!IsPick,
       Engine!Ticket, EngineTheorems!Ticket, Engine!Reached,
       EngineTheorems!Reached, Engine!EndsWalk, EngineTheorems!EndsWalk,
       Engine!AfterRun, EngineTheorems!AfterRun, Engine!Active,
       EngineTheorems!Active, Engine!Blocking, EngineTheorems!Blocking,
       Engine!Exclusive, EngineTheorems!Exclusive, Engine!Parallel,
       EngineTheorems!Parallel, Engine!Advanced,
       EngineTheorems!Advanced, Engine!Starts, EngineTheorems!Starts,
       Engine!Retry, EngineTheorems!Retry, Engine!CanRetry,
       EngineTheorems!CanRetry, Engine!FirstFor,
       EngineTheorems!FirstFor, Engine!SkipRetry,
       EngineTheorems!SkipRetry, Engine!CancelAll,
       EngineTheorems!CancelAll, Engine!vars, EngineTheorems!vars
  <1> QED
    BY <1>1, <1>2, PTL DEF Engine!Spec, EngineTheorems!Spec

\* Under all goroutines of the robot an active SINGLE or HARD action is the
\* only active one: cancelAll, retry and an arrival come between two passes of
\* runActionEngine at any moment.
THEOREM RobotExclusion == Spec => []Engine!Exclusion
  <1>1. EngineTheorems!Exclusion => Engine!Exclusion
    BY Zenon DEF Engine!Exclusion, EngineTheorems!Exclusion, Engine!StatusOf,
       EngineTheorems!StatusOf, Engine!Blocking, EngineTheorems!Blocking,
       Engine!Active, EngineTheorems!Active, Engine!Exclusive,
       EngineTheorems!Exclusive
  <1>2. EngineTheorems!Spec => []EngineTheorems!Exclusion
    BY EngineReady, EngineTheorems!ExclusionCorrect
  <1> QED
    BY <1>1, <1>2, RobotUsesEngine, SameEngine, PTL

\* Only the arrival at a node takes the permission to drive back, whatever the
\* handlers and the clock do between the gate and the step.
THEOREM RobotOnlyEnqueueStops == Spec => Engine!OnlyEnqueueStopsDriving
  <1>1. [EngineTheorems!DrivingAllowed /\ ~EngineTheorems!DrivingAllowed'
            => Len(queue') > Len(queue)]_(EngineTheorems!vars)
           <=> [Engine!DrivingAllowed /\ ~Engine!DrivingAllowed'
                   => Len(queue') > Len(queue)]_(Engine!vars)
    BY Zenon DEF Engine!DrivingAllowed, EngineTheorems!DrivingAllowed,
       Engine!StatusOf, EngineTheorems!StatusOf, Engine!Terminal,
       EngineTheorems!Terminal, Engine!Blocking,
       EngineTheorems!Blocking, Engine!StopsDriving,
       EngineTheorems!StopsDriving, Engine!vars, EngineTheorems!vars
  <1>2. EngineTheorems!Spec => EngineTheorems!OnlyEnqueueStopsDriving
    BY EngineReady, EngineTheorems!OnlyEnqueueStops
  <1> QED
    BY <1>1, <1>2, RobotUsesEngine, SameEngine, PTL
       DEF Engine!OnlyEnqueueStopsDriving, EngineTheorems!OnlyEnqueueStopsDriving

\* The actions of the robot follow the abstract lifecycle: no interleaving of
\* handlers, passes, clock and Run takes one back or ends it twice.
THEOREM RobotImplementsLifecycle == Spec => Engine!ActionsFollowLifecycle
  <1>1. EngineTheorems!Lifecycle!Init => Engine!Lifecycle!Init
    BY Zenon DEF Engine!Lifecycle!Init, EngineTheorems!Lifecycle!Init,
       Engine!EntryStatus, EngineTheorems!EntryStatus, Engine!StatusOf,
       EngineTheorems!StatusOf, Engine!Ticket, EngineTheorems!Ticket
  <1>2. [EngineTheorems!Lifecycle!Next]_(EngineTheorems!EntryStatus)
           => [Engine!Lifecycle!Next]_(Engine!EntryStatus)
    BY Zenon DEF Engine!Lifecycle!Next, EngineTheorems!Lifecycle!Next,
       Engine!Lifecycle!Moves, EngineTheorems!Lifecycle!Moves,
       Engine!Lifecycle!Enqueued, EngineTheorems!Lifecycle!Enqueued,
       Engine!Lifecycle!Started, EngineTheorems!Lifecycle!Started,
       Engine!Lifecycle!Ended, EngineTheorems!Lifecycle!Ended,
       Engine!Lifecycle!Retried, EngineTheorems!Lifecycle!Retried,
       Engine!Lifecycle!GivenUp, EngineTheorems!Lifecycle!GivenUp,
       Engine!Lifecycle!Pending, EngineTheorems!Lifecycle!Pending,
       Engine!EntryStatus, EngineTheorems!EntryStatus, Engine!StatusOf,
       EngineTheorems!StatusOf, Engine!Ticket, EngineTheorems!Ticket
  <1>3. EngineTheorems!Spec => EngineTheorems!ActionsFollowLifecycle
    BY EngineReady, EngineTheorems!ImplementsLifecycle
  <1> QED
    BY <1>1, <1>2, <1>3, RobotUsesEngine, SameEngine, PTL
       DEF Engine!ActionsFollowLifecycle, EngineTheorems!ActionsFollowLifecycle,
           Engine!Lifecycle!Spec, EngineTheorems!Lifecycle!Spec

-----------------------------------------------------------------------------
(* The order state under the goroutines.                                    *)

\* What may happen to the order state in one step.
StateStep ==
    \/ UNCHANGED state
    \/ \E o \in OrderMessages : \E pos :
          Rejection(state, o, pos) = "" /\ state' = Accepted(state, o)
    \/ state' = Cancelled(state)
    \/ state' = Arrived(state, position)
    \/ \E on \in BOOLEAN : state' = Paused(state, on)

LEMMA StateSteps == ASSUME RouterTyped, [Next]_vars PROVE StateStep
  <1>1. CASE AcceptsOrder
    <2>1. /\ Rejection(state, router.order, router.pos) = ""
          /\ state' = Accepted(state, router.order) /\ router.order \in OrderMessages
      BY <1>1 DEF AcceptsOrder, Rejected, AcceptOrder, RouterTyped
    <2> QED
      BY <2>1 DEF StateStep
  <1>2. CASE CancelOrder
    BY <1>2 DEF CancelOrder, StateStep
  <1>3. CASE StartPause \/ StopPause
    BY <1>3 DEF StartPause, StopPause, StateStep
  <1>4. CASE RecordArrival
    BY <1>4 DEF RecordArrival, StateStep
  <1>5. ASSUME Next, ~AcceptsOrder, ~CancelOrder, ~StartPause, ~StopPause,
               ~RecordArrival
        PROVE  UNCHANGED state
    BY <1>5 DEF Next, RouterStep, InstantAction, RunStep, EngineStep,
       ReceiveOrder, RejectOrder, StartSimulator, ExtendSimulator,
       SignalSimulator, CancelExtends, CancelSignals, Retry, SkipRetry,
       FailInstant, RunLooks, ReadPaused, AskEngine, RunSteps, EnqueueActions,
       AdvanceQueue, CompareStates, Elapse
  <1> QED
    BY <1>1, <1>2, <1>3, <1>4, <1>5 DEF vars, StateStep

\* What an accepted message changes: the order, or its update.
LEMMA AcceptedChanges ==
    ASSUME OrderTyped, NEW o \in OrderMessages, NEW pos,
           Rejection(state, o, pos) = ""
    PROVE  \/ Accepted(state, o).orderId # state.orderId
           \/ Accepted(state, o).orderUpdateId > state.orderUpdateId
                 /\ ~state.cancelled
  <1>1. DOMAIN state = Fields /\ state.orderUpdateId \in Int
    BY DEF OrderTyped, Typed, OrderShape
  <1>2. o.orderUpdateId \in Int
    BY RobotAssumption DEF RobotAssumption, MessagesTyped
  <1>3. CASE IsNew(state, o)
    BY <1>1, <1>3 DEF Accepted, IsNew, Fields
  <1>4. CASE ~IsNew(state, o)
    <2>1. Accepted(state, o).orderUpdateId = o.orderUpdateId
      BY <1>1, <1>4 DEF Accepted, Fields
    <2>2. o.orderUpdateId > state.orderUpdateId /\ ~state.cancelled
      BY <1>1, <1>2, <1>4 DEF Rejection, UpdateError
    <2> QED
      BY <2>1, <2>2
  <1> QED
    BY <1>3, <1>4

\* What the other writers leave alone.
OtherChange ==
    /\ state'.orderUpdateId = state.orderUpdateId
    /\ state'.decisionSequenceId = state.decisionSequenceId
    /\ state'.cancelled \in {state.cancelled, TRUE}
    /\ state'.cancelled \/ UNCHANGED <<state.nodes, state.edges>>

LEMMA OtherChanges ==
    ASSUME OrderTyped,
           \/ state' = Cancelled(state)
           \/ state' = Arrived(state, position)
           \/ \E on \in BOOLEAN : state' = Paused(state, on)
    PROVE  OtherChange
  <1>1. DOMAIN state = Fields
    BY ShapeOfTyped DEF OrderTyped
  <1>2. CASE state' = Cancelled(state)
    BY <1>1, <1>2 DEF Cancelled, Fields, OtherChange
  <1>3. CASE state' = Arrived(state, position)
    BY <1>1, <1>3 DEF Arrived, Fields, OtherChange
  <1>4. CASE \E on \in BOOLEAN : state' = Paused(state, on)
    BY <1>1, <1>4 DEF Paused, Fields, OtherChange
  <1> QED
    BY <1>2, <1>3, <1>4

LEMMA StateChanges ==
    ASSUME AllTypes, [Next]_vars
    PROVE  \/ UNCHANGED state
           \/ state'.orderId # state.orderId
           \/ state'.orderUpdateId > state.orderUpdateId /\ ~state.cancelled
           \/ OtherChange
  <1>1. StateStep
    BY StateSteps DEF AllTypes
  <1> QED
    BY <1>1, AcceptedChanges, OtherChanges DEF StateStep, AllTypes

\* Whatever the goroutines do between the steps of onOrderMessage, the slices
\* that stitch shares with the simulator included, the chain and the decision
\* point of an order change only by a newer update or by a cancelOrder.
THEOREM RobotOnlyNewerUpdates == Spec => OS!OnlyNewerUpdatesChange
  <1> DEFINE Same == UNCHANGED <<state.nodes, state.edges>>
             Change ==
                state'.orderId = state.orderId =>
                   \/ state'.orderUpdateId > state.orderUpdateId
                   \/ /\ state'.orderUpdateId = state.orderUpdateId
                      /\ state'.decisionSequenceId = state.decisionSequenceId
                      /\ Same \/ state'.cancelled
  <1>1. AllTypes /\ [Next]_vars => [Change]_state
    BY StateChanges DEF OtherChange
  <1> QED
    BY <1>1, AllTypesCorrect, PTL DEF Spec, OS!OnlyNewerUpdatesChange

\* A robot that has cancelled its order takes no update of it any more, though
\* one may have been validated before the cancelOrder and wait for robot.mu.
THEOREM RobotCancelCloses == Spec => OS!CancelledIsClosed
  <1>1. AllTypes /\ [Next]_vars =>
           [state.cancelled /\ state'.orderId = state.orderId =>
               state'.cancelled
                  /\ state'.orderUpdateId = state.orderUpdateId]_state
    BY StateChanges DEF OtherChange
  <1> QED
    BY <1>1, AllTypesCorrect, PTL DEF Spec, OS!CancelledIsClosed

-----------------------------------------------------------------------------
(* A robot on one trip never runs out of its slices.                        *)

\* On such a trip nothing takes a released edge away.
OnReleased ==
    /\ pc # "crashed"
    /\ pc \in {"ticking", "gate", "stepping"} => Sim!CanDrive
    /\ pc = "arrived" =>
          edgeIdx - 1 \in DOMAIN simEdges /\ simEdges[edgeIdx - 1].released

LEMMA OnReleasedStays ==
    ASSUME OnReleased, UNCHANGED <<pc, simEdges, edgeIdx>> PROVE OnReleased'
  BY DEF OnReleased, Sim!CanDrive

LEMMA OnReleasedRun ==
    ASSUME SingleTrip, Trip, OnReleased, RunStep PROVE OnReleased'
  <1>1. CASE RunLooks
    BY <1>1 DEF RunLooks, Sim!Check, Sim!ReceiveWake, Sim!CanDrive, OnReleased
  <1>2. CASE ReadPaused \/ AskEngine
    BY <1>2 DEF ReadPaused, AskEngine, Sim!Tick, Sim!Gate, Sim!CanDrive, OnReleased
  <1>3. CASE RecordArrival
    BY <1>3, OnReleasedStays DEF RecordArrival, simVars
  <1>4. CASE EnqueueActions
    BY <1>4 DEF EnqueueActions, Sim!OnTick, OnReleased
  <1>5. CASE RunSteps
    <2>1. pc = "stepping" /\ Sim!CanDrive /\ simEdges' = simEdges
      BY <1>5 DEF RunSteps, Sim!Step, OnReleased
    <2>2. PICK o \in OrderMessages : Underway(o)
      BY <2>1 DEF Trip, NotSent, Sent
    <2>3. Sim!InRange
      <3>1. PICK nodes, edges, i : nodes = o.nodes /\ edges = o.edges /\ i = edgeIdx
        OBVIOUS
      <3>2. Len(nodes) = Len(edges) + 1 /\ Len(nodes) \in Nat /\ Len(edges) \in Nat
            /\ DOMAIN nodes = 1..Len(nodes) /\ DOMAIN edges = 1..Len(edges)
        <4>1. /\ nodes \in Seq(Elements(nodes)) /\ edges \in Seq(Elements(edges))
              /\ Paired(nodes, edges)
          BY <3>1 DEF SingleTrip, WellFormed
        <4> QED
          BY <4>1 DEF Paired
      <3>3. i \in DOMAIN edges
        BY <2>1, <2>2, <3>1 DEF Sim!CanDrive, Underway
      <3>4. i + 1 \in DOMAIN nodes
        BY <3>2, <3>3
      <3> QED
        BY <2>2, <3>1, <3>3, <3>4 DEF Sim!InRange, Underway
    <2>4. \/ edgeIdx' = edgeIdx + 1 /\ pc' \in {"check", "arrived"}
          \/ pc' = "check"
      BY <1>5, <2>3 DEF RunSteps, Sim!Step, Sim!Arrive, Sim!Move
    <2>5. edgeIdx' = edgeIdx + 1 => edgeIdx' - 1 = edgeIdx
      <3>1. edgeIdx \in Int
        <4>1. edgeIdx \in DOMAIN o.nodes
          BY <2>2 DEF Underway
        <4> QED
          BY <4>1, CountsOfTrip DEF Counts
      <3> QED
        BY <3>1
    <2>6. pc' = "arrived" => edgeIdx' - 1 = edgeIdx
      BY <2>4, <2>5
    <2>7. pc' \in {"check", "arrived"}
      BY <2>4
    <2> QED
      BY <2>1, <2>6, <2>7 DEF OnReleased, Sim!CanDrive
  <1> QED
    BY <1>1, <1>2, <1>3, <1>4, <1>5 DEF RunStep

LEMMA OnReleasedRouter ==
    ASSUME SingleTrip, AllTypes, Trip, OnReleased, RouterStep PROVE OnReleased'
  <1>1. CASE RejectOrder
    BY <1>1, OnReleasedStays DEF RejectOrder, simVars
  <1>2. CASE AcceptsOrder
    <2>1. Trip' /\ router'.at = "extend"
      BY <1>2, TripRouter DEF RouterStep, AcceptsOrder, Idle
    <2>2. pc' = "off"
      BY <2>1 DEF Trip, NotSent, Sent, Underway
    <2> QED
      BY <2>2 DEF OnReleased
  <1>3. CASE StartSimulator
    BY <1>3 DEF StartSimulator, Sim!Create, OnReleased
  <1>4. ~ExtendSimulator /\ ~SignalSimulator /\ ~CancelExtends /\ ~CancelSignals
    BY DEF ExtendSimulator, SignalSimulator, CancelExtends, CancelSignals,
       Sim!SetChain, Trip, NotSent, Sent, Underway
  <1> QED
    BY <1>1, <1>2, <1>3, <1>4 DEF RouterStep

\* The order that waits for robot.mu was validated, and the first one found
\* the robot where it was switched on.
Received ==
    router.at = "accept" =>
       ValidateOrder(router.order) /\ (pc = "off" => router.pos = Home)

LEMMA ReceivedStep == ASSUME Received, [Next]_vars PROVE Received'
  <1>1. ASSUME NEW o \in OrderMessages, ReceiveOrder(o) PROVE Received'
    BY <1>1 DEF ReceiveOrder, simVars, Received
  <1>2. CASE RouterStep \/ CancelOrder
    <2>1. router'.at # "accept"
      BY <1>2 DEF RouterStep, RejectOrder, AcceptsOrder, StartSimulator,
         ExtendSimulator, SignalSimulator, CancelExtends, CancelSignals,
         CancelOrder, Idle
    <2> QED
      BY <2>1 DEF Received
  <1>3. ASSUME ~RouterStep, ~CancelOrder,
               ~(\E o \in OrderMessages : ReceiveOrder(o))
        PROVE  UNCHANGED router /\ (pc' = "off" => pc = "off")
    BY <1>3 DEF Next, InstantAction, RunStep, EngineStep, StartPause, StopPause,
       Retry, SkipRetry, FailInstant, RunLooks, ReadPaused, AskEngine, RunSteps,
       RecordArrival, EnqueueActions, AdvanceQueue, CompareStates, Elapse, vars,
       simVars, Sim!Check, Sim!ReceiveWake, Sim!Tick, Sim!Gate, Sim!Step,
       Sim!Arrive, Sim!Move, Sim!OnTick
  <1> QED
    BY <1>1, <1>2, <1>3 DEF Received

TripInv == Trip /\ OnReleased /\ Received

LEMMA TripInvStep ==
    ASSUME SingleTrip, AllTypes, TripInv, [Next]_vars PROVE TripInv'
  <1>1. Trip' /\ Received'
    BY TripStep, ReceivedStep DEF TripInv
  <1>2. CASE RouterStep \/ RunStep
    BY <1>1, <1>2, OnReleasedRouter, OnReleasedRun DEF TripInv
  <1>3. CASE ~RouterStep /\ ~RunStep
    <2>1. UNCHANGED <<simVars, reached>>
      BY <1>3, QuietSteps DEF SingleTrip
    <2> QED
      BY <1>1, <2>1, OnReleasedStays DEF simVars, TripInv
  <1> QED
    BY <1>2, <1>3

LEMMA TripInvCorrect == ASSUME SingleTrip PROVE Spec => []TripInv
  <1>1. Init => OnReleased /\ Received
    BY DEF Init, Sim!Init, Idle, OnReleased, Received
  <1>2. AllTypes /\ TripInv /\ [Next]_vars => TripInv'
    BY TripInvStep
  <1>3. Init /\ Trip => TripInv
    BY <1>1 DEF TripInv
  <1> QED
    BY <1>2, <1>3, AllTypesCorrect, TripCorrect, PTL DEF Spec

\* On one trip without a cancel, step never indexes out of the slices: what
\* crashes the robot is only an update or a cancelOrder that takes away the edge
\* it drives.  However often the order is sent again, Run drives on.
THEOREM RobotDrivesOn == ASSUME SingleTrip PROVE Spec => []RunsForever
  <1>1. TripInv => RunsForever
    BY DEF TripInv, OnReleased, RunsForever
  <1> QED
    BY <1>1, TripInvCorrect, PTL

-----------------------------------------------------------------------------
(* It implements the order state, and with it the base protocol.            *)

LEMMA SameAccept ==
    \A s, o, pos : OS!AcceptOrder(s, o, pos) = AcceptOrder(s, o, pos)
  <1>1. ASSUME NEW s, NEW o, NEW pos
        PROVE  OS!Rejection(s, o, pos) = Rejection(s, o, pos)
    BY Zenon DEF Rejection, OS!Rejection, IsNew, OS!IsNew,
       NewOrderError, OS!NewOrderError, UpdateError, OS!UpdateError,
       ContinuesFromDecision, OS!ContinuesFromDecision, IsIdle,
       OS!IsIdle, HasHorizon, OS!HasHorizon, StartNodeInRange,
       OS!StartNodeInRange, Elements, OS!Elements, NoOrder, OS!NoOrder
  <1>2. \A s, Keep : OS!Filter(s, Keep) = Filter(s, Keep)
    BY Zenon DEF Filter, OS!Filter
  <1>3. ASSUME NEW s
        PROVE  OS!KeptNodes(s) = KeptNodes(s) /\ OS!KeptEdges(s) = KeptEdges(s)
    BY <1>2, Zenon DEF KeptNodes, OS!KeptNodes, KeptEdges, OS!KeptEdges,
       Elements, OS!Elements
  <1>4. ASSUME NEW o PROVE OS!DecisionPoint(o) = DecisionPoint(o)
    BY Zenon DEF DecisionPoint, OS!DecisionPoint, ReleasedPrefix,
       OS!ReleasedPrefix, Elements, OS!Elements, NoNode, OS!NoNode
  <1>5. ASSUME NEW s, NEW o PROVE OS!Accepted(s, o) = Accepted(s, o)
    BY <1>3, <1>4, Zenon DEF Accepted, OS!Accepted, IsNew, OS!IsNew
  <1> QED
    BY <1>1, <1>5, Zenon DEF AcceptOrder, OS!AcceptOrder

LEMMA SameValidate == \A o : OS!ValidateOrder(o) <=> ValidateOrder(o)
  BY Zenon DEF ValidateOrder, OS!ValidateOrder, SortedSequences,
     OS!SortedSequences, Sorted, OS!Sorted, Rank, OS!Rank, Together,
     OS!Together, SequenceIdsFit, OS!SequenceIdsFit, ReleasedFirst,
     OS!ReleasedFirst, Alternates, OS!Alternates, EdgesJoin,
     OS!EdgesJoin, Cardinality, OS!Cardinality

LEMMA SameArrived == \A s, place : OS!Arrived(s, place) = Arrived(s, place)
  BY Zenon DEF Arrived, OS!Arrived, SequenceIdFor, OS!SequenceIdFor,
     KnowsNode, OS!KnowsNode, FirstIndex, OS!FirstIndex, Elements,
     OS!Elements

LEMMA SamePaused == \A s, on : OS!Paused(s, on) = Paused(s, on)
  BY Zenon DEF Paused, OS!Paused

\* The next node of the base, behind an edge of it.
LEMMA ArrivesNext ==
    ASSUME SingleTrip, AllTypes, TripInv, RecordArrival PROVE OS!Arrive
  <1>1. /\ pc = "arrived" /\ reached = {} /\ state' = Arrived(state, position)
    BY DEF RecordArrival
  <1>2. PICK o \in OrderMessages : Underway(o)
    BY <1>1 DEF TripInv, Trip, NotSent, Sent
  <1>3. PICK nodes, edges, k : nodes = o.nodes /\ edges = o.edges /\ k = edgeIdx
    OBVIOUS
  <1>4. /\ state.nodes = nodes /\ state.edges = edges
        /\ k \in DOMAIN nodes /\ k - 1 \in DOMAIN nodes /\ k - 1 \in DOMAIN edges
        /\ edges[k-1].released
        /\ state.lastNodeSequenceId = nodes[k-1].sequenceId
        /\ position = nodes[k].nodeId
    BY <1>1, <1>2, <1>3
       DEF Underway, Holds, LastAt, Recorded, TripInv, OnReleased
  <1>5. Counts(nodes, edges) /\ Paired(nodes, edges)
        /\ \E r \in DOMAIN nodes : ReleasedUpTo(nodes, edges, r)
    BY <1>3, CountsOfTrip DEF SingleTrip, WellFormed
  <1>6. PICK here, there, over : /\ here = nodes[k-1].sequenceId
                                  /\ there = nodes[k].sequenceId
                                  /\ over = edges[k-1].sequenceId
    OBVIOUS
  <1>7. there = here + 2 /\ over = here + 1
    <2>1. k \in 1..Len(nodes) /\ k - 1 \in 1..Len(nodes) /\ k - 1 + 1 = k
      BY <1>4, <1>5 DEF Counts
    <2>2. over = here + 1 /\ there = over + 1
      BY <1>4, <1>5, <1>6, <2>1 DEF Paired
    <2>3. here \in Int
      BY <1>4, <1>6 DEF AllTypes, OrderTyped, Typed
    <2> QED
      BY <2>2, <2>3
  <1>8. nodes[k].released
    <2>1. PICK r \in DOMAIN nodes : ReleasedUpTo(nodes, edges, r)
      BY <1>5
    <2>2. k - 1 < r /\ (nodes[k].released <=> k <= r)
      BY <1>4, <2>1 DEF ReleasedUpTo
    <2>3. k \in Int /\ r \in Int
      BY <1>4, <1>5 DEF Counts
    <2> QED
      BY <2>2, <2>3
  <1>9. OS!IsNextNode(nodes[k])
    <2>1. edges[k-1] \in OS!Elements(edges)
      BY <1>4 DEF OS!Elements
    <2> QED
      BY <1>4, <1>6, <1>7, <1>8, <2>1 DEF OS!IsNextNode
  <1>10. nodes[k] \in OS!Elements(nodes)
    BY <1>4 DEF OS!Elements
  <1> QED
    BY <1>1, <1>4, <1>9, <1>10, SameArrived DEF OS!Arrive

\* The first message is received where the robot was switched on.
LEMMA AcceptsFirst ==
    ASSUME SingleTrip, AllTypes, TripInv, AcceptsOrder
    PROVE  \E o \in OrderMessages, pos \in OS!Positions : OS!ReceiveOrder(o, pos)
  <1>1. /\ router.at = "accept" /\ router.order \in OrderMessages
        /\ state' = AcceptOrder(state, router.order, router.pos)
        /\ router'.at = "extend" /\ pc' = pc
    BY DEF AcceptsOrder, AllTypes, RouterTyped, Idle
  <1>2. NotSent
    <2>1. pc = "off"
      <3>1. Trip'
        BY TripRouter DEF RouterStep, TripInv
      <3> QED
        BY <1>1, <3>1 DEF Trip, NotSent, Sent, Underway
    <2> QED
      BY <1>1, <2>1 DEF TripInv, Trip, Sent, Underway
  <1>3. ValidateOrder(router.order) /\ router.pos = Home
    BY <1>1, <1>2 DEF TripInv, Received, NotSent
  <1>4. Home \in OS!Positions
    BY <1>2 DEF NotSent, OS!Positions, OS!NoOrder, NoOrder
  <1>5. OS!ReceiveOrder(router.order, router.pos)
    BY <1>1, <1>3, SameAccept, SameValidate DEF OS!ReceiveOrder
  <1> QED
    BY <1>1, <1>3, <1>4, <1>5

LEMMA OrderStateSteps ==
    ASSUME SingleTrip, AllTypes, TripInv, [Next]_vars PROVE [OS!Next]_state
  <1>1. CASE AcceptsOrder
    BY <1>1, AcceptsFirst DEF OS!Next
  <1>2. CASE RecordArrival
    BY <1>2, ArrivesNext DEF OS!Next
  <1>3. CASE StartPause \/ StopPause
    BY <1>3, SamePaused
       DEF StartPause, StopPause, OS!StartPause, OS!StopPause, OS!Next
  <1>4. ~CancelOrder
    BY DEF SingleTrip, CancelOrder, Report
  <1>5. ASSUME Next, ~AcceptsOrder, ~CancelOrder, ~StartPause, ~StopPause,
               ~RecordArrival
        PROVE  UNCHANGED state
    BY <1>5 DEF Next, RouterStep, InstantAction, RunStep, EngineStep,
       ReceiveOrder, RejectOrder, StartSimulator, ExtendSimulator,
       SignalSimulator, CancelExtends, CancelSignals, Retry, SkipRetry,
       FailInstant, RunLooks, ReadPaused, AskEngine, RunSteps, EnqueueActions,
       AdvanceQueue, CompareStates, Elapse
  <1> QED
    BY <1>1, <1>2, <1>3, <1>4, <1>5 DEF vars

\* On one trip the robot, with the four goroutines that read and write the
\* order state under robot.mu, implements OrderState: an order is accepted where
\* the robot was switched on, and an arrival is one at the next node of the base.
THEOREM RobotImplementsOrderState == ASSUME SingleTrip PROVE Spec => OS!Spec
  <1>1. Init => OS!Init
    BY DEF Init
  <1>2. AllTypes /\ TripInv /\ [Next]_vars => [OS!Next]_state
    BY OrderStateSteps
  <1> QED
    BY <1>1, <1>2, AllTypesCorrect, TripInvCorrect, PTL DEF Spec, OS!Spec

OrderTheorems == INSTANCE OrderStateProofs

LEMMA OrderReady ==
    ASSUME SingleTrip
    PROVE  /\ OrderTheorems!MessageAssumption
           /\ OrderTheorems!MessagesWellFormed /\ OrderTheorems!PlacesOnce
  <1>1. OrderTheorems!MessageAssumption
    BY RobotAssumption, Zenon DEF RobotAssumption, MessagesTyped, Elements,
       OrderTheorems!MessageAssumption, OrderTheorems!MessagesTyped,
       OrderTheorems!Elements
  <1>2. OrderTheorems!MessagesWellFormed
    BY Zenon DEF SingleTrip, WellFormed, Paired, ReleasedUpTo, Elements, NoOrder,
       OrderTheorems!MessagesWellFormed, OrderTheorems!WellFormed,
       OrderTheorems!Paired, OrderTheorems!ReleasedUpTo, OrderTheorems!Elements,
       OrderTheorems!NoOrder
  <1>3. OrderTheorems!PlacesOnce
    BY DEF SingleTrip, Elements, OrderTheorems!PlacesOnce, OrderTheorems!Elements
  <1> QED
    BY <1>1, <1>2, <1>3

LEMMA SameOrderState == OS!Spec <=> OrderTheorems!Spec
  <1>1. \A s, o, pos : OS!Rejection(s, o, pos) = OrderTheorems!Rejection(s, o, pos)
    BY Zenon DEF OS!Rejection, OrderTheorems!Rejection, OS!IsNew,
       OrderTheorems!IsNew, OS!NewOrderError,
       OrderTheorems!NewOrderError, OS!UpdateError,
       OrderTheorems!UpdateError, OS!ContinuesFromDecision,
       OrderTheorems!ContinuesFromDecision, OS!IsIdle,
       OrderTheorems!IsIdle, OS!HasHorizon, OrderTheorems!HasHorizon,
       OS!StartNodeInRange, OrderTheorems!StartNodeInRange, OS!Elements,
       OrderTheorems!Elements, OS!NoOrder, OrderTheorems!NoOrder
  <1>2. \A s, Keep : OS!Filter(s, Keep) = OrderTheorems!Filter(s, Keep)
    BY Zenon DEF OS!Filter, OrderTheorems!Filter
  <1>3. \A s : /\ OS!KeptNodes(s) = OrderTheorems!KeptNodes(s)
              /\ OS!KeptEdges(s) = OrderTheorems!KeptEdges(s)
    BY <1>2, Zenon DEF OS!KeptNodes, OrderTheorems!KeptNodes,
       OS!KeptEdges, OrderTheorems!KeptEdges, OS!Elements,
       OrderTheorems!Elements
  <1>4. \A o : OS!DecisionPoint(o) = OrderTheorems!DecisionPoint(o)
    BY Zenon DEF OS!DecisionPoint, OrderTheorems!DecisionPoint,
       OS!ReleasedPrefix, OrderTheorems!ReleasedPrefix, OS!Elements,
       OrderTheorems!Elements, OS!NoNode, OrderTheorems!NoNode
  <1>5. \A s, o : OS!Accepted(s, o) = OrderTheorems!Accepted(s, o)
    BY <1>3, <1>4, Zenon DEF OS!Accepted, OrderTheorems!Accepted,
       OS!IsNew, OrderTheorems!IsNew
  <1>6. \A s, o, pos : OS!AcceptOrder(s, o, pos)
                         = OrderTheorems!AcceptOrder(s, o, pos)
    BY <1>1, <1>5, Zenon DEF OS!AcceptOrder, OrderTheorems!AcceptOrder
  <1>7. \A o : OS!ValidateOrder(o) <=> OrderTheorems!ValidateOrder(o)
    BY Zenon DEF OS!ValidateOrder, OrderTheorems!ValidateOrder,
       OS!SortedSequences, OrderTheorems!SortedSequences, OS!Sorted,
       OrderTheorems!Sorted, OS!Rank, OrderTheorems!Rank, OS!Together,
       OrderTheorems!Together, OS!SequenceIdsFit,
       OrderTheorems!SequenceIdsFit, OS!ReleasedFirst,
       OrderTheorems!ReleasedFirst, OS!Alternates,
       OrderTheorems!Alternates, OS!EdgesJoin, OrderTheorems!EdgesJoin,
       OS!Cardinality, OrderTheorems!Cardinality
  <1>8. (\E o \in OrderMessages, pos \in OS!Positions : OS!ReceiveOrder(o, pos))
           <=> \E o \in OrderMessages, pos \in OrderTheorems!Positions :
                  OrderTheorems!ReceiveOrder(o, pos)
    BY <1>6, <1>7, Zenon DEF OS!ReceiveOrder,
       OrderTheorems!ReceiveOrder, OS!Positions,
       OrderTheorems!Positions, OS!NoOrder, OrderTheorems!NoOrder,
       OS!Between, OrderTheorems!Between
  <1>9. OS!Arrive <=> OrderTheorems!Arrive
    BY Zenon DEF OS!Arrive, OrderTheorems!Arrive, OS!IsNextNode,
       OrderTheorems!IsNextNode, OS!Arrived, OrderTheorems!Arrived,
       OS!SequenceIdFor, OrderTheorems!SequenceIdFor, OS!KnowsNode,
       OrderTheorems!KnowsNode, OS!FirstIndex, OrderTheorems!FirstIndex,
       OS!Elements, OrderTheorems!Elements
  <1>10. OS!CancelOrder <=> OrderTheorems!CancelOrder
    BY <1>2, Zenon DEF OS!CancelOrder, OrderTheorems!CancelOrder,
       OS!Cancelled, OrderTheorems!Cancelled, OS!Elements,
       OrderTheorems!Elements
  <1>11. /\ OS!StartPause <=> OrderTheorems!StartPause
         /\ OS!StopPause <=> OrderTheorems!StopPause
    BY Zenon DEF OS!StartPause, OrderTheorems!StartPause, OS!StopPause,
       OrderTheorems!StopPause, OS!Paused, OrderTheorems!Paused
  <1>12. [OS!Next]_state <=> [OrderTheorems!Next]_state
    BY <1>8, <1>9, <1>10, <1>11, Zenon DEF OS!Next, OrderTheorems!Next
  <1>13. OS!Init <=> OrderTheorems!Init
    BY Zenon DEF OS!Init, OrderTheorems!Init, OS!NoState,
       OrderTheorems!NoState, OS!NoOrder, OrderTheorems!NoOrder,
       OS!NoNode, OrderTheorems!NoNode
  <1> QED
    BY <1>12, <1>13, PTL DEF OS!Spec, OrderTheorems!Spec

LEMMA SameBase ==
    OrderTheorems!KeepsBaseProtocol <=> OS!KeepsBaseProtocol
  <1>1. OrderTheorems!BaseAhead = OS!BaseAhead
    BY Zenon DEF OS!BaseAhead, OrderTheorems!BaseAhead, OS!Elements,
       OrderTheorems!Elements
  <1>2. OrderTheorems!Base!Init <=> OS!Base!Init
    BY <1>1, Zenon DEF OS!Base!Init, OrderTheorems!Base!Init,
       OS!Base!Steps, OrderTheorems!Base!Steps, OS!NoOrder,
       OrderTheorems!NoOrder
  <1> DEFINE theirs == <<state.orderId, state.orderUpdateId, state.cancelled,
                         OrderTheorems!BaseAhead>>
             ours == <<state.orderId, state.orderUpdateId, state.cancelled,
                       OS!BaseAhead>>
  <1>3. [OrderTheorems!Base!Next]_theirs <=> [OS!Base!Next]_ours
    BY Zenon DEF OS!Base!Next, OrderTheorems!Base!Next,
       OS!Base!NewOrder, OrderTheorems!Base!NewOrder, OS!Base!Extend,
       OrderTheorems!Base!Extend, OS!Base!Move, OrderTheorems!Base!Move,
       OS!Base!Cancel, OrderTheorems!Base!Cancel, OS!Base!Ends,
       OrderTheorems!Base!Ends, OS!Base!Steps, OrderTheorems!Base!Steps,
       OS!Base!First, OrderTheorems!Base!First, OS!Base!Restrict,
       OrderTheorems!Base!Restrict, OS!Base!Cardinality,
       OrderTheorems!Base!Cardinality, OS!BaseAhead,
       OrderTheorems!BaseAhead, OS!Elements, OrderTheorems!Elements,
       OS!NoOrder, OrderTheorems!NoOrder
  <1> QED
    BY <1>2, <1>3, PTL DEF OrderTheorems!KeepsBaseProtocol, OS!KeepsBaseProtocol,
       OrderTheorems!Base!Spec, OS!Base!Spec

\* Hence, on one trip, the goroutines of the robot together keep what VDA 5050
\* promises of the base: it is never given back and is driven in its order.
THEOREM RobotKeepsBaseProtocol ==
    ASSUME SingleTrip PROVE Spec => OS!KeepsBaseProtocol
  <1>1. OrderTheorems!Spec => OrderTheorems!KeepsBaseProtocol
    BY OrderReady, OrderTheorems!ImplementsBaseProtocol
  <1> QED
    BY <1>1, SameOrderState, SameBase, RobotImplementsOrderState, PTL

=============================================================================

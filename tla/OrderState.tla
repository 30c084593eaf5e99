----------------------------- MODULE OrderState -----------------------------
(***************************************************************************)
(* The order state of the robot (robot/order_state.go) and everything that *)
(* writes to it: onOrder, onTick, and the instant actions cancelOrder,     *)
(* startPause and stopPause.  robot.mu makes each of them one step.        *)
(*                                                                         *)
(* This module takes the simulator at its word: it drives the released     *)
(* nodes in the order of their sequenceIds.  Module Robot puts the real    *)
(* simulator beside the order state.                                       *)
(***************************************************************************)
EXTENDS Orders

CONSTANTS
    OrderMessages,  \* the orders that may arrive, as often and as late as the
                    \* channel likes
    Home            \* the place where the robot is switched on

ASSUME MessageAssumption == MessagesTyped(OrderMessages)

\* What the theorems about the chain take for granted of fleet control: it
\* builds its messages in the order of the journey,
MessagesWellFormed == \A o \in OrderMessages : WellFormed(o)

\* and within an order it visits a place only once.
PlacesOnce ==
    \A o, p \in OrderMessages : o.orderId = p.orderId =>
       \A n \in Elements(o.nodes), m \in Elements(p.nodes) :
          n.nodeId = m.nodeId => n.sequenceId = m.sequenceId

VARIABLE state      \* robot.state

Init == state = NoState

\* Where the robot may be: not moved yet, at its last node, or under way.
Positions ==
    IF state.orderId = NoOrder THEN {Home} ELSE {state.lastNodeId, Between}

\* onOrder: validate, then AcceptOrder.
ReceiveOrder(o, pos) ==
    /\ ValidateOrder(o)
    /\ state' = AcceptOrder(state, o, pos)

\* The released node one step ahead, behind a released edge.
IsNextNode(n) ==
    /\ n.released /\ n.sequenceId = state.lastNodeSequenceId + 2
    /\ \E e \in Elements(state.edges) :
          e.released /\ e.sequenceId = state.lastNodeSequenceId + 1

\* onTick with an arrivedNodeId.
Arrive == \E n \in Elements(state.nodes) :
    /\ IsNextNode(n)
    /\ state' = Arrived(state, n.nodeId)

CancelOrder == state' = Cancelled(state)

StartPause == state' = Paused(state, TRUE)

StopPause == state' = Paused(state, FALSE)

Next ==
    \/ \E o \in OrderMessages, pos \in Positions : ReceiveOrder(o, pos)
    \/ Arrive
    \/ CancelOrder
    \/ StartPause
    \/ StopPause

Spec == Init /\ [][Next]_state

-----------------------------------------------------------------------------

\* The part of the type that the theorems need.
Shape == DOMAIN state = Fields /\ state.orderUpdateId \in Int

TypeOK ==
    /\ Shape
    /\ state.orderId \in {NoOrder} \union {o.orderId : o \in OrderMessages}
    /\ state.cancelled \in BOOLEAN /\ state.paused \in BOOLEAN
    /\ state.lastNodeSequenceId \in Int /\ state.decisionSequenceId \in Int
    /\ Elements(state.nodes) \subseteq
          UNION {Elements(o.nodes) : o \in OrderMessages}
    /\ Elements(state.edges) \subseteq
          UNION {Elements(o.edges) : o \in OrderMessages}

\* Stitching an update onto what is kept, wherever the robot is on the base
\* and however the horizon changed, leaves a chain the simulator can drive.
ChainPaired == state.nodes # <<>> => Paired(state.nodes, state.edges)

\* The decision point is where the released part of the stitched chain ends,
\* although accept computes it from the update alone: the next update that
\* fleet control sends to it can be stitched.
DecisionEndsBase ==
    state.orderId # NoOrder /\ ~state.cancelled =>
       \E n \in Elements(state.nodes) :
          /\ n.nodeId = state.decisionNodeId
          /\ n.sequenceId = state.decisionSequenceId
          /\ \A m \in Elements(state.nodes) :
                m.released <=> m.sequenceId <= n.sequenceId

\* A repeated, late or reordered message changes nothing: within an order the
\* chain changes only by a newer update, or shrinks by a cancelOrder.
OnlyNewerUpdatesChange ==
    [][state'.orderId = state.orderId =>
          \/ state'.orderUpdateId > state.orderUpdateId
          \/ /\ state'.orderUpdateId = state.orderUpdateId
             /\ state'.decisionSequenceId = state.decisionSequenceId
             /\ \/ UNCHANGED <<state.nodes, state.edges>>
                \/ state'.cancelled]_state

\* After cancelOrder the order takes no update any more.
CancelledIsClosed ==
    [][state.cancelled /\ state'.orderId = state.orderId =>
          state'.cancelled /\ state'.orderUpdateId = state.orderUpdateId]_state

\* The order state keeps the promise of BaseProtocol.
BaseAhead ==
    LET ahead == {n \in Elements(state.nodes) :
                     n.released /\ n.sequenceId >= state.lastNodeSequenceId}
    IN  [q \in {n.sequenceId : n \in ahead} |->
            (CHOOSE n \in ahead : n.sequenceId = q).nodeId]

Base == INSTANCE BaseProtocol WITH
    order <- state.orderId, update <- state.orderUpdateId,
    cancelled <- state.cancelled, base <- BaseAhead

KeepsBaseProtocol == Base!Spec

=============================================================================

-------------------------- MODULE OrderStateProofs --------------------------
(***************************************************************************)
(* Theorems about OrderState, in every order of arrival of the messages and *)
(* any number of times.                                                    *)
(***************************************************************************)
EXTENDS OrderState, OrdersProofs

-----------------------------------------------------------------------------
(* For every set of order messages, well-formed or not.                    *)

\* An accepted message is a new order, or a newer update of an open order.
LEMMA AcceptOrderCases ==
    ASSUME Shape, NEW o \in OrderMessages, NEW pos
    PROVE  LET next == AcceptOrder(state, o, pos)
           IN  \/ next = state
               \/ next.orderId # state.orderId
               \/ /\ next.orderId = state.orderId
                  /\ next.orderUpdateId > state.orderUpdateId
                  /\ ~state.cancelled /\ ~next.cancelled
  <1> DEFINE next == AcceptOrder(state, o, pos)
  <1>1. CASE Rejection(state, o, pos) # ""
    BY <1>1 DEF AcceptOrder
  <1>2. CASE Rejection(state, o, pos) = "" /\ IsNew(state, o)
    <2>1. next = Accepted(state, o)
      BY <1>2 DEF AcceptOrder
    <2>2. next.orderId = o.orderId
      BY <1>2, <2>1 DEF Accepted, Shape, Fields
    <2> QED
      BY <1>2, <2>2 DEF IsNew
  <1>3. CASE Rejection(state, o, pos) = "" /\ ~IsNew(state, o)
    <2>1. next = Accepted(state, o)
      BY <1>3 DEF AcceptOrder
    <2>2. /\ next.orderId = state.orderId
          /\ next.orderUpdateId = o.orderUpdateId
          /\ next.cancelled = state.cancelled
      BY <1>3, <2>1 DEF Accepted, Shape, Fields
    <2>3. /\ ~(o.orderUpdateId < state.orderUpdateId)
          /\ ~state.cancelled
          /\ o.orderUpdateId # state.orderUpdateId
      BY <1>3 DEF Rejection, UpdateError
    <2>4. o.orderUpdateId \in Int /\ state.orderUpdateId \in Int
      BY MessageAssumption DEF MessageAssumption, MessagesTyped, Shape
    <2> QED
      BY <2>2, <2>3, <2>4
  <1> QED
    BY <1>1, <1>2, <1>3

LEMMA AcceptOrderShape ==
    ASSUME Shape, NEW o \in OrderMessages, NEW pos
    PROVE  /\ DOMAIN AcceptOrder(state, o, pos) = Fields
           /\ AcceptOrder(state, o, pos).orderUpdateId \in Int
  <1>1. CASE Rejection(state, o, pos) # ""
    BY <1>1 DEF AcceptOrder, Shape
  <1>2. CASE Rejection(state, o, pos) = ""
    <2>1. AcceptOrder(state, o, pos) = Accepted(state, o)
      BY <1>2 DEF AcceptOrder
    <2>2. o.orderUpdateId \in Int
      BY MessageAssumption DEF MessageAssumption, MessagesTyped
    <2>3. CASE IsNew(state, o)
      BY <2>1, <2>2, <2>3 DEF Accepted, Shape, Fields
    <2>4. CASE ~IsNew(state, o)
      BY <2>1, <2>2, <2>4 DEF Accepted, Shape, Fields
    <2> QED
      BY <2>3, <2>4
  <1> QED
    BY <1>1, <1>2

\* The instant actions and the arrivals leave the order and its update alone.
LEMMA OtherSteps ==
    ASSUME Shape, Arrive \/ CancelOrder \/ StartPause \/ StopPause
    PROVE  /\ Shape'
           /\ state'.orderId = state.orderId
           /\ state'.orderUpdateId = state.orderUpdateId
           /\ state'.decisionSequenceId = state.decisionSequenceId
           /\ state.cancelled => state'.cancelled
           /\ \/ state'.cancelled
              \/ state'.nodes = state.nodes /\ state'.edges = state.edges
  <1>1. CASE Arrive
    BY <1>1 DEF Arrive, Arrived, Shape, Fields
  <1>2. CASE CancelOrder
    BY <1>2 DEF CancelOrder, Cancelled, Shape, Fields
  <1>3. CASE StartPause \/ StopPause
    BY <1>3 DEF StartPause, StopPause, Paused, Shape, Fields
  <1> QED
    BY <1>1, <1>2, <1>3

LEMMA ShapeStep == Shape /\ [Next]_state => Shape'
  <1> SUFFICES ASSUME Shape, [Next]_state PROVE Shape'
    OBVIOUS
  <1>1. ASSUME NEW o \in OrderMessages, NEW pos \in Positions,
               ReceiveOrder(o, pos)
        PROVE  Shape'
    BY <1>1, AcceptOrderShape DEF ReceiveOrder, Shape
  <1>2. CASE Arrive \/ CancelOrder \/ StartPause \/ StopPause
    BY <1>2, OtherSteps
  <1>3. CASE UNCHANGED state
    BY <1>3 DEF Shape
  <1> QED
    BY <1>1, <1>2, <1>3 DEF Next

THEOREM ShapeCorrect == Spec => []Shape
  <1>1. Init => Shape
    BY DEF Init, NoState, Shape, Fields
  <1> QED
    BY <1>1, ShapeStep, PTL DEF Spec

\* The type of the order state, for every set of messages.
THEOREM TypeCorrect == Spec => []TypeOK
  <1> DEFINE HasType == Typed(OrderMessages, state)
  <1>1. Init => HasType
    BY NoStateTyped DEF Init
  <1>2. HasType /\ [Next]_state => HasType'
    <2> SUFFICES ASSUME HasType, [Next]_state PROVE Typed(OrderMessages, state')
      OBVIOUS
    <2>1. ASSUME NEW o \in OrderMessages, NEW pos \in Positions,
                 ReceiveOrder(o, pos)
          PROVE  Typed(OrderMessages, state')
      BY <2>1, AcceptedTyped, MessageAssumption
         DEF ReceiveOrder, AcceptOrder, MessageAssumption
    <2>2. CASE Arrive
      BY <2>2, ArrivedTyped, MessageAssumption DEF Arrive, MessageAssumption
    <2>3. CASE CancelOrder
      BY <2>3, CancelledTyped DEF CancelOrder
    <2>4. CASE StartPause \/ StopPause
      BY <2>4, PausedTyped DEF StartPause, StopPause
    <2>5. CASE UNCHANGED state
      BY <2>5, Zenon
    <2> QED
      BY <2>1, <2>2, <2>3, <2>4, <2>5 DEF Next
  <1>3. HasType => TypeOK
    BY ShapeOfTyped, Zenon
       DEF Typed, OrderShape, Shape, TypeOK, AllNodes, AllEdges
  <1> QED
    BY <1>1, <1>2, <1>3, PTL DEF Spec

\* A repeated, late or reordered message never changes the chain.
THEOREM OnlyNewerUpdates == Spec => OnlyNewerUpdatesChange
  <1> DEFINE Unchanged == UNCHANGED <<state.nodes, state.edges>>
             Change ==
                state'.orderId = state.orderId =>
                   \/ state'.orderUpdateId > state.orderUpdateId
                   \/ /\ state'.orderUpdateId = state.orderUpdateId
                      /\ state'.decisionSequenceId = state.decisionSequenceId
                      /\ Unchanged \/ state'.cancelled
  <1>1. ASSUME Shape, [Next]_state PROVE [Change]_state
    <2>1. ASSUME NEW o \in OrderMessages, NEW pos \in Positions,
                 ReceiveOrder(o, pos)
          PROVE  [Change]_state
      BY <1>1, <2>1, AcceptOrderCases DEF ReceiveOrder
    <2>2. CASE Arrive \/ CancelOrder \/ StartPause \/ StopPause
      BY <1>1, <2>2, OtherSteps
    <2> QED
      BY <1>1, <2>1, <2>2 DEF Next
  <1> QED
    BY <1>1, ShapeCorrect, PTL DEF Spec, OnlyNewerUpdatesChange

\* A cancelled order stays cancelled and at its last update until another
\* order takes its place.
THEOREM CancelCloses == Spec => CancelledIsClosed
  <1>1. ASSUME Shape, [Next]_state
        PROVE  [state.cancelled /\ state'.orderId = state.orderId =>
                   state'.cancelled
                      /\ state'.orderUpdateId = state.orderUpdateId]_state
    <2>1. ASSUME NEW o \in OrderMessages, NEW pos \in Positions,
                 ReceiveOrder(o, pos), state' # state,
                 state.cancelled, state'.orderId = state.orderId
          PROVE  FALSE
      BY <1>1, <2>1, AcceptOrderCases DEF ReceiveOrder
    <2>2. CASE Arrive \/ CancelOrder \/ StartPause \/ StopPause
      BY <1>1, <2>2, OtherSteps
    <2> QED
      BY <1>1, <2>1, <2>2 DEF Next
  <1> QED
    BY <1>1, ShapeCorrect, PTL DEF Spec, CancelledIsClosed

-----------------------------------------------------------------------------
(* For every set of well-formed order messages: the chain.                 *)

ChainInv == HoldsChain(OrderMessages, state)

BaseIs(k, r) == AtBase(state, k, r)

LEMMA Fit == ASSUME MessagesWellFormed PROVE MessagesFit(OrderMessages)
  BY MessageAssumption DEF MessageAssumption, MessagesTyped, MessagesWellFormed, MessagesFit

LEMMA ShapeOfChain == ASSUME ChainInv PROVE Shape
  BY DEF ChainInv, HoldsChain, StateTyped, OrderShape, Shape

LEMMA OrderChain ==
    ASSUME MessagesWellFormed, NEW o \in OrderMessages
    PROVE  /\ Chain(NodesOf(OrderMessages, o.orderId),
                    EdgesOf(OrderMessages, o.orderId), o.nodes, o.edges)
           /\ o.orderId # NoOrder
           /\ \E q \in DOMAIN o.nodes : ReleasedUpTo(o.nodes, o.edges, q)
  BY Fit, MessageChain

LEMMA HeldChain ==
    ASSUME MessagesWellFormed, ChainInv, state.orderId # NoOrder
    PROVE  Chain(NodesOf(OrderMessages, state.orderId),
                 EdgesOf(OrderMessages, state.orderId), state.nodes, state.edges)
  BY Fit, StateChain DEF ChainInv

LEMMA BaseHeld ==
    ASSUME ChainInv, state.orderId # NoOrder
    PROVE  \E r \in DOMAIN state.nodes : \E k \in 1..r : BaseIs(k, r)
  BY DEF ChainInv, HoldsChain, BaseIs

LEMMA AcceptNew ==
    ASSUME MessagesWellFormed, ChainInv, NEW o \in OrderMessages,
           IsNew(state, o), state' = Accepted(state, o)
    PROVE  ChainInv' /\ ~state'.cancelled
  BY Fit, AcceptedNew DEF ChainInv

LEMMA AcceptUpdate ==
    ASSUME MessagesWellFormed, ChainInv, NEW o \in OrderMessages,
           ~IsNew(state, o), ~state.cancelled, ContinuesFromDecision(state, o),
           state' = Accepted(state, o)
    PROVE  /\ ChainInv'
           /\ \E r \in DOMAIN state.nodes : \E k \in 1..r :
                 \E p \in DOMAIN state'.nodes :
                    /\ BaseIs(k, r) /\ BaseIs(1, p)' /\ r - k + 1 <= p
                    /\ Carries(state.nodes, k, r, state'.nodes)
  BY Fit, AcceptedUpdate DEF ChainInv, BaseIs

LEMMA CancelChain ==
    ASSUME MessagesWellFormed, ChainInv, CancelOrder
    PROVE  /\ ChainInv'
           /\ state.orderId # NoOrder =>
                \E r \in DOMAIN state.nodes : \E k \in 1..r :
                   /\ BaseIs(k, r) /\ BaseIs(k, k)'
                   /\ k \in DOMAIN state'.nodes
                   /\ state'.nodes[k] = state.nodes[k]
  BY Fit, CancelledChain DEF ChainInv, BaseIs, CancelOrder

LEMMA PauseChain ==
    ASSUME ChainInv, StartPause \/ StopPause
    PROVE  ChainInv'
  BY PausedChain DEF ChainInv, StartPause, StopPause

LEMMA ArriveChain ==
    ASSUME MessagesWellFormed, ChainInv, Arrive
    PROVE  ChainInv'
  <1>1. PICK n \in Elements(state.nodes) :
               IsNextNode(n) /\ state' = Arrived(state, n.nodeId)
    BY DEF Arrive
  <1>2. MessagesFit(OrderMessages)
    BY Fit
  <1>3. PICK nodes, edges : nodes = state.nodes /\ edges = state.edges
    OBVIOUS
  <1>4. state.orderId # NoOrder
    BY DEF ChainInv, HoldsChain, Elements
  <1>5. ~state.cancelled
    <2> SUFFICES ASSUME state.cancelled PROVE FALSE
      OBVIOUS
    <2>1. PICK r \in DOMAIN nodes : \E k \in 1..r : BaseIs(k, r)
      BY <1>3, <1>4 DEF ChainInv, HoldsChain, BaseIs
    <2>2. /\ state.lastNodeSequenceId = nodes[r].sequenceId
          /\ r = Len(nodes)
      BY <1>3, <2>1 DEF BaseIs, AtBase
    <2>3. PICK i \in DOMAIN nodes : n = nodes[i]
      BY <1>3 DEF Elements
    <2>4. nodes[i].sequenceId = nodes[r].sequenceId + 2
      BY <1>1, <2>2, <2>3 DEF IsNextNode
    <2>5. Counts(nodes, edges)
      BY <1>2, <1>3, <1>4, StateChain, ChainCounts DEF ChainInv
    <2> QED
      BY <2>2, <2>4, <2>5 DEF Counts
  <1>6. n.released
    BY <1>1 DEF IsNextNode
  <1> QED
    BY <1>1, <1>2, <1>4, <1>5, <1>6, ArrivedChain DEF ChainInv

LEMMA ChainStep ==
    ASSUME MessagesWellFormed, ChainInv, [Next]_state
    PROVE  ChainInv'
  <1>1. ASSUME NEW o \in OrderMessages, NEW pos \in Positions,
               ReceiveOrder(o, pos)
        PROVE  ChainInv'
    <2>1. CASE Rejection(state, o, pos) # ""
      <3>1. state' = state
        BY <1>1, <2>1 DEF ReceiveOrder, AcceptOrder
      <3> QED
        BY <3>1, Zenon DEF ChainInv, HoldsChain, StateTyped, OrderShape, BaseIs, AtBase
    <2>2. CASE Rejection(state, o, pos) = "" /\ IsNew(state, o)
      <3>1. state' = Accepted(state, o)
        BY <1>1, <2>2 DEF ReceiveOrder, AcceptOrder
      <3> QED
        BY <2>2, <3>1, AcceptNew
    <2>3. CASE Rejection(state, o, pos) = "" /\ ~IsNew(state, o)
      <3>1. state' = Accepted(state, o)
        BY <1>1, <2>3 DEF ReceiveOrder, AcceptOrder
      <3>2. ~state.cancelled /\ ContinuesFromDecision(state, o)
        BY <2>3 DEF Rejection, UpdateError
      <3> QED
        BY <2>3, <3>1, <3>2, AcceptUpdate
    <2> QED
      BY <2>1, <2>2, <2>3
  <1>2. CASE StartPause \/ StopPause
    BY <1>2, PauseChain
  <1>3. CASE UNCHANGED state
    BY <1>3, Zenon DEF ChainInv, HoldsChain, StateTyped, OrderShape, BaseIs, AtBase
  <1> QED
    BY <1>1, <1>2, <1>3, ArriveChain, CancelChain DEF Next

\* The order state holds one chain with its base in front, and knows where on
\* it the robot is and where the base ends.
THEOREM ChainCorrect == ASSUME MessagesWellFormed PROVE Spec => []ChainInv
  <1>1. Init => ChainInv
    BY DEF Init, NoState, ChainInv, HoldsChain, StateTyped, OrderShape, Fields
  <1>2. ChainInv /\ [Next]_state => ChainInv'
    BY ChainStep
  <1> QED
    BY <1>1, <1>2, PTL DEF Spec

\* Whatever is stitched onto what is kept, and wherever, is a chain that the
\* simulator can drive.
THEOREM ChainIsPaired == ASSUME MessagesWellFormed PROVE Spec => []ChainPaired
  <1>1. ChainInv => ChainPaired
    BY DEF ChainInv, HoldsChain, ChainPaired
  <1> QED
    BY <1>1, ChainCorrect, PTL

\* The decision point that accept computes from an update alone is where the
\* base of the stitched chain ends.
THEOREM DecisionIsEndOfBase ==
    ASSUME MessagesWellFormed PROVE Spec => []DecisionEndsBase
  <1>1. ASSUME ChainInv PROVE DecisionEndsBase
    <2> SUFFICES ASSUME state.orderId # NoOrder, ~state.cancelled
                 PROVE  DecisionEndsBase
      BY DEF DecisionEndsBase
    <2>1. PICK r \in DOMAIN state.nodes : \E k \in 1..r : BaseIs(k, r)
      BY <1>1, BaseHeld
    <2>2. Counts(state.nodes, state.edges)
      BY <1>1, HeldChain, ChainCounts
    <2> QED
      BY <2>1, <2>2, EndOfBase DEF BaseIs, DecisionEndsBase
  <1>2. ChainInv => DecisionEndsBase
    BY <1>1
  <1> QED
    BY <1>2, ChainCorrect, PTL

-----------------------------------------------------------------------------
(* The refinement: the order state keeps the promise of BaseProtocol.      *)

AheadOf(nodes, last) ==
    LET ahead == {n \in Elements(nodes) : n.released /\ n.sequenceId >= last}
    IN  [q \in {n.sequenceId : n \in ahead} |->
            (CHOOSE n \in ahead : n.sequenceId = q).nodeId]

StepsOf(nodes, k, r) == {nodes[i].sequenceId : i \in k..r}

\* The base that BaseProtocol sees: the places of nodes[k] to nodes[r].
PlacesOf(base, nodes, k, r) ==
    /\ base = [q \in StepsOf(nodes, k, r) |-> base[q]]
    /\ \A i \in k..r : base[nodes[i].sequenceId] = nodes[i].nodeId

LEMMA AheadOfChain ==
    ASSUME NEW N, NEW E, NEW nodes, NEW edges, Chain(N, E, nodes, edges),
           NEW r \in DOMAIN nodes, NEW k \in 1..r, ReleasedUpTo(nodes, edges, r),
           NEW last, last = nodes[k].sequenceId
    PROVE  PlacesOf(AheadOf(nodes, last), nodes, k, r)
  <1> DEFINE ahead == {n \in Elements(nodes) :
                          n.released /\ n.sequenceId >= last}
             steps == {n.sequenceId : n \in ahead}
             Place(q) == (CHOOSE n \in ahead : n.sequenceId = q).nodeId
  <1>1. Counts(nodes, edges)
    BY ChainCounts
  <1>2. r \in 1..Len(nodes) /\ k \in Nat
    BY <1>1 DEF Counts
  <1>3. ASSUME NEW i \in DOMAIN nodes PROVE nodes[i] \in ahead <=> i \in k..r
    <2>1. nodes[i].released <=> i <= r
      BY DEF ReleasedUpTo
    <2>2. nodes[i].sequenceId >= nodes[k].sequenceId <=> k <= i
      BY <1>1, <1>2 DEF Counts
    <2>3. nodes[i] \in Elements(nodes) /\ i \in Nat
      BY <1>1 DEF Elements, Counts
    <2> QED
      BY <1>2, <2>1, <2>2, <2>3
  <1>4. \A i \in k..r : i \in DOMAIN nodes
    BY <1>1, <1>2 DEF Counts
  <1>5. \A n \in ahead : \E i \in k..r : n = nodes[i]
    BY <1>3 DEF Elements
  <1>6. steps = StepsOf(nodes, k, r)
    <2> HIDE DEF ahead
    <2> QED
      BY <1>3, <1>4, <1>5 DEF StepsOf
  <1>7. ASSUME NEW i \in k..r PROVE Place(nodes[i].sequenceId) = nodes[i].nodeId
    <2> DEFINE q == nodes[i].sequenceId
    <2>1. nodes[i] \in ahead
      BY <1>3, <1>4
    <2>2. ASSUME NEW n \in ahead, n.sequenceId = q PROVE n = nodes[i]
      <3>1. PICK j \in k..r : n = nodes[j]
        BY <1>5
      <3>2. j = i
        BY <1>1, <1>4, <2>2, <3>1 DEF Counts
      <3> QED
        BY <3>1, <3>2
    <2> HIDE DEF ahead
    <2> QED
      BY <2>1, <2>2
  <1>8. AheadOf(nodes, last) = [q \in steps |-> Place(q)]
    BY DEF AheadOf
  <1> HIDE DEF ahead, steps, Place
  <1>9. \A i \in k..r : nodes[i].sequenceId \in steps
    BY <1>6 DEF StepsOf
  <1> QED
    BY <1>6, <1>7, <1>8, <1>9 DEF PlacesOf

\* Its steps are as many as the nodes, and the robot is at the first.
LEMMA StepsOfChain ==
    ASSUME NEW N, NEW E, NEW nodes, NEW edges, Chain(N, E, nodes, edges),
           NEW r \in DOMAIN nodes, NEW k \in 1..r
    PROVE  /\ k = r => Cardinality(StepsOf(nodes, k, r)) = 1
           /\ k < r => Cardinality(StepsOf(nodes, k, r)) > 1
           /\ Base!First(StepsOf(nodes, k, r)) = nodes[k].sequenceId
           /\ nodes[k].sequenceId \in StepsOf(nodes, k, r)
  <1> DEFINE S == StepsOf(nodes, k, r)
             q == nodes[k].sequenceId
  <1>1. Counts(nodes, edges)
    BY ChainCounts
  <1>2. /\ r \in 1..Len(nodes) /\ k \in Nat /\ r \in Nat
        /\ \A i \in k..r : i \in 1..Len(nodes)
    BY <1>1 DEF Counts
  <1>3. \A i \in k..r : nodes[i].sequenceId \in Int /\ q <= nodes[i].sequenceId
    BY <1>1, <1>2 DEF Counts
  <1>4. q \in S /\ q \in Int
    BY <1>2, <1>3 DEF StepsOf
  <1>5. \A p \in S : p \in Int /\ q <= p
    BY <1>3 DEF StepsOf
  <1>6. Base!First(S) = q
    <2> HIDE DEF S, q
    <2>1. \A p \in S : (\A t \in S : p <= t) => p = q
      BY <1>4, <1>5
    <2> QED
      BY <1>4, <1>5, <2>1 DEF Base!First
  <1>7. ASSUME k = r PROVE Cardinality(S) = 1
    <2>1. S = {q}
      BY <1>2, <1>7 DEF StepsOf
    <2> HIDE DEF S, q
    <2> QED
      BY <2>1, FS_Singleton
  <1>8. ASSUME k < r PROVE Cardinality(S) > 1
    <2> DEFINE p == nodes[r].sequenceId
    <2>1. p \in S /\ p # q
      <3>1. p \in S
        BY <1>2, <1>8 DEF StepsOf
      <3>2. p # q
        BY <1>1, <1>2, <1>8 DEF Counts
      <3> QED
        BY <3>1, <3>2
    <2>2. IsFiniteSet(S)
      <3>1. IsFiniteSet(k..r)
        BY <1>2, FS_Interval
      <3> DEFINE f == [i \in k..r |-> nodes[i].sequenceId]
      <3>2. f \in Surjection(k..r, S)
        BY DEF Surjection, StepsOf
      <3> HIDE DEF S, f
      <3> QED
        BY <3>1, <3>2, FS_Surjection
    <2> HIDE DEF S, p, q
    <2>3. IsFiniteSet({q}) /\ Cardinality({q}) = 1
      BY FS_Singleton
    <2>4. IsFiniteSet({q} \union {p}) /\ Cardinality({q} \union {p}) = 2
      BY <2>1, <2>3, FS_AddElement
    <2>5. ({q} \union {p}) \subseteq S
      BY <1>4, <2>1
    <2>6. Cardinality({q} \union {p}) <= Cardinality(S) /\ Cardinality(S) \in Nat
      BY <2>2, <2>5, FS_Subset, FS_CardinalityType
    <2> QED
      BY <2>4, <2>6
  <1> QED
    BY <1>4, <1>6, <1>7, <1>8

\* Where a place occurs once, the lookup by nodeId finds the node that the
\* robot has just reached: it moves one node on.
LEMMA ArriveMoves ==
    ASSUME MessagesWellFormed, PlacesOnce, ChainInv, Arrive
    PROVE  /\ state'.nodes = state.nodes /\ state'.edges = state.edges
           /\ state'.orderId = state.orderId
           /\ state'.orderUpdateId = state.orderUpdateId
           /\ state'.cancelled = state.cancelled /\ state.orderId # NoOrder
           /\ \E r \in DOMAIN state.nodes : \E k \in 1..r :
                 /\ BaseIs(k, r) /\ k < r
                 /\ state'.lastNodeSequenceId = state.nodes[k+1].sequenceId
  <1>0. PICK nodes, edges : nodes = state.nodes /\ edges = state.edges
    OBVIOUS
  <1>1. PICK n \in Elements(state.nodes) :
               IsNextNode(n) /\ state' = Arrived(state, n.nodeId)
    BY DEF Arrive
  <1>2. /\ state'.nodes = nodes /\ state'.edges = edges
        /\ state'.orderId = state.orderId
        /\ state'.orderUpdateId = state.orderUpdateId
        /\ state'.cancelled = state.cancelled
        /\ state'.lastNodeSequenceId = SequenceIdFor(state, n.nodeId)
    BY <1>0, <1>1 DEF Arrived, ChainInv, HoldsChain, StateTyped, OrderShape, Fields
  <1>3. state.orderId # NoOrder
    BY DEF ChainInv, HoldsChain, Elements
  <1>4. Counts(nodes, edges)
    BY <1>0, <1>3, HeldChain, ChainCounts
  <1>5. PICK r \in DOMAIN nodes : \E k \in 1..r : BaseIs(k, r)
    BY <1>0, <1>3, BaseHeld
  <1>6. PICK k \in 1..r : BaseIs(k, r)
    BY <1>5
  <1>7. PICK i \in DOMAIN nodes : n = nodes[i]
    BY <1>0 DEF Elements
  <1>8. i = k + 1 /\ k < r
    <2>1. n.sequenceId = nodes[k].sequenceId + 2 /\ i <= r
      BY <1>0, <1>1, <1>6, <1>7 DEF IsNextNode, BaseIs, AtBase, ReleasedUpTo
    <2>2. k \in DOMAIN nodes /\ r \in Nat /\ k \in Nat
      BY <1>4 DEF Counts
    <2>3. i = k + 1
      BY <1>4, <1>7, <2>1, <2>2 DEF Counts
    <2> QED
      BY <2>1, <2>2, <2>3
  <1>9. SequenceIdFor(state, n.nodeId) = n.sequenceId
    <2> DEFINE j == FirstIndex(nodes, n.nodeId)
    <2>1. \A v \in DOMAIN nodes : nodes[v] \in NodesOf(OrderMessages, state.orderId)
      <3>1. nodes \in Seq(NodesOf(OrderMessages, state.orderId))
        BY <1>0, Zenon DEF ChainInv, HoldsChain, StateTyped
      <3> QED
        BY <3>1
    <2>2. \A x, y \in NodesOf(OrderMessages, state.orderId) :
             x.nodeId = y.nodeId => x.sequenceId = y.sequenceId
      BY DEF PlacesOnce, NodesOf
    <2>3. ASSUME NEW v \in DOMAIN nodes, nodes[v].nodeId = n.nodeId
          PROVE  v = i
      <3>1. nodes[v].sequenceId = nodes[i].sequenceId
        BY <1>7, <2>1, <2>2, <2>3
      <3> QED
        BY <1>4, <3>1 DEF Counts
    <2>4. j = i
      <3>1. \A w \in 1..i-1 : w \in DOMAIN nodes /\ w # i
        BY <1>4 DEF Counts
      <3>2. \A w \in 1..i-1 : nodes[w].nodeId # n.nodeId
        BY <2>3, <3>1
      <3> QED
        BY <1>7, <2>3, <3>2 DEF FirstIndex
    <2>5. KnowsNode(state, n.nodeId)
      BY DEF KnowsNode
    <2> QED
      BY <1>0, <1>7, <2>4, <2>5 DEF SequenceIdFor
  <1>10. state'.lastNodeSequenceId = nodes[k+1].sequenceId
    BY <1>2, <1>7, <1>8, <1>9
  <1> QED
    BY <1>0, <1>2, <1>3, <1>6, <1>8, <1>10

LEMMA NextChain ==
    ASSUME MessagesWellFormed, ChainInv', state'.orderId # NoOrder
    PROVE  Chain(NodesOf(OrderMessages, state'.orderId), EdgesOf(OrderMessages, state'.orderId),
                 state'.nodes, state'.edges)
  <1>1. ASSUME NEW n \in NodesOf(OrderMessages, state'.orderId) PROVE n.sequenceId \in Int
    BY DEF NodesOf, MessagesWellFormed, WellFormed
  <1> QED
    BY <1>1 DEF Chain, ChainInv, HoldsChain, StateTyped

\* What BaseProtocol sees of a state.
LEMMA BaseSeen ==
    ASSUME MessagesWellFormed, ChainInv, state.orderId # NoOrder,
           NEW r \in DOMAIN state.nodes, NEW k \in 1..r, BaseIs(k, r)
    PROVE  PlacesOf(BaseAhead, state.nodes, k, r)
  <1>1. PICK nodes, edges, last :
           /\ nodes = state.nodes /\ edges = state.edges
           /\ last = state.lastNodeSequenceId
    OBVIOUS
  <1>2. Chain(NodesOf(OrderMessages, state.orderId), EdgesOf(OrderMessages, state.orderId), nodes, edges)
    BY <1>1, HeldChain
  <1>3. ReleasedUpTo(nodes, edges, r) /\ last = nodes[k].sequenceId
    BY <1>1 DEF BaseIs, AtBase
  <1>4. PlacesOf(AheadOf(nodes, last), nodes, k, r)
    <2> r \in DOMAIN nodes
      BY <1>1
    <2> QED
      BY <1>2, <1>3, AheadOfChain
  <1>5. BaseAhead = AheadOf(nodes, last)
    <2>1. BaseAhead = AheadOf(state.nodes, state.lastNodeSequenceId)
      BY DEF BaseAhead, AheadOf
    <2> QED
      BY <1>1, <2>1
  <1> QED
    BY <1>1, <1>4, <1>5

LEMMA BaseSeenNext ==
    ASSUME MessagesWellFormed, ChainInv', state'.orderId # NoOrder,
           NEW r \in DOMAIN state'.nodes, NEW k \in 1..r, BaseIs(k, r)'
    PROVE  PlacesOf(BaseAhead', state'.nodes, k, r)
  <1>1. PICK nodes, edges, last :
           /\ nodes = state'.nodes /\ edges = state'.edges
           /\ last = state'.lastNodeSequenceId
    OBVIOUS
  <1>2. Chain(NodesOf(OrderMessages, state'.orderId), EdgesOf(OrderMessages, state'.orderId), nodes, edges)
    BY <1>1, NextChain
  <1>3. ReleasedUpTo(nodes, edges, r) /\ last = nodes[k].sequenceId
    BY <1>1 DEF BaseIs, AtBase
  <1>4. PlacesOf(AheadOf(nodes, last), nodes, k, r)
    <2> r \in DOMAIN nodes
      BY <1>1
    <2> QED
      BY <1>2, <1>3, AheadOfChain
  <1>5. BaseAhead' = AheadOf(nodes, last)
    <2>1. BaseAhead' = AheadOf(state'.nodes, state'.lastNodeSequenceId)
      BY DEF BaseAhead, AheadOf
    <2> QED
      BY <1>1, <2>1
  <1> QED
    BY <1>1, <1>4, <1>5

LEMMA SameCardinality ==
    ASSUME NEW S PROVE Base!Cardinality(S) = Cardinality(S)
  BY DEF Base!Cardinality, Cardinality

LEMMA PlacesDomain ==
    ASSUME NEW base, NEW nodes, NEW k, NEW r, PlacesOf(base, nodes, k, r)
    PROVE  DOMAIN base = StepsOf(nodes, k, r)
  <1>1. base = [q \in StepsOf(nodes, k, r) |-> base[q]]
    BY DEF PlacesOf
  <1> QED
    BY <1>1

\* A new order starts where the base of the previous one has been driven.
LEMMA NewOrderStep ==
    ASSUME MessagesWellFormed, ChainInv, NEW o \in OrderMessages,
           IsNew(state, o), IsIdle(state), o.orderUpdateId = 0,
           state' = Accepted(state, o)
    PROVE  Base!NewOrder
  <1>1. /\ state'.orderId = o.orderId /\ state'.orderUpdateId = 0
        /\ state'.cancelled = FALSE /\ state.orderId # o.orderId
    BY DEF Accepted, IsNew, ChainInv, HoldsChain, StateTyped, OrderShape, Fields
  <1>2. o.orderId # NoOrder
    BY OrderChain
  <1>3. ASSUME state.orderId # NoOrder PROVE Base!Ends
    <2>1. PICK nodes, edges : nodes = state.nodes /\ edges = state.edges
      OBVIOUS
    <2>2. PICK r \in DOMAIN nodes : \E k \in 1..r : BaseIs(k, r)
      BY <1>3, <2>1, BaseHeld
    <2>3. PICK k \in 1..r : BaseIs(k, r)
      BY <2>2
    <2>4. Chain(NodesOf(OrderMessages, state.orderId), EdgesOf(OrderMessages, state.orderId), nodes, edges)
      BY <1>3, <2>1, HeldChain
    <2>5. Counts(nodes, edges)
      BY <2>4, ChainCounts
    <2>6. k = r
      <3>1. CASE state.cancelled
        BY <2>3, <3>1 DEF BaseIs, AtBase
      <3>2. CASE ~state.cancelled
        <4>1. state.lastNodeSequenceId = state.decisionSequenceId
          BY <1>3 DEF IsIdle
        <4>2. nodes[k].sequenceId = nodes[r].sequenceId
          BY <2>1, <2>3, <3>2, <4>1 DEF BaseIs, AtBase
        <4>3. k \in DOMAIN nodes
          BY <2>5 DEF Counts
        <4> QED
          BY <2>5, <4>2, <4>3 DEF Counts
      <3> QED
        BY <3>1, <3>2
    <2>7. PlacesOf(BaseAhead, nodes, k, r)
      BY <1>3, <2>1, <2>3, BaseSeen
    <2>8. Cardinality(StepsOf(nodes, k, r)) = 1
      BY <2>4, <2>6, StepsOfChain
    <2>9. DOMAIN BaseAhead = StepsOf(nodes, k, r)
      BY <2>7, PlacesDomain
    <2> QED
      BY <2>8, <2>9, SameCardinality DEF Base!Ends, Base!Steps
  <1>4. DOMAIN BaseAhead' # {}
    <2>1. ChainInv'
      BY AcceptNew
    <2>2. state'.orderId # NoOrder
      BY <1>1, <1>2
    <2>3. PICK r \in DOMAIN state'.nodes : \E k \in 1..r : BaseIs(k, r)'
      BY <2>1, <2>2 DEF ChainInv, HoldsChain, BaseIs
    <2>4. PICK k \in 1..r : BaseIs(k, r)'
      BY <2>3
    <2>5. PICK nodes, edges : nodes = state'.nodes /\ edges = state'.edges
      OBVIOUS
    <2>6. PlacesOf(BaseAhead', nodes, k, r)
      BY <2>1, <2>2, <2>4, <2>5, BaseSeenNext
    <2>7. DOMAIN BaseAhead' = StepsOf(nodes, k, r)
      BY <2>6, PlacesDomain
    <2>8. Chain(NodesOf(OrderMessages, state'.orderId), EdgesOf(OrderMessages, state'.orderId), nodes, edges)
      BY <2>1, <2>2, <2>5, NextChain
    <2>9. nodes[k].sequenceId \in StepsOf(nodes, k, r)
      <3> r \in DOMAIN nodes
        BY <2>5
      <3> QED
        BY <2>8, StepsOfChain
    <2> QED
      BY <2>7, <2>9
  <1> QED
    BY <1>1, <1>2, <1>3, <1>4 DEF Base!NewOrder

\* A newer update leaves what is released as it is and appends to it.
LEMMA ExtendStep ==
    ASSUME MessagesWellFormed, ChainInv, NEW o \in OrderMessages,
           ~IsNew(state, o), ~state.cancelled, ContinuesFromDecision(state, o),
           o.orderUpdateId > state.orderUpdateId,
           state' = Accepted(state, o)
    PROVE  Base!Extend
  <1>1. /\ state'.orderId = state.orderId /\ state'.cancelled = state.cancelled
        /\ state'.orderUpdateId = o.orderUpdateId
        /\ state.orderId = o.orderId
    BY DEF Accepted, IsNew, ChainInv, HoldsChain, StateTyped, OrderShape, Fields
  <1>2. state.orderId # NoOrder
    BY <1>1, OrderChain
  <1>3. PICK old, oldEdges, nodes, edges, base, next :
           /\ old = state.nodes /\ oldEdges = state.edges
           /\ nodes = state'.nodes /\ edges = state'.edges
           /\ base = BaseAhead /\ next = BaseAhead'
    OBVIOUS
  <1>4. /\ ChainInv'
        /\ \E r \in DOMAIN old : \E k \in 1..r : \E p \in DOMAIN nodes :
              /\ BaseIs(k, r) /\ BaseIs(1, p)' /\ r - k + 1 <= p
              /\ Carries(old, k, r, nodes)
    BY <1>3, AcceptUpdate
  <1>5. PICK r \in DOMAIN old : \E k \in 1..r : \E p \in DOMAIN nodes :
              /\ BaseIs(k, r) /\ BaseIs(1, p)' /\ r - k + 1 <= p
              /\ Carries(old, k, r, nodes)
    BY <1>4
  <1>6. PICK k \in 1..r : \E p \in DOMAIN nodes :
              /\ BaseIs(k, r) /\ BaseIs(1, p)' /\ r - k + 1 <= p
              /\ Carries(old, k, r, nodes)
    BY <1>5
  <1>7. PICK p \in DOMAIN nodes :
              /\ BaseIs(k, r) /\ BaseIs(1, p)' /\ r - k + 1 <= p
              /\ Carries(old, k, r, nodes)
    BY <1>6
  <1>8. Counts(old, oldEdges)
    BY <1>2, <1>3, HeldChain, ChainCounts
  <1>9. Counts(nodes, edges)
    BY <1>1, <1>2, <1>3, <1>4, NextChain, ChainCounts
  <1>10. PlacesOf(base, old, k, r) /\ DOMAIN base = StepsOf(old, k, r)
    <2>1. PlacesOf(BaseAhead, old, k, r)
      BY <1>2, <1>3, <1>7, BaseSeen
    <2> QED
      BY <1>3, <2>1, PlacesDomain
  <1>11. /\ k \in Nat /\ r \in Nat /\ k <= r /\ p \in 1..Len(nodes)
         /\ 1 \in 1..p /\ Len(nodes) \in Nat /\ r - k + 1 <= p
    <2>1. r \in 1..Len(old) /\ p \in 1..Len(nodes)
      BY <1>8, <1>9 DEF Counts
    <2> QED
      BY <1>7, <1>8, <1>9, <2>1 DEF Counts
  <1>12. PlacesOf(next, nodes, 1, p) /\ DOMAIN next = StepsOf(nodes, 1, p)
    <2>1. PlacesOf(BaseAhead', nodes, 1, p)
      BY <1>1, <1>2, <1>3, <1>4, <1>7, <1>11, BaseSeenNext
    <2> QED
      BY <1>3, <2>1, PlacesDomain
  <1>13. ASSUME NEW i \in k..r
         PROVE  /\ i - k + 1 \in 1..p
                /\ nodes[i-k+1].sequenceId = old[i].sequenceId
                /\ nodes[i-k+1].nodeId = old[i].nodeId
    BY <1>7, <1>11 DEF Carries
  <1>14. ASSUME NEW q \in DOMAIN base
         PROVE  q \in DOMAIN next /\ next[q] = base[q]
    <2>1. PICK i \in k..r : q = old[i].sequenceId
      BY <1>10 DEF StepsOf
    <2>2. base[q] = old[i].nodeId
      BY <1>10, <2>1 DEF PlacesOf
    <2> DEFINE j == i - k + 1
    <2>3. j \in 1..p /\ nodes[j].sequenceId = q /\ nodes[j].nodeId = old[i].nodeId
      BY <1>13, <2>1
    <2> HIDE DEF j
    <2>4. q \in DOMAIN next
      BY <1>12, <2>3 DEF StepsOf
    <2>5. next[q] = nodes[j].nodeId
      BY <1>12, <2>3 DEF PlacesOf
    <2> QED
      BY <2>2, <2>3, <2>4, <2>5
  \* What is new lies behind the kept part.
  <1>15. ASSUME NEW q \in DOMAIN base, NEW s \in DOMAIN next,
                s \notin DOMAIN base
         PROVE  q < s
    <2>1. PICK i \in k..r : q = old[i].sequenceId
      BY <1>10 DEF StepsOf
    <2>2. PICK j \in 1..p : s = nodes[j].sequenceId
      BY <1>12 DEF StepsOf
    <2>3. ~(j <= r - k + 1)
      <3> SUFFICES ASSUME j <= r - k + 1 PROVE FALSE
        OBVIOUS
      <3>1. k + j - 1 \in k..r /\ (k + j - 1) - k + 1 = j
        BY <1>11
      <3>2. s = old[k + j - 1].sequenceId
        BY <1>13, <2>2, <3>1
      <3> QED
        BY <1>10, <1>15, <3>1, <3>2 DEF StepsOf
    <2> DEFINE h == i - k + 1
    <2>4. h \in 1..p /\ q = nodes[h].sequenceId /\ h < j
      BY <1>11, <1>13, <2>1, <2>3
    <2>5. h \in 1..Len(nodes) /\ j \in 1..Len(nodes)
      BY <1>11, <2>4
    <2> HIDE DEF h
    <2> QED
      BY <1>9, <2>2, <2>4, <2>5 DEF Counts
  <1>16. Base!Restrict(next, DOMAIN base) = base
    <2>1. Base!Restrict(next, DOMAIN base) = [q \in DOMAIN base |-> next[q]]
      BY DEF Base!Restrict
    <2>2. base = [q \in DOMAIN base |-> base[q]]
      <3>1. base = [q \in StepsOf(old, k, r) |-> base[q]]
        BY <1>10 DEF PlacesOf
      <3> QED
        BY <1>10, <3>1
    <2> QED
      BY <1>14, <2>1, <2>2
  <1>17. /\ DOMAIN base \subseteq DOMAIN next
         /\ \A q \in DOMAIN base, s \in DOMAIN next \ DOMAIN base : q < s
    BY <1>14, <1>15
  <1> QED
    BY <1>1, <1>2, <1>3, <1>16, <1>17 DEF Base!Extend, Base!Steps

\* An arrival leaves the first node of the base behind, and only that.
LEMMA MoveStep ==
    ASSUME MessagesWellFormed, PlacesOnce, ChainInv, Arrive
    PROVE  Base!Move
  <1>1. /\ ChainInv' /\ state.orderId # NoOrder
        /\ state'.nodes = state.nodes /\ state'.edges = state.edges
        /\ state'.orderId = state.orderId
        /\ state'.orderUpdateId = state.orderUpdateId
        /\ state'.cancelled = state.cancelled
    BY ArriveMoves, ArriveChain
  <1>2. PICK nodes, edges, base, next :
           /\ nodes = state.nodes /\ edges = state.edges
           /\ base = BaseAhead /\ next = BaseAhead'
    OBVIOUS
  <1>3. PICK r \in DOMAIN nodes : \E k \in 1..r :
           /\ BaseIs(k, r) /\ k < r
           /\ state'.lastNodeSequenceId = nodes[k+1].sequenceId
    BY <1>2, ArriveMoves
  <1>4. PICK k \in 1..r :
           /\ BaseIs(k, r) /\ k < r
           /\ state'.lastNodeSequenceId = nodes[k+1].sequenceId
    BY <1>3
  <1>5. Chain(NodesOf(OrderMessages, state.orderId), EdgesOf(OrderMessages, state.orderId), nodes, edges)
    BY <1>1, <1>2, HeldChain
  <1>6. Counts(nodes, edges)
    BY <1>5, ChainCounts
  <1>7. /\ r \in Nat /\ k \in Nat /\ k + 1 \in 1..r
        /\ \A i \in k..r : i \in 1..Len(nodes)
        /\ ReleasedUpTo(nodes, edges, r)
    <2>1. r \in 1..Len(nodes)
      BY <1>6 DEF Counts
    <2>2. ReleasedUpTo(nodes, edges, r)
      BY <1>2, <1>4 DEF BaseIs, AtBase
    <2> QED
      BY <1>4, <1>6, <2>1, <2>2 DEF Counts
  <1>8. PlacesOf(base, nodes, k, r) /\ DOMAIN base = StepsOf(nodes, k, r)
    <2>1. PlacesOf(BaseAhead, nodes, k, r)
      BY <1>1, <1>2, <1>4, BaseSeen
    <2> QED
      BY <1>2, <2>1, PlacesDomain
  <1>9. PlacesOf(next, nodes, k+1, r) /\ DOMAIN next = StepsOf(nodes, k+1, r)
    <2>1. PICK last : last = state'.lastNodeSequenceId
      OBVIOUS
    <2>2. PlacesOf(AheadOf(nodes, last), nodes, k+1, r)
      BY <1>4, <1>5, <1>7, <2>1, AheadOfChain
    <2>3. BaseAhead' = AheadOf(state'.nodes, state'.lastNodeSequenceId)
      BY DEF BaseAhead, AheadOf
    <2>4. next = AheadOf(nodes, last)
      BY <1>1, <1>2, <2>1, <2>3
    <2> QED
      BY <2>2, <2>4, PlacesDomain
  <1>10. /\ Cardinality(DOMAIN base) > 1
         /\ Base!First(DOMAIN base) = nodes[k].sequenceId
    BY <1>4, <1>5, <1>8, StepsOfChain
  <1>11. StepsOf(nodes, k+1, r) = StepsOf(nodes, k, r) \ {nodes[k].sequenceId}
    <2>1. \A i \in k+1..r : i \in k..r /\ i # k
      BY <1>7
    <2>2. \A i \in k..r : i # k => i \in k+1..r
      BY <1>7
    <2>3. \A i \in k..r : nodes[i].sequenceId = nodes[k].sequenceId <=> i = k
      BY <1>6, <1>7 DEF Counts
    <2>4. k \in k..r
      BY <1>7
    <2> QED
      BY <2>1, <2>2, <2>3, <2>4 DEF StepsOf
  <1>12. next = Base!Restrict(base, DOMAIN base \ {Base!First(DOMAIN base)})
    <2> DEFINE S == StepsOf(nodes, k+1, r)
    <2>1. next = [q \in S |-> next[q]]
      BY <1>9 DEF PlacesOf
    <2>2. ASSUME NEW q \in S PROVE next[q] = base[q]
      <3>1. PICK i \in k+1..r : q = nodes[i].sequenceId
        BY DEF StepsOf
      <3>2. i \in k..r
        BY <1>7
      <3> QED
        BY <1>8, <1>9, <3>1, <3>2 DEF PlacesOf
    <2>3. S = DOMAIN base \ {Base!First(DOMAIN base)}
      BY <1>8, <1>10, <1>11
    <2> HIDE DEF S
    <2> QED
      BY <2>1, <2>2, <2>3 DEF Base!Restrict
  <1> QED
    BY <1>1, <1>2, <1>10, <1>12, SameCardinality DEF Base!Move, Base!Steps

\* cancelOrder keeps of the base the node that the robot was last at.
LEMMA CancelStep ==
    ASSUME MessagesWellFormed, ChainInv, CancelOrder
    PROVE  Base!Cancel
  <1>1. /\ state'.orderId = state.orderId /\ state'.cancelled = TRUE
        /\ state'.orderUpdateId = state.orderUpdateId
        /\ state'.lastNodeSequenceId = state.lastNodeSequenceId
    BY DEF CancelOrder, Cancelled, ChainInv, HoldsChain, StateTyped, OrderShape, Fields
  <1>2. /\ ChainInv'
        /\ state.orderId # NoOrder =>
             \E r \in DOMAIN state.nodes : \E k \in 1..r :
                /\ BaseIs(k, r) /\ BaseIs(k, k)'
                /\ k \in DOMAIN state'.nodes /\ state'.nodes[k] = state.nodes[k]
    BY CancelChain
  <1>3. PICK nodes, edges, nodesLeft, edgesLeft, base, next :
           /\ nodes = state.nodes /\ edges = state.edges
           /\ nodesLeft = state'.nodes /\ edgesLeft = state'.edges
           /\ base = BaseAhead /\ next = BaseAhead'
    OBVIOUS
  <1>4. CASE state.orderId = NoOrder
    <2>1. nodes = <<>> /\ nodesLeft = <<>>
      BY <1>1, <1>2, <1>3, <1>4 DEF ChainInv, HoldsChain
    <2>2. BaseAhead = AheadOf(nodes, state.lastNodeSequenceId)
      BY <1>3 DEF BaseAhead, AheadOf
    <2>3. BaseAhead' = AheadOf(nodesLeft, state'.lastNodeSequenceId)
      BY <1>3 DEF BaseAhead, AheadOf
    <2>4. BaseAhead' = BaseAhead
      BY <1>1, <2>1, <2>2, <2>3
    <2>5. DOMAIN AheadOf(<<>>, state.lastNodeSequenceId) = {}
      BY DEF AheadOf, Elements
    <2>6. DOMAIN BaseAhead = {}
      BY <2>1, <2>2, <2>5
    <2> QED
      BY <1>1, <1>4, <2>4, <2>6 DEF Base!Cancel, Base!Steps
  <1>5. CASE state.orderId # NoOrder
    <2>1. PICK r \in DOMAIN nodes : \E k \in 1..r :
             /\ BaseIs(k, r) /\ BaseIs(k, k)'
             /\ k \in DOMAIN nodesLeft /\ nodesLeft[k] = nodes[k]
      BY <1>2, <1>3, <1>5
    <2>2. PICK k \in 1..r :
             /\ BaseIs(k, r) /\ BaseIs(k, k)'
             /\ k \in DOMAIN nodesLeft /\ nodesLeft[k] = nodes[k]
      BY <2>1
    <2>3. Chain(NodesOf(OrderMessages, state.orderId), EdgesOf(OrderMessages, state.orderId), nodes, edges)
      BY <1>3, <1>5, HeldChain
    <2>4. Counts(nodes, edges)
      BY <2>3, ChainCounts
    <2>5. k \in Nat /\ r \in Nat /\ k \in k..r /\ k \in 1..k /\ k..k = {k}
      <3>1. r \in Nat
        BY <2>4 DEF Counts
      <3> QED
        BY <3>1
    <2>6. PlacesOf(base, nodes, k, r) /\ DOMAIN base = StepsOf(nodes, k, r)
      <3>1. PlacesOf(BaseAhead, nodes, k, r)
        BY <1>3, <1>5, <2>2, BaseSeen
      <3> QED
        BY <1>3, <3>1, PlacesDomain
    <2>7. PlacesOf(next, nodesLeft, k, k) /\ DOMAIN next = StepsOf(nodesLeft, k, k)
      <3>1. PlacesOf(BaseAhead', nodesLeft, k, k)
        BY <1>1, <1>2, <1>3, <1>5, <2>2, <2>5, BaseSeenNext
      <3> QED
        BY <1>3, <3>1, PlacesDomain
    <2> DEFINE q == nodes[k].sequenceId
    <2>8. Base!First(DOMAIN base) = q /\ q \in DOMAIN base
      BY <2>3, <2>6, StepsOfChain
    <2>9. /\ base[q] = nodes[k].nodeId /\ next[q] = nodes[k].nodeId
          /\ StepsOf(nodesLeft, k, k) = {q}
      BY <2>2, <2>5, <2>6, <2>7 DEF PlacesOf, StepsOf
    <2>10. next = [s \in {q} |-> next[s]]
      BY <2>7, <2>9 DEF PlacesOf
    <2> HIDE DEF q
    <2>11. next = Base!Restrict(base, {q})
      BY <2>9, <2>10 DEF Base!Restrict
    <2> QED
      BY <1>1, <1>3, <1>5, <2>8, <2>11 DEF Base!Cancel, Base!Steps
  <1> QED
    BY <1>4, <1>5

BaseView == <<state.orderId, state.orderUpdateId, state.cancelled, BaseAhead>>

LEMMA BaseStep ==
    ASSUME MessagesWellFormed, PlacesOnce, ChainInv, [Next]_state
    PROVE  [Base!Next]_BaseView
  <1>1. ASSUME NEW o \in OrderMessages, NEW pos \in Positions,
               ReceiveOrder(o, pos)
        PROVE  [Base!Next]_BaseView
    <2>1. CASE Rejection(state, o, pos) # ""
      <3>1. state' = state
        BY <1>1, <2>1 DEF ReceiveOrder, AcceptOrder
      <3> QED
        BY <3>1 DEF BaseView, BaseAhead
    <2>2. CASE Rejection(state, o, pos) = "" /\ IsNew(state, o)
      <3>1. state' = Accepted(state, o)
        BY <1>1, <2>2 DEF ReceiveOrder, AcceptOrder
      <3>2. IsIdle(state) /\ o.orderUpdateId = 0
        BY <2>2 DEF Rejection, NewOrderError
      <3>3. Base!NewOrder
        BY <2>2, <3>1, <3>2, NewOrderStep
      <3> QED
        BY <3>3 DEF Base!Next
    <2>3. CASE Rejection(state, o, pos) = "" /\ ~IsNew(state, o)
      <3>1. state' = Accepted(state, o)
        BY <1>1, <2>3 DEF ReceiveOrder, AcceptOrder
      <3>2. /\ ~state.cancelled /\ ContinuesFromDecision(state, o)
            /\ ~(o.orderUpdateId < state.orderUpdateId)
            /\ o.orderUpdateId # state.orderUpdateId
        BY <2>3 DEF Rejection, UpdateError
      <3>3. o.orderUpdateId \in Int /\ state.orderUpdateId \in Int
        BY MessageAssumption DEF MessageAssumption, MessagesTyped, ChainInv, HoldsChain, StateTyped, OrderShape
      <3>4. o.orderUpdateId > state.orderUpdateId
        BY <3>2, <3>3
      <3>5. Base!Extend
        BY <2>3, <3>1, <3>2, <3>4, ExtendStep
      <3> QED
        BY <3>5 DEF Base!Next
    <2> QED
      BY <2>1, <2>2, <2>3
  <1>2. CASE Arrive
    BY <1>2, MoveStep DEF Base!Next
  <1>3. CASE CancelOrder
    BY <1>3, CancelStep DEF Base!Next
  <1>4. CASE StartPause \/ StopPause
    <2>1. /\ state'.nodes = state.nodes /\ state'.orderId = state.orderId
          /\ state'.orderUpdateId = state.orderUpdateId
          /\ state'.cancelled = state.cancelled
          /\ state'.lastNodeSequenceId = state.lastNodeSequenceId
      BY <1>4 DEF StartPause, StopPause, Paused, ChainInv, HoldsChain, StateTyped, OrderShape, Fields
    <2>2. BaseAhead' = BaseAhead
      <3>1. BaseAhead' = AheadOf(state'.nodes, state'.lastNodeSequenceId)
        BY DEF BaseAhead, AheadOf
      <3>2. BaseAhead = AheadOf(state.nodes, state.lastNodeSequenceId)
        BY DEF BaseAhead, AheadOf
      <3> QED
        BY <2>1, <3>1, <3>2
    <2> QED
      BY <2>1, <2>2 DEF BaseView
  <1>5. CASE UNCHANGED state
    BY <1>5 DEF BaseView, BaseAhead
  <1> QED
    BY <1>1, <1>2, <1>3, <1>4, <1>5 DEF Next

\* The order state implements BaseProtocol: what fleet control may rely on,
\* over a channel that loses, repeats and reorders its messages.
THEOREM ImplementsBaseProtocol ==
    ASSUME MessagesWellFormed, PlacesOnce PROVE Spec => KeepsBaseProtocol
  <1>1. Init => Base!Init
    <2> SUFFICES ASSUME Init PROVE Base!Init
      OBVIOUS
    <2>1. /\ state.orderId = NoOrder /\ state.orderUpdateId = 0
          /\ state.cancelled = FALSE /\ state.nodes = <<>>
      BY DEF Init, NoState
    <2>2. DOMAIN BaseAhead = {}
      BY <2>1 DEF BaseAhead, Elements
    <2> QED
      BY <2>1, <2>2 DEF Base!Init, Base!Steps
  <1>2. ChainInv /\ [Next]_state => [Base!Next]_BaseView
    BY BaseStep
  <1> QED
    BY <1>1, <1>2, ChainCorrect, PTL DEF Spec, KeepsBaseProtocol, Base!Spec, BaseView

=============================================================================

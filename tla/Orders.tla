------------------------------- MODULE Orders -------------------------------
(***************************************************************************)
(* Orders and what the robot computes from them, as operators:             *)
(* common/validations/order.go and the functions of robot/order_state.go.  *)
(*                                                                         *)
(*   a node   [nodeId, sequenceId, released, actions]                      *)
(*   an edge  [startNodeId, endNodeId, sequenceId, released, actions]      *)
(*   an order [orderId, orderUpdateId, nodes, edges], two arrays           *)
(*                                                                         *)
(* A nodeId is a place: every node that carries it lies at the same        *)
(* position, and the deviation ellipses of two places do not overlap, so a *)
(* position is the place whose ellipse holds it, or Between when none does.*)
(***************************************************************************)
EXTENDS Integers, Sequences, FiniteSets

NoNode == ""      \* the empty nodeId
NoOrder == ""     \* the empty orderId
Between == "between"

Elements(s) == {s[i] : i \in DOMAIN s}

\* What slices.DeleteFunc, or a loop that appends, keeps of s: the elements of
\* Keep, in their order.  kept[n] is what is kept of the first n.
Filter(s, Keep) ==
    LET kept[n \in 0..Len(s)] ==
          IF n = 0 THEN <<>>
          ELSE IF s[n] \in Keep THEN Append(kept[n-1], s[n]) ELSE kept[n-1]
    IN  kept[Len(s)]

\* What JSON decoding leaves out, and slices.DeleteFunc clears: an edge with
\* no speed, a node at the origin with no id.
ZeroNode == [nodeId |-> NoNode, sequenceId |-> 0, released |-> FALSE,
             actions |-> <<>>]
ZeroEdge == [startNodeId |-> NoNode, endNodeId |-> NoNode, sequenceId |-> 0,
             released |-> FALSE, actions |-> <<>>]

-----------------------------------------------------------------------------
(* ValidateOrder.                                                          *)

\* Where sort.Slice puts s[i]: behind those with a smaller sequenceId.  It is
\* not stable, but equal sequenceIds are refused in any order.
Rank(s, i) ==
    Cardinality({j \in DOMAIN s :
                    \/ s[j].it.sequenceId < s[i].it.sequenceId
                    \/ s[j].it.sequenceId = s[i].it.sequenceId /\ j <= i})

Sorted(s) ==
    [m \in DOMAIN s |-> s[CHOOSE i \in DOMAIN s : Rank(s, i) = m]]

\* The local `sequence', as it is filled: the nodes and then the edges.
Together(nodes, edges) ==
    [i \in DOMAIN nodes |-> [isNode |-> TRUE, it |-> nodes[i]]]
       \o [i \in DOMAIN edges |-> [isNode |-> FALSE, it |-> edges[i]]]

\* The local `sequence' when it is sorted, in a set of its own: what is bound
\* TLC evaluates once, even where it looks for an enabled action.
SortedSequences(nodes, edges) == {Sorted(t) : t \in {Together(nodes, edges)}}

\* Strictly increasing, no gaps; even for nodes, odd for edges.
SequenceIdsFit(s) ==
    \A i \in DOMAIN s :
       /\ i > 1 => s[i].it.sequenceId = s[i-1].it.sequenceId + 1
       /\ s[i].isNode <=> s[i].it.sequenceId % 2 = 0

\* Once an unreleased element is seen, nothing released may follow.
ReleasedFirst(s) ==
    \A i, j \in DOMAIN s : i < j /\ s[j].it.released => s[i].it.released

\* The order starts and ends in a node and no two nodes are neighbours.
Alternates(s) ==
    \A i \in DOMAIN s :
       /\ i \in {1, Len(s)} => s[i].isNode
       /\ i > 1 => ~(s[i].isNode /\ s[i-1].isNode)

\* An edge joins its neighbours, and is released only if both of them are.
EdgesJoin(s) ==
    \A i \in DOMAIN s : ~s[i].isNode =>
       /\ i > 1 /\ i < Len(s)
       /\ s[i-1].isNode /\ s[i-1].it.nodeId = s[i].it.startNodeId
       /\ s[i+1].isNode /\ s[i+1].it.nodeId = s[i].it.endNodeId
       /\ s[i].it.released => s[i-1].it.released /\ s[i+1].it.released

\* Mutant of ValidateOrder: it lets a base resume behind the horizon.
ValidateUnreleased(o) ==
    \E s \in SortedSequences(o.nodes, o.edges) :
       SequenceIdsFit(s) /\ Alternates(s) /\ EdgesJoin(s)

\* ValidateOrder returns nil.  It walks the sorted copy; the arrays of the
\* order stay as they came.
ValidateOrder(o) ==
    \E s \in SortedSequences(o.nodes, o.edges) :
       SequenceIdsFit(s) /\ ReleasedFirst(s) /\ Alternates(s) /\ EdgesJoin(s)

-----------------------------------------------------------------------------
(* The order state: robot/order_state.go.                                  *)

\* The zero OrderState of a robot that just started.
NoState ==
    [orderId |-> NoOrder, orderUpdateId |-> 0, cancelled |-> FALSE,
     paused |-> FALSE, lastNodeId |-> NoNode, lastNodeSequenceId |-> 0,
     decisionNodeId |-> NoNode, decisionSequenceId |-> 0,
     nodes |-> <<>>, edges |-> <<>>]

HasHorizon(s) == \E n \in Elements(s.nodes) : ~n.released

\* Mutant of IsIdle: a robot without a horizon is idle, wherever it is.
IsIdleUnderWay(s) == s.orderId = NoOrder \/ ~HasHorizon(s)

IsIdle(s) ==
    \/ s.orderId = NoOrder
    \/ ~HasHorizon(s) /\ s.lastNodeSequenceId = s.decisionSequenceId

\* startNodeInRange, for a robot at the place, or between the places, pos.
StartNodeInRange(o, pos) == pos = o.nodes[1].nodeId

\* The nodes decisionPoint passes before the first unreleased element, in
\* the order of the sequenceIds.
ReleasedPrefix(nodes, edges) ==
    {n \in Elements(nodes) :
       /\ n.released
       /\ \A x \in Elements(nodes) : x.sequenceId < n.sequenceId => x.released
       /\ \A e \in Elements(edges) : e.sequenceId < n.sequenceId => e.released}

\* Mutant of DecisionPoint: the last node of the order, released or not.
DecisionPointAtEnd(o) ==
    LET n == CHOOSE n \in Elements(o.nodes) :
                \A m \in Elements(o.nodes) : m.sequenceId <= n.sequenceId
    IN  [nodeId |-> n.nodeId, sequenceId |-> n.sequenceId]

\* The last of them; ("", -1) when the order releases nothing.
DecisionPoint(o) ==
    LET passed == ReleasedPrefix(o.nodes, o.edges)
    IN  IF passed = {} THEN [nodeId |-> NoNode, sequenceId |-> -1]
        ELSE LET n == CHOOSE n \in passed :
                        \A m \in passed : m.sequenceId <= n.sequenceId
             IN  [nodeId |-> n.nodeId, sequenceId |-> n.sequenceId]

\* Mutants of KeptNodes: the decision point is kept beside its repetition; the
\* array is filtered and not cut.
KeptNodesAll(s) ==
    Filter(s.nodes, {n \in Elements(s.nodes) :
                        n.released /\ n.sequenceId >= s.lastNodeSequenceId})

KeptNodesUncut(s) ==
    LET kept == KeptNodesAll(s)
    IN  [i \in DOMAIN s.nodes |-> IF i <= Len(kept) THEN kept[i] ELSE ZeroNode]


\* What stitch keeps of the nodes and edges it holds.
KeptNodes(s) ==
    Filter(s.nodes, {n \in Elements(s.nodes) :
                        /\ n.released
                        /\ n.sequenceId >= s.lastNodeSequenceId
                        /\ n.sequenceId # s.decisionSequenceId})

KeptEdges(s) ==
    Filter(s.edges, {e \in Elements(s.edges) :
                        e.released /\ e.sequenceId >= s.lastNodeSequenceId})

IsNew(s, o) == o.orderId # s.orderId

\* Mutants of Accepted: an update leaves the decision point where it was; it
\* is put in front of what is kept.
AcceptedUpTo(s, o) ==
    IF IsNew(s, o)
    THEN [s EXCEPT !.orderUpdateId = o.orderUpdateId,
                   !.decisionNodeId = DecisionPoint(o).nodeId,
                   !.decisionSequenceId = DecisionPoint(o).sequenceId,
                   !.orderId = o.orderId,
                   !.lastNodeId = o.nodes[1].nodeId,
                   !.lastNodeSequenceId = o.nodes[1].sequenceId,
                   !.cancelled = FALSE,
                   !.nodes = o.nodes, !.edges = o.edges]
    ELSE [s EXCEPT !.orderUpdateId = o.orderUpdateId,
                   !.nodes = KeptNodes(s) \o o.nodes,
                   !.edges = KeptEdges(s) \o o.edges]

AcceptedInFront(s, o) ==
    LET accepted == AcceptedUpTo(s, o)
    IN  IF IsNew(s, o) THEN accepted
        ELSE [accepted EXCEPT !.decisionNodeId = DecisionPoint(o).nodeId,
                              !.decisionSequenceId = DecisionPoint(o).sequenceId,
                              !.nodes = o.nodes \o KeptNodes(s),
                              !.edges = o.edges \o KeptEdges(s)]

\* accept: a new order replaces the old one, an update is stitched.  A new
\* order counts its first node as reached.
Accepted(s, o) ==
    LET decision == DecisionPoint(o)
        common == [s EXCEPT !.orderUpdateId = o.orderUpdateId,
                            !.decisionNodeId = decision.nodeId,
                            !.decisionSequenceId = decision.sequenceId]
    IN  IF IsNew(s, o)
        THEN [common EXCEPT !.orderId = o.orderId,
                            !.lastNodeId = o.nodes[1].nodeId,
                            !.lastNodeSequenceId = o.nodes[1].sequenceId,
                            !.cancelled = FALSE,
                            !.nodes = o.nodes, !.edges = o.edges]
        ELSE [common EXCEPT !.nodes = KeptNodes(s) \o o.nodes,
                            !.edges = KeptEdges(s) \o o.edges]

\* Checks 3 to 5 of AcceptOrder, on a new order; "" is acceptance.
NewOrderError(s, o, pos) ==
    IF ~IsIdle(s) THEN "OTHER_ORDER_ACTIVE"
    ELSE IF o.orderUpdateId # 0 THEN "INVALID_ORDER"
    ELSE IF ~StartNodeInRange(o, pos) THEN "START_NODE_OUT_OF_RANGE"
    ELSE ""

\* Checks 9 and 10: the update starts at the decision point.
ContinuesFromDecision(s, o) ==
    /\ o.nodes[1].nodeId = s.decisionNodeId
    /\ o.nodes[1].sequenceId = s.decisionSequenceId

\* Mutant of UpdateError: without check 8.
UpdateErrorRepeated(s, o) ==
    IF o.orderUpdateId < s.orderUpdateId THEN "OUTDATED_ORDER_UPDATE"
    ELSE IF s.cancelled THEN "ORDER_UPDATE_FOLLOWING_CANCEL"
    ELSE IF ~ContinuesFromDecision(s, o) THEN "INVALID_ORDER"
    ELSE ""

\* Checks 6 to 10, on an update of the current order.
UpdateError(s, o) ==
    IF o.orderUpdateId < s.orderUpdateId THEN "OUTDATED_ORDER_UPDATE"
    ELSE IF s.cancelled THEN "ORDER_UPDATE_FOLLOWING_CANCEL"
    ELSE IF o.orderUpdateId = s.orderUpdateId THEN "SAME_ORDER_UPDATE_ID"
    ELSE IF ~ContinuesFromDecision(s, o) THEN "INVALID_ORDER"
    ELSE ""

Rejection(s, o, pos) ==
    IF IsNew(s, o) THEN NewOrderError(s, o, pos) ELSE UpdateError(s, o)

\* AcceptOrder: the next order state, the same one after a rejection.
AcceptOrder(s, o, pos) ==
    IF Rejection(s, o, pos) = "" THEN Accepted(s, o) ELSE s

-----------------------------------------------------------------------------
(* The other writers of the order state: robot/main.go and                 *)
(* robot/instant_actions.go.                                               *)

\* The index the loops of sequenceIdFor and actionsForNode stop at.
FirstIndex(nodes, nodeId) ==
    CHOOSE i \in DOMAIN nodes :
       /\ nodes[i].nodeId = nodeId
       /\ \A j \in 1..i-1 : nodes[j].nodeId # nodeId

KnowsNode(s, nodeId) == \E n \in Elements(s.nodes) : n.nodeId = nodeId

SequenceIdFor(s, nodeId) ==
    IF KnowsNode(s, nodeId)
    THEN s.nodes[FirstIndex(s.nodes, nodeId)].sequenceId ELSE -1

ActionsForNode(s, nodeId) ==
    IF KnowsNode(s, nodeId)
    THEN s.nodes[FirstIndex(s.nodes, nodeId)].actions ELSE <<>>

\* onTick, when the simulator has just arrived at a node.
Arrived(s, nodeId) ==
    [s EXCEPT !.lastNodeId = nodeId,
              !.lastNodeSequenceId = SequenceIdFor(s, nodeId)]

\* cancelOrder: keepNodesUpTo and keepEdgesUpTo leave what was traversed.
Cancelled(s) ==
    LET Traversed(elements) ==
            Filter(elements, {x \in Elements(elements) :
                                 x.sequenceId <= s.lastNodeSequenceId})
    IN  [s EXCEPT !.cancelled = TRUE,
                  !.nodes = Traversed(s.nodes), !.edges = Traversed(s.edges)]

Paused(s, on) == [s EXCEPT !.paused = on]

\* Mutant of Ahead: the node the robot stands on is still ahead.
AheadOrReached(s, elements) ==
    {x \in Elements(elements) : x.sequenceId >= s.lastNodeSequenceId}

\* The nodes, or the edges, that buildState reports as still to come.
Ahead(s, elements) ==
    {x \in Elements(elements) : x.sequenceId > s.lastNodeSequenceId}

\* The robot is about to run out of base.
NewBaseRequest(s) == Cardinality({n \in Ahead(s, s.nodes) : n.released}) < 2

-----------------------------------------------------------------------------

\* The fields of an order state.
Fields == {"orderId", "orderUpdateId", "cancelled", "paused", "lastNodeId",
           "lastNodeSequenceId", "decisionNodeId", "decisionSequenceId",
           "nodes", "edges"}

\* What the robot and the dispatcher rely on: edges[i] leads from nodes[i] to
\* nodes[i+1], one step of the journey after the other.
Paired(nodes, edges) ==
    /\ Len(nodes) = Len(edges) + 1
    /\ \A i \in DOMAIN edges :
          /\ edges[i].startNodeId = nodes[i].nodeId
          /\ edges[i].endNodeId = nodes[i+1].nodeId
          /\ edges[i].sequenceId = nodes[i].sequenceId + 1
          /\ nodes[i+1].sequenceId = edges[i].sequenceId + 1

\* The base of a chain ends in nodes[r].
ReleasedUpTo(nodes, edges, r) ==
    /\ \A i \in DOMAIN nodes : nodes[i].released <=> i <= r
    /\ \A i \in DOMAIN edges : edges[i].released <=> i < r

\* Order messages M as they are decoded: arrays, with numbers for ids.  No
\* order is empty; ValidateOrder lets one pass, but fleet control sends none.
MessagesTyped(M) ==
    \A o \in M :
       /\ o.orderUpdateId \in Int /\ o.nodes # <<>>
       /\ o.nodes \in Seq(Elements(o.nodes)) /\ o.edges \in Seq(Elements(o.edges))
       /\ \A n \in Elements(o.nodes) : n.sequenceId \in Int

\* An order as fleet control builds it: with an id, in the order of the
\* journey, with a base in front.
WellFormed(o) ==
    /\ o.orderId # NoOrder
    /\ o.nodes \in Seq(Elements(o.nodes)) /\ o.edges \in Seq(Elements(o.edges))
    /\ \A n \in Elements(o.nodes) : n.sequenceId \in Int
    /\ Paired(o.nodes, o.edges)
    /\ \E r \in DOMAIN o.nodes : ReleasedUpTo(o.nodes, o.edges, r)

=============================================================================

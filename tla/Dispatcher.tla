----------------------------- MODULE Dispatcher -----------------------------
(***************************************************************************)
(* fleet/dispatcher.go: a route is handed out window by window.  d.mu makes *)
(* each method one step.  Indices count from 1, so that the code's -1, the *)
(* releasedIdx before Start, is 0.                                         *)
(***************************************************************************)
EXTENDS Orders

CONSTANTS
    RouteNodes, RouteEdges,   \* the route, nothing of it released
    RouteOrder,               \* its orderId
    ReleaseWindow             \* releaseWindow

\* What NewDispatcher is given: edges[i] connects nodes[i] to nodes[i+1].
ASSUME RouteAssumption ==
    /\ RouteNodes \in Seq([nodeId : STRING, sequenceId : Int,
                           released : {FALSE}, actions : {<<>>}])
    /\ RouteEdges \in Seq([startNodeId : STRING, endNodeId : STRING,
                           sequenceId : Int, released : {FALSE},
                           actions : {<<>>}])
    /\ Paired(RouteNodes, RouteEdges)
    /\ ReleaseWindow \in Nat \ {0}

VARIABLES
    nodes, edges,   \* d.nodes, d.edges
    releasedIdx,    \* the last released node, where the next window starts
    nextUpdateId,
    published       \* the last order that publish was given

dispVars == <<nodes, edges, releasedIdx, nextUpdateId, published>>

NothingPublished == [orderId |-> NoOrder, orderUpdateId |-> 0,
                     nodes |-> <<>>, edges |-> <<>>]

\* NewDispatcher.
Fresh == /\ nodes' = RouteNodes /\ edges' = RouteEdges
         /\ releasedIdx' = 0 /\ nextUpdateId' = 0
         /\ UNCHANGED published

DInit ==
    /\ nodes = RouteNodes /\ edges = RouteEdges
    /\ releasedIdx = 0 /\ nextUpdateId = 0
    /\ published = NothingPublished

ClampEnd(end) == IF end > Len(nodes) THEN Len(nodes) ELSE end

\* Mutant of Release: the edge that leads into the window is forgotten.
ReleaseInside(from, to) ==
    /\ nodes' = [i \in DOMAIN nodes |->
                    [nodes[i] EXCEPT !.released = @ \/ i \in from..to]]
    /\ edges' = [i \in DOMAIN edges |->
                    [edges[i] EXCEPT !.released = @ \/ i \in from..to-1]]

\* release: the nodes from..to and the edges that lead into them.
Release(from, to) ==
    /\ nodes' = [i \in DOMAIN nodes |->
                    [nodes[i] EXCEPT !.released = @ \/ i \in from..to]]
    /\ edges' = [i \in DOMAIN edges |->
                    [edges[i] EXCEPT !.released = @ \/ i \in from-1..to-1]]

\* buildOrder, which looks at what release has left.
BuildOrder(start, end, updateId) ==
    [orderId |-> RouteOrder, orderUpdateId |-> updateId,
     nodes |-> SubSeq(nodes', start, end),
     edges |-> SubSeq(edges', start, end - 1)]

Start ==
    LET end == ClampEnd(ReleaseWindow)
    IN  /\ Release(1, end)
        /\ releasedIdx' = end /\ nextUpdateId' = 1
        /\ published' = BuildOrder(1, end, 0)

\* Mutant of Wanted: whose order the robot executes does not matter.
WantedByAnyone(orderId) == releasedIdx < Len(nodes)

\* ExtendIfNeeded has something to do for a robot that executes orderId.
Wanted(orderId) == orderId = RouteOrder /\ releasedIdx < Len(nodes)

\* But before Start there is no decision point: buildOrder slices from -1.
Panics(orderId) == Wanted(orderId) /\ releasedIdx = 0

\* Mutants of Extend: the decision point is not sent again; the update ids do
\* not advance.
ExtendBehind(orderId) ==
    LET end == ClampEnd(releasedIdx + ReleaseWindow)
    IN  /\ Wanted(orderId) /\ ~Panics(orderId)
        /\ Release(releasedIdx + 1, end)
        /\ published' = BuildOrder(releasedIdx + 1, end, nextUpdateId)
        /\ releasedIdx' = end /\ nextUpdateId' = nextUpdateId + 1

ExtendSameId(orderId) ==
    LET end == ClampEnd(releasedIdx + ReleaseWindow)
    IN  /\ Wanted(orderId) /\ ~Panics(orderId)
        /\ Release(releasedIdx + 1, end)
        /\ published' = BuildOrder(releasedIdx, end, nextUpdateId)
        /\ releasedIdx' = end /\ UNCHANGED nextUpdateId

Extend(orderId) ==
    LET end == ClampEnd(releasedIdx + ReleaseWindow)
    IN  /\ Wanted(orderId) /\ ~Panics(orderId)
        /\ Release(releasedIdx + 1, end)
        /\ published' = BuildOrder(releasedIdx, end, nextUpdateId)
        /\ releasedIdx' = end /\ nextUpdateId' = nextUpdateId + 1

\* A dispatcher is started once; onConnect may put a fresh one in its place.
DNext ==
    \/ Fresh
    \/ releasedIdx = 0 /\ Start
    \/ \E orderId \in {NoOrder, RouteOrder} : Extend(orderId)

DSpec == DInit /\ [][DNext]_dispVars

-----------------------------------------------------------------------------

\* The released part of the route is a base: all of it before all that is not
\* released, and an edge only with both of its nodes.
ReleasedInOrder ==
    /\ DOMAIN nodes = DOMAIN RouteNodes /\ DOMAIN edges = DOMAIN RouteEdges
    /\ \A i \in DOMAIN nodes : nodes[i].released <=> i <= releasedIdx
    /\ \A i \in DOMAIN edges : edges[i].released <=> i < releasedIdx

\* Each update goes on where the order or update before it ended: its first
\* node is the last one of its predecessor, under the next update id, and what
\* it holds is a released piece of the route.
WindowsJoin ==
    [][published' # published =>
          /\ Paired(published'.nodes, published'.edges)
          /\ \A n \in Elements(published'.nodes) : n.released
          /\ IF releasedIdx = 0
             THEN published'.orderUpdateId = 0
             ELSE /\ published'.orderUpdateId = published.orderUpdateId + 1
                  /\ published'.nodes[1] = published.nodes[Len(published.nodes)]
      ]_dispVars

=============================================================================

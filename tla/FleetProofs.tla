----------------------------- MODULE FleetProofs -----------------------------
(***************************************************************************)
(* Theorems about Dispatcher, for routes of every length and every window, *)
(* and about Fleet: fleet control, with its connections, experiments,      *)
(* restarts and panics, uses its dispatchers as Dispatcher has it, and what *)
(* it sends keeps the robot on its journey.  The last one is about the     *)
(* other, careless sender of OrderValidation.                              *)
(***************************************************************************)
EXTENDS Fleet, OrderValidation, OrdersProofs

Node == [nodeId : STRING, sequenceId : Int, released : BOOLEAN, actions : {<<>>}]
Edge == [startNodeId : STRING, endNodeId : STRING, sequenceId : Int,
         released : BOOLEAN, actions : {<<>>}]

\* The route when its first k nodes are released.
NodesUpTo(k) == [i \in 1..Len(RouteNodes) |->
                    [RouteNodes[i] EXCEPT !.released = i <= k]]
EdgesUpTo(k) == [i \in 1..Len(RouteEdges) |->
                    [RouteEdges[i] EXCEPT !.released = i < k]]

\* The inductive invariant: the route is released up to releasedIdx, and what
\* was published last ends there.
DInv ==
    /\ releasedIdx \in 0..Len(RouteNodes) /\ nextUpdateId \in Nat
    /\ nodes = NodesUpTo(releasedIdx) /\ edges = EdgesUpTo(releasedIdx)
    /\ releasedIdx > 0 =>
          /\ published.orderUpdateId = nextUpdateId - 1
          /\ published.nodes[Len(published.nodes)] = nodes[releasedIdx]

\* The lengths of a route, and the fields of its elements.
LEMMA RouteShape ==
    /\ Len(RouteEdges) \in Nat /\ Len(RouteNodes) = Len(RouteEdges) + 1
    /\ DOMAIN RouteNodes = 1..Len(RouteNodes)
    /\ DOMAIN RouteEdges = 1..Len(RouteEdges)
    /\ \A i \in 1..Len(RouteNodes) :
          RouteNodes[i] \in Node /\ ~RouteNodes[i].released
    /\ \A i \in 1..Len(RouteEdges) :
          RouteEdges[i] \in Edge /\ ~RouteEdges[i].released
    /\ ReleaseWindow \in Nat /\ ReleaseWindow > 0
  <1>1. /\ RouteNodes \in Seq([nodeId : STRING, sequenceId : Int,
                               released : {FALSE}, actions : {<<>>}])
        /\ RouteEdges \in Seq([startNodeId : STRING, endNodeId : STRING,
                               sequenceId : Int, released : {FALSE},
                               actions : {<<>>}])
        /\ Len(RouteNodes) = Len(RouteEdges) + 1
        /\ ReleaseWindow \in Nat \ {0}
    BY RouteAssumption DEF RouteAssumption, Paired
  <1>2. /\ Len(RouteEdges) \in Nat
        /\ DOMAIN RouteNodes = 1..Len(RouteNodes)
        /\ DOMAIN RouteEdges = 1..Len(RouteEdges)
    BY <1>1
  <1>3. ASSUME NEW i \in 1..Len(RouteNodes)
        PROVE  RouteNodes[i] \in Node /\ ~RouteNodes[i].released
    <2>1. RouteNodes[i] \in [nodeId : STRING, sequenceId : Int,
                             released : {FALSE}, actions : {<<>>}]
      BY <1>1, ElementOfSeq, Zenon
    <2> QED
      BY <2>1 DEF Node
  <1>4. ASSUME NEW i \in 1..Len(RouteEdges)
        PROVE  RouteEdges[i] \in Edge /\ ~RouteEdges[i].released
    <2>1. RouteEdges[i] \in [startNodeId : STRING, endNodeId : STRING,
                             sequenceId : Int, released : {FALSE},
                             actions : {<<>>}]
      BY <1>1, ElementOfSeq, Zenon
    <2> QED
      BY <2>1 DEF Edge
  <1> QED
    BY <1>1, <1>2, <1>3, <1>4

\* What the dispatcher holds are sequences as long as the route.
LEMMA UpToShape ==
    ASSUME NEW k \in Int
    PROVE  /\ NodesUpTo(k) \in Seq(Node) /\ Len(NodesUpTo(k)) = Len(RouteNodes)
           /\ EdgesUpTo(k) \in Seq(Edge) /\ Len(EdgesUpTo(k)) = Len(RouteEdges)
  <1>1. \A i \in 1..Len(RouteNodes) :
           [RouteNodes[i] EXCEPT !.released = i <= k] \in Node
    <2>1. ASSUME NEW n \in Node, NEW b \in BOOLEAN
          PROVE  [n EXCEPT !.released = b] \in Node
      BY DEF Node
    <2>2. \A i \in 1..Len(RouteNodes) : (i <= k) \in BOOLEAN
      OBVIOUS
    <2> QED
      BY <2>1, <2>2, RouteShape, Zenon
  <1>2. \A i \in 1..Len(RouteEdges) :
           [RouteEdges[i] EXCEPT !.released = i < k] \in Edge
    <2>1. ASSUME NEW e \in Edge, NEW b \in BOOLEAN
          PROVE  [e EXCEPT !.released = b] \in Edge
      BY DEF Edge
    <2>2. \A i \in 1..Len(RouteEdges) : (i < k) \in BOOLEAN
      OBVIOUS
    <2> QED
      BY <2>1, <2>2, RouteShape, Zenon
  <1>3. NodesUpTo(k) \in [1..Len(RouteNodes) -> Node]
    BY <1>1 DEF NodesUpTo
  <1>4. EdgesUpTo(k) \in [1..Len(RouteEdges) -> Edge]
    BY <1>2 DEF EdgesUpTo
  <1> QED
    BY <1>3, <1>4, RouteShape

\* Nothing is released when the route is new.
LEMMA NothingReleased ==
    RouteNodes = NodesUpTo(0) /\ RouteEdges = EdgesUpTo(0)
  <1>1. \A i \in 1..Len(RouteNodes) :
           RouteNodes[i] = [RouteNodes[i] EXCEPT !.released = i <= 0]
    BY RouteShape DEF Node
  <1>2. \A i \in 1..Len(RouteEdges) :
           RouteEdges[i] = [RouteEdges[i] EXCEPT !.released = i < 0]
    BY RouteShape DEF Edge
  <1>3. RouteNodes = [i \in 1..Len(RouteNodes) |-> RouteNodes[i]]
    BY RouteAssumption DEF RouteAssumption
  <1>4. RouteEdges = [i \in 1..Len(RouteEdges) |-> RouteEdges[i]]
    BY RouteAssumption DEF RouteAssumption
  <1>5. \A i \in 1..Len(RouteEdges) : (i < 0) = FALSE
    BY RouteShape
  <1> QED
    BY <1>1, <1>2, <1>3, <1>4 DEF NodesUpTo, EdgesUpTo

\* release moves the end of what is released.
LEMMA ReleaseUpTo ==
    ASSUME NEW k \in Nat, NEW to \in Nat, k <= to,
           nodes = NodesUpTo(k), edges = EdgesUpTo(k), Release(k + 1, to)
    PROVE  nodes' = NodesUpTo(to) /\ edges' = EdgesUpTo(to)
  <1>1. /\ DOMAIN nodes = 1..Len(RouteNodes)
        /\ DOMAIN edges = 1..Len(RouteEdges)
    BY DEF NodesUpTo, EdgesUpTo
  <1>2. ASSUME NEW i \in 1..Len(RouteNodes)
        PROVE  [nodes[i] EXCEPT !.released = @ \/ i \in k+1..to]
                  = [RouteNodes[i] EXCEPT !.released = i <= to]
    <2>1. nodes[i] = [RouteNodes[i] EXCEPT !.released = i <= k]
      BY DEF NodesUpTo
    <2>2. (i <= k \/ i \in k+1..to) = (i <= to)
      BY RouteShape
    <2>3. RouteNodes[i] \in Node
      BY RouteShape
    <2>4. nodes[i].released = (i <= k)
      BY <2>1, <2>3 DEF Node
    <2>5. [nodes[i] EXCEPT !.released = @ \/ i \in k+1..to]
             = [nodes[i] EXCEPT !.released = i <= to]
      BY <2>2, <2>4
    <2> QED
      BY <2>1, <2>3, <2>5 DEF Node
  <1>3. ASSUME NEW i \in 1..Len(RouteEdges)
        PROVE  [edges[i] EXCEPT !.released = @ \/ i \in k..to-1]
                  = [RouteEdges[i] EXCEPT !.released = i < to]
    <2>1. edges[i] = [RouteEdges[i] EXCEPT !.released = i < k]
      BY DEF EdgesUpTo
    <2>2. (i < k \/ i \in k..to-1) = (i < to)
      BY RouteShape
    <2>3. RouteEdges[i] \in Edge
      BY RouteShape
    <2>4. edges[i].released = (i < k)
      BY <2>1, <2>3 DEF Edge
    <2>5. [edges[i] EXCEPT !.released = @ \/ i \in k..to-1]
             = [edges[i] EXCEPT !.released = i < to]
      BY <2>2, <2>4
    <2> QED
      BY <2>1, <2>3, <2>5 DEF Edge
  <1>4. k + 1 - 1 = k
    OBVIOUS
  <1>5. nodes' = [i \in 1..Len(RouteNodes) |->
                    [nodes[i] EXCEPT !.released = @ \/ i \in k+1..to]]
    BY <1>1 DEF Release
  <1>6. edges' = [i \in 1..Len(RouteEdges) |->
                    [edges[i] EXCEPT !.released = @ \/ i \in k+1-1..to-1]]
    BY <1>1 DEF Release
  <1>7. nodes' = NodesUpTo(to)
    BY <1>2, <1>5, Zenon DEF NodesUpTo
  <1>8. edges' = EdgesUpTo(to)
    BY <1>3, <1>4, <1>6, Zenon DEF EdgesUpTo
  <1> QED
    BY <1>7, <1>8

\* A window of the route, released to its end.
Window(from, to, id) ==
    [orderId |-> RouteOrder, orderUpdateId |-> id,
     nodes |-> SubSeq(NodesUpTo(to), from, to),
     edges |-> SubSeq(EdgesUpTo(to), from, to - 1)]

\* Where the first window ends; no other ends before it.
FirstEnd == IF ReleaseWindow > Len(RouteNodes)
            THEN Len(RouteNodes) ELSE ReleaseWindow

Windows ==
    UNION {{Window(from, to, id) : from \in 1..to, id \in Nat} :
              to \in FirstEnd..Len(RouteNodes)}

SameStep(n, m) == n.nodeId = m.nodeId /\ n.sequenceId = m.sequenceId

\* What a window holds.
HoldsWindow(o, from, to, id) ==
    /\ o.orderUpdateId = id /\ o.orderId = RouteOrder
    /\ o.nodes \in Seq(Node) /\ o.edges \in Seq(Edge)
    /\ Len(o.nodes) = to - from + 1
    /\ o.nodes[1] = NodesUpTo(to)[from]
    /\ o.nodes[Len(o.nodes)] = NodesUpTo(to)[to]
    /\ \A n \in Elements(o.nodes) : n.released
    /\ \A e \in Elements(o.edges) : e.released
    /\ \A i \in DOMAIN o.nodes : SameStep(o.nodes[i], RouteNodes[from+i-1])
    /\ Paired(o.nodes, o.edges)

LEMMA WindowShape ==
    ASSUME NEW from \in Nat, NEW to \in Nat, NEW id, 0 < from, from <= to,
           to <= Len(RouteNodes)
    PROVE  HoldsWindow(Window(from, to, id), from, to, id)
  <1> DEFINE o == Window(from, to, id)
             ns == SubSeq(NodesUpTo(to), from, to)
             es == SubSeq(EdgesUpTo(to), from, to - 1)
  <1>1. /\ o.nodes = ns /\ o.edges = es /\ o.orderUpdateId = id
        /\ o.orderId = RouteOrder
    BY DEF Window
  <1>2. /\ NodesUpTo(to) \in Seq(Node) /\ Len(NodesUpTo(to)) = Len(RouteNodes)
        /\ EdgesUpTo(to) \in Seq(Edge) /\ Len(EdgesUpTo(to)) = Len(RouteEdges)
    BY UpToShape
  <1>3. \A i \in from..to : NodesUpTo(to)[i] \in Node
    BY <1>2, RouteShape, LenProperties
  <1>4. \A i \in from..to-1 : EdgesUpTo(to)[i] \in Edge
    BY <1>2, RouteShape, LenProperties
  <1>5. /\ ns \in Seq(Node) /\ Len(ns) = to - from + 1
        /\ \A i \in 1..to-from+1 : ns[i] = NodesUpTo(to)[from+i-1]
    BY <1>3, SubSeqProperties
  <1>6. /\ es \in Seq(Edge) /\ Len(es) = to - from
        /\ \A i \in 1..to-from : es[i] = EdgesUpTo(to)[from+i-1]
    <2>1. /\ es \in Seq(Edge)
          /\ Len(es) = IF from <= to-1 THEN (to-1)-from+1 ELSE 0
          /\ \A i \in 1..(to-1)-from+1 : es[i] = EdgesUpTo(to)[from+i-1]
      BY <1>4, SubSeqProperties
    <2> QED
      BY <2>1
  <1>7. \A i \in 1..to-from+1 :
           /\ ns[i] = [RouteNodes[from+i-1] EXCEPT !.released = from+i-1 <= to]
           /\ from+i-1 \in 1..Len(RouteNodes)
    <2> TAKE i \in 1..to-from+1
    <2>1. from+i-1 \in 1..Len(RouteNodes)
      BY RouteShape
    <2>2. ns[i] = NodesUpTo(to)[from+i-1]
      BY <1>5
    <2> QED
      BY <2>1, <2>2, Zenon DEF NodesUpTo
  <1>8. \A i \in 1..to-from :
           /\ es[i] = [RouteEdges[from+i-1] EXCEPT !.released = from+i-1 < to]
           /\ from+i-1 \in 1..Len(RouteEdges)
    <2> TAKE i \in 1..to-from
    <2>1. from+i-1 \in 1..Len(RouteEdges)
      BY RouteShape
    <2>2. es[i] = EdgesUpTo(to)[from+i-1]
      BY <1>6
    <2> QED
      BY <2>1, <2>2, Zenon DEF EdgesUpTo
  <1>9. \A n \in Elements(ns) : n.released
    <2> SUFFICES ASSUME NEW i \in DOMAIN ns PROVE ns[i].released
      BY DEF Elements
    <2>1. i \in 1..to-from+1
      BY <1>5
    <2>2. RouteNodes[from+i-1] \in Node
      BY <1>7, <2>1, RouteShape
    <2>3. from+i-1 <= to
      BY <2>1
    <2> QED
      BY <1>7, <2>1, <2>2, <2>3 DEF Node
  <1>10. Paired(ns, es)
    <2>1. Len(ns) = Len(es) + 1
      BY <1>5, <1>6
    <2>2. ASSUME NEW i \in DOMAIN es
          PROVE  /\ es[i].startNodeId = ns[i].nodeId
                 /\ es[i].endNodeId = ns[i+1].nodeId
                 /\ es[i].sequenceId = ns[i].sequenceId + 1
                 /\ ns[i+1].sequenceId = es[i].sequenceId + 1
      <3> DEFINE k == from+i-1
      <3>1. i \in 1..to-from /\ i \in Nat /\ k \in Nat
        BY <1>6
      <3>2. /\ es[i] = [RouteEdges[k] EXCEPT !.released = k < to]
            /\ k \in DOMAIN RouteEdges /\ RouteEdges[k] \in Edge
        BY <1>8, <3>1, RouteShape
      <3>3. /\ ns[i] = [RouteNodes[k] EXCEPT !.released = k <= to]
            /\ RouteNodes[k] \in Node
        <4>1. i \in 1..to-from+1
          BY <3>1
        <4> QED
          BY <1>7, <4>1, RouteShape, Zenon
      <3>4. i+1 \in 1..to-from+1 /\ from+(i+1)-1 = k+1
        BY <3>1
      <3>5. /\ ns[i+1] = [RouteNodes[k+1] EXCEPT !.released = k+1 <= to]
            /\ RouteNodes[k+1] \in Node
        BY <1>7, <3>4, RouteShape
      <3>6. /\ RouteEdges[k].startNodeId = RouteNodes[k].nodeId
            /\ RouteEdges[k].endNodeId = RouteNodes[k+1].nodeId
            /\ RouteEdges[k].sequenceId = RouteNodes[k].sequenceId + 1
            /\ RouteNodes[k+1].sequenceId = RouteEdges[k].sequenceId + 1
        BY <3>2, RouteAssumption DEF RouteAssumption, Paired
      <3>7. /\ es[i].startNodeId = RouteEdges[k].startNodeId
            /\ es[i].endNodeId = RouteEdges[k].endNodeId
            /\ es[i].sequenceId = RouteEdges[k].sequenceId
        BY <3>2 DEF Edge
      <3>8. ns[i].nodeId = RouteNodes[k].nodeId
            /\ ns[i].sequenceId = RouteNodes[k].sequenceId
        BY <3>3 DEF Node
      <3>9. ns[i+1].nodeId = RouteNodes[k+1].nodeId
            /\ ns[i+1].sequenceId = RouteNodes[k+1].sequenceId
        BY <3>5 DEF Node
      <3> QED
        BY <3>6, <3>7, <3>8, <3>9
    <2> QED
      BY <2>1, <2>2 DEF Paired
  <1>11. ns[1] = NodesUpTo(to)[from] /\ ns[Len(ns)] = NodesUpTo(to)[to]
    BY <1>5
  <1>12. \A e \in Elements(es) : e.released
    <2> SUFFICES ASSUME NEW i \in DOMAIN es PROVE es[i].released
      BY DEF Elements
    <2>1. i \in 1..to-from
      BY <1>6
    <2>2. RouteEdges[from+i-1] \in Edge
      BY <1>8, <2>1, RouteShape
    <2>3. from+i-1 < to
      BY <2>1
    <2> QED
      BY <1>8, <2>1, <2>2, <2>3 DEF Edge
  <1>13. ASSUME NEW i \in DOMAIN ns PROVE SameStep(ns[i], RouteNodes[from+i-1])
    <2>1. i \in 1..to-from+1
      BY <1>5
    <2>2. RouteNodes[from+i-1] \in Node
      BY <1>7, <2>1, RouteShape
    <2> QED
      BY <1>7, <2>1, <2>2 DEF Node, SameStep
  <1> HIDE DEF o, ns, es
  <1> QED
    BY <1>1, <1>5, <1>6, <1>9, <1>10, <1>11, <1>12, <1>13 DEF o, HoldsWindow

-----------------------------------------------------------------------------

\* A window ends on the route, and is not empty.
LEMMA ClampedEnd ==
    ASSUME DInv, NEW end \in Nat, end > 0
    PROVE  /\ ClampEnd(end) \in 1..Len(RouteNodes)
           /\ end > releasedIdx /\ releasedIdx < Len(RouteNodes)
                 => ClampEnd(end) > releasedIdx
  <1>1. Len(nodes) = Len(RouteNodes)
    BY UpToShape DEF DInv
  <1> QED
    BY <1>1, RouteShape DEF ClampEnd, DInv

LEMMA ClampBehindFirst ==
    ASSUME DInv, NEW end \in Nat, end >= ReleaseWindow
    PROVE  ClampEnd(end) >= FirstEnd
  <1>1. Len(nodes) = Len(RouteNodes)
    BY UpToShape DEF DInv
  <1> QED
    BY <1>1, RouteShape DEF ClampEnd, FirstEnd

\* What Start and Extend do: they release the route up to its new end, and
\* publish the window under the update id that was next.
LEMMA StartStep ==
    ASSUME DInv, releasedIdx = 0, Start
    PROVE  /\ DInv' /\ published' \in Windows
           /\ releasedIdx' \in 1..Len(RouteNodes) /\ releasedIdx' > 0
           /\ nextUpdateId' = 1 /\ published' = Window(1, releasedIdx', 0)
           /\ Paired(published'.nodes, published'.edges)
           /\ \A n \in Elements(published'.nodes) : n.released
           /\ published'.orderUpdateId = 0
  <1> DEFINE end == ClampEnd(ReleaseWindow)
  <1>1. end \in 1..Len(RouteNodes)
    BY ClampedEnd, RouteShape
  <1>2. /\ Release(0 + 1, end) /\ releasedIdx' = end /\ nextUpdateId' = 1
        /\ published' = BuildOrder(1, end, 0)
    BY DEF Start
  <1>3. nodes = NodesUpTo(0) /\ edges = EdgesUpTo(0)
    BY DEF DInv
  <1> HIDE DEF end
  <1>4. nodes' = NodesUpTo(end) /\ edges' = EdgesUpTo(end)
    BY <1>1, <1>2, <1>3, ReleaseUpTo
  <1>5. published' = Window(1, end, 0)
    BY <1>2, <1>4 DEF BuildOrder, Window
  <1>6. /\ published'.orderUpdateId = 0
        /\ published'.nodes[Len(published'.nodes)] = nodes'[end]
        /\ \A n \in Elements(published'.nodes) : n.released
        /\ Paired(published'.nodes, published'.edges)
    BY <1>1, <1>4, <1>5, WindowShape DEF HoldsWindow
  <1>7. published' \in Windows
    <2>1. end \in FirstEnd..Len(RouteNodes)
      BY <1>1, RouteShape, ClampBehindFirst DEF end
    <2> QED
      BY <1>1, <1>5, <2>1 DEF Windows
  <1> QED
    BY <1>1, <1>2, <1>4, <1>5, <1>6, <1>7 DEF DInv

LEMMA ExtendStep ==
    ASSUME DInv, NEW orderId, Extend(orderId)
    PROVE  /\ DInv' /\ published' \in Windows
           /\ releasedIdx > 0 /\ releasedIdx' > releasedIdx
           /\ releasedIdx' \in 1..Len(RouteNodes)
           /\ nextUpdateId' = nextUpdateId + 1
           /\ published' = Window(releasedIdx, releasedIdx', nextUpdateId)
           /\ Paired(published'.nodes, published'.edges)
           /\ \A n \in Elements(published'.nodes) : n.released
           /\ published'.orderUpdateId = published.orderUpdateId + 1
           /\ published'.nodes[1] = published.nodes[Len(published.nodes)]
  <1> DEFINE end == ClampEnd(releasedIdx + ReleaseWindow)
  <1>1. /\ Release(releasedIdx + 1, end) /\ releasedIdx' = end
        /\ published' = BuildOrder(releasedIdx, end, nextUpdateId)
        /\ nextUpdateId' = nextUpdateId + 1
    BY DEF Extend
  <1>2. /\ releasedIdx \in Nat /\ releasedIdx > 0
        /\ releasedIdx < Len(RouteNodes) /\ nextUpdateId \in Nat
        /\ nodes = NodesUpTo(releasedIdx) /\ edges = EdgesUpTo(releasedIdx)
    <2>1. Len(nodes) = Len(RouteNodes)
      BY UpToShape DEF DInv
    <2> QED
      BY <2>1, RouteShape DEF DInv, Extend, Wanted, Panics
  <1>3. end \in 1..Len(RouteNodes) /\ end > releasedIdx
    BY <1>2, ClampedEnd, RouteShape
  <1> HIDE DEF end
  <1>4. nodes' = NodesUpTo(end) /\ edges' = EdgesUpTo(end)
    BY <1>1, <1>2, <1>3, ReleaseUpTo
  <1>5. published' = Window(releasedIdx, end, nextUpdateId)
    BY <1>1, <1>4 DEF BuildOrder, Window
  <1>6. /\ published'.orderUpdateId = nextUpdateId
        /\ published'.nodes[1] = nodes'[releasedIdx]
        /\ published'.nodes[Len(published'.nodes)] = nodes'[end]
        /\ \A n \in Elements(published'.nodes) : n.released
        /\ Paired(published'.nodes, published'.edges)
    BY <1>2, <1>3, <1>4, <1>5, WindowShape DEF HoldsWindow
  <1>7. nodes'[releasedIdx] = nodes[releasedIdx]
    <2>1. releasedIdx \in 1..Len(RouteNodes)
      BY <1>2
    <2>2. (releasedIdx <= end) = (releasedIdx <= releasedIdx)
      BY <1>2, <1>3
    <2>3. NodesUpTo(end)[releasedIdx] = NodesUpTo(releasedIdx)[releasedIdx]
      BY <2>1, <2>2, Zenon DEF NodesUpTo
    <2> QED
      BY <1>2, <1>4, <2>3
  <1>8. /\ published.orderUpdateId = nextUpdateId - 1
        /\ published.nodes[Len(published.nodes)] = nodes[releasedIdx]
    BY <1>2 DEF DInv
  <1>9. DInv'
    BY <1>1, <1>2, <1>3, <1>4, <1>6 DEF DInv
  <1>10. published' \in Windows
    <2>1. end \in FirstEnd..Len(RouteNodes)
      BY <1>2, <1>3, RouteShape, ClampBehindFirst DEF end
    <2> QED
      BY <1>2, <1>3, <1>5, <2>1 DEF Windows
  <1> QED
    BY <1>1, <1>2, <1>3, <1>5, <1>6, <1>7, <1>8, <1>9, <1>10

LEMMA FreshStep ==
    ASSUME Fresh PROVE DInv'
  BY NothingReleased, RouteShape DEF Fresh, DInv

LEMMA DInitInv == DInit => DInv
  BY NothingReleased, RouteShape DEF DInit, DInv

LEMMA DStepInv == DInv /\ [DNext]_dispVars => DInv'
  <1> SUFFICES ASSUME DInv, [DNext]_dispVars PROVE DInv'
    OBVIOUS
  <1>1. CASE Fresh
    BY <1>1, FreshStep
  <1>2. CASE releasedIdx = 0 /\ Start
    BY <1>2, StartStep
  <1>3. ASSUME NEW orderId, Extend(orderId) PROVE DInv'
    BY <1>3, ExtendStep
  <1>4. CASE UNCHANGED dispVars
    BY <1>4 DEF dispVars, DInv
  <1> QED
    BY <1>1, <1>2, <1>3, <1>4 DEF DNext

LEMMA InvReleasedInOrder == DInv => ReleasedInOrder
  <1> SUFFICES ASSUME DInv PROVE ReleasedInOrder
    OBVIOUS
  <1>1. /\ DOMAIN nodes = DOMAIN RouteNodes /\ DOMAIN edges = DOMAIN RouteEdges
    BY RouteShape DEF DInv, NodesUpTo, EdgesUpTo
  <1>2. ASSUME NEW i \in DOMAIN nodes
        PROVE  nodes[i].released <=> i <= releasedIdx
    <2>1. RouteNodes[i] \in Node
      BY <1>1, RouteShape
    <2>2. nodes[i] = [RouteNodes[i] EXCEPT !.released = i <= releasedIdx]
      BY <1>1, RouteShape DEF DInv, NodesUpTo
    <2> QED
      BY <2>1, <2>2 DEF Node
  <1>3. ASSUME NEW i \in DOMAIN edges
        PROVE  edges[i].released <=> i < releasedIdx
    <2>1. RouteEdges[i] \in Edge
      BY <1>1, RouteShape
    <2>2. edges[i] = [RouteEdges[i] EXCEPT !.released = i < releasedIdx]
      BY <1>1, RouteShape DEF DInv, EdgesUpTo
    <2> QED
      BY <2>1, <2>2 DEF Edge
  <1> QED
    BY <1>1, <1>2, <1>3 DEF ReleasedInOrder

\* The released part of the route is a base, for every route and window.
THEOREM ReleasesInOrder == DSpec => []ReleasedInOrder
  <1>1. DInit => DInv
    BY DInitInv
  <1>2. DInv /\ [DNext]_dispVars => DInv'
    BY DStepInv
  <1>3. DInv => ReleasedInOrder
    BY InvReleasedInOrder
  <1> QED
    BY <1>1, <1>2, <1>3, PTL DEF DSpec

\* Each update begins where its predecessor ended, with the next update id,
\* and holds a released piece of the route.
THEOREM UpdatesJoin == DSpec => WindowsJoin
  <1> DEFINE Joins ==
        published' # published =>
          /\ Paired(published'.nodes, published'.edges)
          /\ \A n \in Elements(published'.nodes) : n.released
          /\ IF releasedIdx = 0
             THEN published'.orderUpdateId = 0
             ELSE /\ published'.orderUpdateId = published.orderUpdateId + 1
                  /\ published'.nodes[1] = published.nodes[Len(published.nodes)]
  <1>1. DInit => DInv
    BY DInitInv
  <1>2. DInv /\ [DNext]_dispVars => DInv'
    BY DStepInv
  <1>3. DInv /\ [DNext]_dispVars => [Joins]_dispVars
    <2> SUFFICES ASSUME DInv, DNext PROVE Joins
      OBVIOUS
    <2>1. CASE Fresh
      BY <2>1 DEF Fresh
    <2>2. CASE releasedIdx = 0 /\ Start
      BY <2>2, StartStep
    <2>3. ASSUME NEW orderId, Extend(orderId) PROVE Joins
      <3>1. releasedIdx > 0
        BY <2>3, ExtendStep
      <3> QED
        BY <2>3, <3>1, ExtendStep DEF DInv
    <2> QED
      BY <2>1, <2>2, <2>3 DEF DNext
  <1> QED
    BY <1>1, <1>2, <1>3, PTL DEF DSpec, WindowsJoin

-----------------------------------------------------------------------------
(* Fleet control.                                                          *)

\* A dispatcher is new until onConnect starts it, since a request before that
\* panics and changes nothing.
NewUntilStarted == connectPc = "start" => releasedIdx = 0

\* A request is for the route, or for nothing.
LEMMA ExtendIsStep ==
    ASSUME NEW orderId, Extend(orderId) PROVE DNext
  <1>1. orderId = RouteOrder
    BY DEF Extend, Wanted
  <1> QED
    BY <1>1 DEF DNext

LEMMA FleetStep ==
    ASSUME NewUntilStarted, [FNext]_vars
    PROVE  NewUntilStarted' /\ [DNext]_dispVars
  <1>1. CASE Subscribe \/ StartDemo \/ NoExperiment
    BY <1>1 DEF Subscribe, StartDemo, NoExperiment, NewUntilStarted
  <1>2. CASE WireDispatcher
    BY <1>2 DEF WireDispatcher, Fresh, DNext, NewUntilStarted
  <1>3. CASE StartDispatcher
    <2>1. Start /\ releasedIdx = 0 /\ connectPc' = "connected"
      BY <1>3 DEF StartDispatcher, NewUntilStarted
    <2> QED
      BY <2>1 DEF DNext, NewUntilStarted
  <1>4. CASE Reconnect
    BY <1>4 DEF Reconnect, NewUntilStarted
  <1>5. CASE Restart
    BY <1>5 DEF Restart, Fresh, DNext, NewUntilStarted
  <1>6. ASSUME NEW c \in Connections, PublishBase(c) \/ PublishUpdate(c)
        PROVE  NewUntilStarted' /\ [DNext]_dispVars
    BY <1>6 DEF PublishBase, PublishUpdate, NewUntilStarted, dispVars
  <1>7. CASE ToggleDrop
    BY <1>7 DEF ToggleDrop, fleetVars, NewUntilStarted, dispVars
  <1>8. ASSUME NEW order, PostOrder(order)
        PROVE  NewUntilStarted' /\ [DNext]_dispVars
    BY <1>8 DEF PostOrder, fleetVars, NewUntilStarted, dispVars
  <1>9. CASE OnStateExtends
    <2>1. /\ Extend(Head(states).orderId) /\ connectPc' = connectPc
      BY <1>9 DEF OnStateExtends
    <2>2. releasedIdx # 0
      BY <2>1 DEF Extend, Panics
    <2> QED
      BY <2>1, <2>2, ExtendIsStep DEF NewUntilStarted
  <1>10. CASE OnStatePanics
    BY <1>10 DEF OnStatePanics, NewUntilStarted
  <1>11. CASE OnStateOnly
    BY <1>11 DEF OnStateOnly, NewUntilStarted, dispVars
  <1>12. CASE AcceptsOrder \/ RejectsOrder
    BY <1>12 DEF AcceptsOrder, RejectsOrder, fleetVars, NewUntilStarted, dispVars
  <1>13. CASE DriveLeg \/ ReportState
    BY <1>13 DEF DriveLeg, ReportState, fleetVars, NewUntilStarted, dispVars
  <1>14. CASE LoseOrder \/ LoseState
    BY <1>14 DEF LoseOrder, LoseState, fleetVars, NewUntilStarted, dispVars
  <1>15. CASE UNCHANGED vars
    BY <1>15 DEF vars, fleetVars, NewUntilStarted, dispVars
  <1> QED
    BY <1>1, <1>2, <1>3, <1>4, <1>5, <1>6, <1>7, <1>8, <1>9, <1>10, <1>11,
       <1>12, <1>13, <1>14, <1>15 DEF FNext, ConnectStep, OnState

THEOREM FleetUsesDispatcher == FSpec => DSpec
  <1>1. FInit => NewUntilStarted /\ DInit
    BY DEF FInit, NewUntilStarted
  <1> QED
    BY <1>1, FleetStep, PTL DEF FSpec, DSpec

\* Whatever is lost, reconnects or starts again, the released part of the route
\* is a base.
THEOREM FleetReleasesInOrder == FSpec => []ReleasedInOrder
  BY FleetUsesDispatcher, ReleasesInOrder

\* And what is published of it joins.
THEOREM FleetUpdatesJoin == FSpec => WindowsJoin
  BY FleetUsesDispatcher, UpdatesJoin

-----------------------------------------------------------------------------
(* What fleet control and the viewer send, and what becomes of it.         *)

\* The messages the robot may accept: it always rejects BadUpdate.
Sound == Windows \union {BaseOrder, GoodUpdate}

\* The journey of each of the two orders.
Road(id) == IF id = RouteOrder THEN RouteNodes ELSE BaseOrder.nodes

RoadEdges(id) == IF id = RouteOrder THEN RouteEdges ELSE BaseOrder.edges

StaysOn(nodes1, road) ==
    \A i \in DOMAIN nodes1 : \E j \in DOMAIN road : SameStep(nodes1[i], road[j])

\* The elements of the demo orders.
DemoNodes == {DemoNode(i, k) : i \in 1..5, k \in Int}
DemoEdges == {DemoEdge(i, k) : i \in 1..4, k \in Int}

LEMMA DemoElements ==
    /\ \A i \in 1..5 : \A k \in Int :
          /\ DemoNode(i, k) \in DemoNodes
          /\ DemoNode(i, k).nodeId = DemoPlaces[i]
          /\ DemoNode(i, k).sequenceId = 2 * (i - 1)
          /\ DemoNode(i, k).released = (i <= k)
    /\ \A i \in 1..4 : \A k \in Int :
          /\ DemoEdge(i, k) \in DemoEdges
          /\ DemoEdge(i, k).startNodeId = DemoPlaces[i]
          /\ DemoEdge(i, k).endNodeId = DemoPlaces[i+1]
          /\ DemoEdge(i, k).sequenceId = 2 * i - 1
          /\ DemoEdge(i, k).released = (i < k)
  <1>1. ASSUME NEW i, NEW k
        PROVE  /\ DemoNode(i, k).nodeId = DemoPlaces[i]
               /\ DemoNode(i, k).sequenceId = 2 * (i - 1)
               /\ DemoNode(i, k).released = (i <= k)
    BY DEF DemoNode, ZeroNode
  <1>2. ASSUME NEW i, NEW k
        PROVE  /\ DemoEdge(i, k).startNodeId = DemoPlaces[i]
               /\ DemoEdge(i, k).endNodeId = DemoPlaces[i+1]
               /\ DemoEdge(i, k).sequenceId = 2 * i - 1
               /\ DemoEdge(i, k).released = (i < k)
    BY DEF DemoEdge, ZeroEdge
  <1> QED
    BY <1>1, <1>2 DEF DemoNodes, DemoEdges

LEMMA BaseShape ==
    /\ BaseOrder.orderId = "demo-order-1" /\ BaseOrder.orderUpdateId = 0
    /\ Chain(DemoNodes, DemoEdges, BaseOrder.nodes, BaseOrder.edges)
    /\ ReleasedUpTo(BaseOrder.nodes, BaseOrder.edges, 3)
    /\ DOMAIN BaseOrder.nodes = 1..5
    /\ BaseOrder.nodes[3].sequenceId = 4
    /\ \A i \in 1..5 : /\ BaseOrder.nodes[i].nodeId = DemoPlaces[i]
                       /\ BaseOrder.nodes[i].sequenceId = 2 * (i - 1)
  <1> DEFINE ns == [i \in 1..5 |-> DemoNode(i, 3)]
             es == [i \in 1..4 |-> DemoEdge(i, 3)]
  <1>1. /\ BaseOrder.nodes = ns /\ BaseOrder.edges = es
        /\ BaseOrder.orderId = "demo-order-1" /\ BaseOrder.orderUpdateId = 0
    BY DEF BaseOrder
  <1>2. \A i \in 1..5 :
           /\ ns[i] \in DemoNodes /\ ns[i].nodeId = DemoPlaces[i]
           /\ ns[i].sequenceId = 2 * (i - 1) /\ ns[i].released = (i <= 3)
    BY DemoElements
  <1>3. \A i \in 1..4 :
           /\ es[i] \in DemoEdges /\ es[i].startNodeId = DemoPlaces[i]
           /\ es[i].endNodeId = DemoPlaces[i+1]
           /\ es[i].sequenceId = 2 * i - 1 /\ es[i].released = (i < 3)
    BY DemoElements
  <1>4. DOMAIN ns = 1..5 /\ DOMAIN es = 1..4
    OBVIOUS
  <1> HIDE DEF ns, es
  <1>5. ns \in Seq(DemoNodes) /\ es \in Seq(DemoEdges)
    <2>1. ns \in [1..5 -> DemoNodes] /\ es \in [1..4 -> DemoEdges]
      BY <1>2, <1>3, <1>4 DEF ns, es
    <2>2. 5 \in Nat /\ 4 \in Nat
      OBVIOUS
    <2> QED
      BY <2>1, <2>2, SeqOfFunction, Zenon
  <1>6. Len(ns) = 5 /\ Len(es) = 4
    BY <1>4, <1>5
  <1>7. Paired(ns, es)
    BY <1>2, <1>3, <1>4, <1>6 DEF Paired
  <1>8. ReleasedUpTo(ns, es, 3)
    BY <1>2, <1>3, <1>4 DEF ReleasedUpTo
  <1>9. \A n \in DemoNodes : n.sequenceId \in Int
    BY DemoElements DEF DemoNodes
  <1> QED
    BY <1>1, <1>2, <1>4, <1>5, <1>7, <1>8, <1>9 DEF Chain

LEMMA UpdateShape ==
    /\ GoodUpdate.orderId = "demo-order-1" /\ GoodUpdate.orderUpdateId = 1
    /\ Chain(DemoNodes, DemoEdges, GoodUpdate.nodes, GoodUpdate.edges)
    /\ ReleasedUpTo(GoodUpdate.nodes, GoodUpdate.edges, 2)
    /\ DOMAIN GoodUpdate.nodes = 1..3
    /\ GoodUpdate.nodes[2].sequenceId = 6
    /\ \A i \in 1..3 : SameStep(GoodUpdate.nodes[i], BaseOrder.nodes[i+2])
  <1> DEFINE ns == [i \in 1..3 |-> DemoNode(i + 2, 4)]
             es == [i \in 1..2 |-> DemoEdge(i + 2, 4)]
  <1>1. /\ GoodUpdate.nodes = ns /\ GoodUpdate.edges = es
        /\ GoodUpdate.orderId = "demo-order-1" /\ GoodUpdate.orderUpdateId = 1
    BY DEF GoodUpdate
  <1>2. \A i \in 1..3 :
           /\ ns[i] \in DemoNodes /\ ns[i].nodeId = DemoPlaces[i+2]
           /\ ns[i].sequenceId = 2 * (i + 1) /\ ns[i].released = (i <= 2)
    <2> TAKE i \in 1..3
    <2>1. ns[i] = DemoNode(i + 2, 4) /\ i + 2 \in 1..5
      OBVIOUS
    <2> HIDE DEF ns
    <2> QED
      BY <2>1, DemoElements
  <1>3. \A i \in 1..2 :
           /\ es[i] \in DemoEdges /\ es[i].startNodeId = DemoPlaces[i+2]
           /\ es[i].endNodeId = DemoPlaces[i+3]
           /\ es[i].sequenceId = 2 * i + 3 /\ es[i].released = (i < 2)
    <2> TAKE i \in 1..2
    <2>1. es[i] = DemoEdge(i + 2, 4) /\ i + 2 \in 1..4
      OBVIOUS
    <2> HIDE DEF es
    <2> QED
      BY <2>1, DemoElements
  <1>4. DOMAIN ns = 1..3 /\ DOMAIN es = 1..2
    OBVIOUS
  <1> HIDE DEF ns, es
  <1>5. ns \in Seq(DemoNodes) /\ es \in Seq(DemoEdges)
    <2>1. ns \in [1..3 -> DemoNodes] /\ es \in [1..2 -> DemoEdges]
      BY <1>2, <1>3, <1>4 DEF ns, es
    <2>2. 3 \in Nat /\ 2 \in Nat
      OBVIOUS
    <2> QED
      BY <2>1, <2>2, SeqOfFunction, Zenon
  <1>6. Len(ns) = 3 /\ Len(es) = 2
    BY <1>4, <1>5
  <1>7. Paired(ns, es)
    BY <1>2, <1>3, <1>4, <1>6 DEF Paired
  <1>8. ReleasedUpTo(ns, es, 2)
    BY <1>2, <1>3, <1>4 DEF ReleasedUpTo
  <1>9. \A n \in DemoNodes : n.sequenceId \in Int
    BY DemoElements DEF DemoNodes
  <1>10. \A i \in 1..3 : SameStep(ns[i], BaseOrder.nodes[i+2])
    BY <1>2, BaseShape DEF SameStep
  <1> QED
    BY <1>1, <1>2, <1>4, <1>5, <1>7, <1>8, <1>9, <1>10 DEF Chain

\* A chain whose steps are steps of a road is a gapless piece of it.
LEMMA PieceOfRoad ==
    ASSUME NEW N1, NEW E1, NEW ns, NEW es, Chain(N1, E1, ns, es),
           NEW N2, NEW E2, NEW road, NEW legs, Chain(N2, E2, road, legs),
           StaysOn(ns, road)
    PROVE  IsPieceOf(ns, road)
  <1>1. Counts(ns, es) /\ Counts(road, legs)
    BY ChainCounts
  <1>2. 1 \in DOMAIN ns /\ Len(ns) \in DOMAIN ns /\ Len(ns) \in Nat
        /\ Len(road) \in Nat
    BY <1>1 DEF Counts
  <1>3. PICK from \in DOMAIN road : SameStep(ns[1], road[from])
    BY <1>2 DEF StaysOn
  <1>4. ASSUME NEW i \in DOMAIN ns
        PROVE  from + i - 1 \in DOMAIN road /\ SameStep(ns[i], road[from+i-1])
    <2>1. PICK j \in DOMAIN road : SameStep(ns[i], road[j])
      BY DEF StaysOn
    <2>2. /\ ns[i].sequenceId = ns[1].sequenceId + 2 * (i - 1)
          /\ road[j].sequenceId = road[1].sequenceId + 2 * (j - 1)
          /\ road[from].sequenceId = road[1].sequenceId + 2 * (from - 1)
          /\ road[1].sequenceId \in Int
      BY <1>1 DEF Counts
    <2>3. i \in Int /\ j \in Int /\ from \in Int
      BY <1>1 DEF Counts
    <2>4. /\ ns[1].sequenceId = road[from].sequenceId
          /\ ns[i].sequenceId = road[j].sequenceId
      BY <1>3, <2>1 DEF SameStep
    <2>5. j = from + i - 1
      BY <2>2, <2>3, <2>4
    <2> QED
      BY <2>1, <2>5
  <1> DEFINE to == from + Len(ns) - 1
             piece == SubSeq(road, from, to)
  <1>5. from \in 1..Len(road) /\ to \in from..Len(road)
    <2>1. to \in DOMAIN road
      BY <1>2, <1>4
    <2> HIDE DEF to
    <2>2. from \in 1..Len(road) /\ to \in 1..Len(road)
      BY <1>1, <2>1 DEF Counts
    <2>3. Len(ns) >= 1
      BY <1>1 DEF Counts
    <2> QED
      BY <1>2, <2>2, <2>3 DEF to
  <1>6. /\ DOMAIN piece = DOMAIN ns
        /\ \A i \in DOMAIN ns : piece[i] = road[from+i-1]
    <2>1. \A i \in from..to : road[i] \in N2
      <3>1. \A i \in from..to : i \in 1..Len(road)
        BY <1>5
      <3> HIDE DEF to
      <3> QED
        BY <3>1 DEF Chain
    <2>2. from \in Int /\ to \in Int /\ from <= to
      BY <1>5
    <2>3. /\ piece \in Seq(N2) /\ Len(piece) = to - from + 1
          /\ \A i \in 1..to-from+1 : piece[i] = road[from+i-1]
      <3> HIDE DEF to
      <3> QED
        BY <2>1, <2>2, SubSeqProperties
    <2>4. to - from + 1 = Len(ns) /\ DOMAIN ns = 1..Len(ns)
      BY <1>1, <1>2, <2>2 DEF Counts
    <2> HIDE DEF to, piece
    <2> QED
      BY <2>3, <2>4, LenProperties
  <1>7. Trail(ns) = Trail(piece)
    <2>1. \A i \in DOMAIN ns : /\ ns[i].nodeId = piece[i].nodeId
                               /\ ns[i].sequenceId = piece[i].sequenceId
      <3> HIDE DEF piece
      <3> QED
        BY <1>4, <1>6 DEF SameStep
    <2> HIDE DEF piece
    <2> QED
      BY <1>6, <2>1 DEF Trail
  <1> QED
    BY <1>5, <1>7 DEF IsPieceOf

LEMMA RouteChain == Chain(Node, Edge, RouteNodes, RouteEdges)
  <1>1. RouteNodes \in Seq(Node) /\ RouteEdges \in Seq(Edge)
    BY NothingReleased, UpToShape
  <1>2. Paired(RouteNodes, RouteEdges)
    BY RouteAssumption DEF RouteAssumption
  <1>3. \A n \in Node : n.sequenceId \in Int
    BY DEF Node
  <1> QED
    BY <1>1, <1>2, <1>3 DEF Chain

LEMMA RoadChain ==
    ASSUME NEW o \in Sound
    PROVE  \E N, E : Chain(N, E, Road(o.orderId), RoadEdges(o.orderId))
  BY RouteChain, BaseShape DEF Road, RoadEdges

LastOf(o) == o.nodes[Len(o.nodes)]

\* What may be accepted is well-formed, stays on its road, and the route is
\* released at least to the end of its first window.
LEMMA WindowFits ==
    ASSUME NEW o \in Windows
    PROVE  /\ o.orderId = RouteOrder /\ o.orderUpdateId \in Int
           /\ WellFormed(o) /\ StaysOn(o.nodes, RouteNodes)
           /\ DecisionPoint(o).sequenceId >= RouteNodes[FirstEnd].sequenceId
           /\ DecisionPoint(o) = [nodeId |-> LastOf(o).nodeId,
                                  sequenceId |-> LastOf(o).sequenceId]
           /\ ValidateOrder(o) <=> RouteNodes[1].sequenceId % 2 = 0
           /\ \E N, E : Chain(N, E, o.nodes, o.edges)
  <1>1. PICK to \in FirstEnd..Len(RouteNodes) :
           \E from \in 1..to, id \in Nat : o = Window(from, to, id)
    BY DEF Windows
  <1>2. PICK from \in 1..to, id \in Nat : o = Window(from, to, id)
    BY <1>1
  <1>3. PICK ns, es : ns = o.nodes /\ es = o.edges
    OBVIOUS
  <1>4. /\ from \in Nat /\ to \in Nat /\ 0 < from /\ from <= to
        /\ to <= Len(RouteNodes) /\ FirstEnd \in 1..Len(RouteNodes)
    BY <1>1, <1>2, RouteShape DEF FirstEnd
  <1>5. /\ o.orderUpdateId = id /\ o.orderId = RouteOrder
        /\ ns \in Seq(Node) /\ es \in Seq(Edge)
        /\ Len(ns) = to - from + 1
        /\ \A n \in Elements(ns) : n.released
        /\ \A e \in Elements(es) : e.released
        /\ \A i \in DOMAIN ns : SameStep(ns[i], RouteNodes[from+i-1])
        /\ Paired(ns, es)
    <2>1. HoldsWindow(o, from, to, id)
      BY <1>2, <1>4, WindowShape
    <2> QED
      BY <1>3, <2>1, Zenon DEF HoldsWindow
  <1>6. Chain(Node, Edge, ns, es)
    BY <1>5 DEF Chain, Node
  <1>7. Counts(ns, es)
    BY <1>6, ChainCounts
  <1> DEFINE r == to - from + 1
  <1>8. r \in DOMAIN ns /\ ReleasedUpTo(ns, es, r)
    <2>1. DOMAIN ns = 1..r /\ DOMAIN es = 1..r-1 /\ r \in Nat
      BY <1>4, <1>5, <1>7 DEF Counts
    <2>2. r \in DOMAIN ns
      BY <1>4, <2>1
    <2> HIDE DEF r
    <2> QED
      BY <1>5, <2>1, <2>2 DEF ReleasedUpTo, Elements
  <1>9. ASSUME NEW i \in DOMAIN ns PROVE from + i - 1 \in DOMAIN RouteNodes
    <2>1. DOMAIN RouteNodes = 1..Len(RouteNodes) /\ Len(RouteNodes) \in Nat
      BY RouteShape
    <2>2. DOMAIN ns = 1..to - from + 1
      BY <1>5, <1>7 DEF Counts
    <2> QED
      BY <1>4, <2>1, <2>2
  <1>10. StaysOn(ns, RouteNodes)
    BY <1>5, <1>9 DEF StaysOn
  <1>11. /\ ns \in Seq(Elements(ns)) /\ es \in Seq(Elements(es))
    <2>1. ns \in [1..Len(ns) -> Elements(ns)] /\ Len(ns) \in Nat
      BY <1>6, <1>7 DEF Elements, Chain
    <2>2. es \in [1..Len(es) -> Elements(es)] /\ Len(es) \in Nat
      BY <1>6, <1>7 DEF Elements, Chain
    <2> QED
      BY <2>1, <2>2, SeqOfFunction, Zenon
  <1>12. \A n \in Elements(ns) : n.sequenceId \in Int
    <2>1. \A i \in DOMAIN ns : ns[i].sequenceId \in Int
      BY <1>6 DEF Chain
    <2> QED
      BY <2>1 DEF Elements
  <1>13. WellFormed(o)
    BY <1>3, <1>5, <1>8, <1>11, <1>12, FleetAssumption
       DEF WellFormed, FleetAssumption
  <1>15. DecisionPoint(o) = [nodeId |-> ns[r].nodeId,
                             sequenceId |-> ns[r].sequenceId]
    BY <1>3, <1>6, <1>8, DecisionOfBase
  <1>16. ns[r] = LastOf(o)
    BY <1>3, <1>5 DEF LastOf
  <1>17. ValidateOrder(o) <=> RouteNodes[1].sequenceId % 2 = 0
    <2>1. ValidateOrder(o) <=> ns[1].sequenceId % 2 = 0
      BY <1>3, <1>6, <1>8, ChainValid
    <2>2. 1 \in DOMAIN ns /\ from + 1 - 1 = from
      BY <1>4, <1>7 DEF Counts
    <2>3. ns[1].sequenceId = RouteNodes[from].sequenceId
      <3>1. SameStep(ns[1], RouteNodes[from + 1 - 1])
        BY <1>5, <2>2
      <3> QED
        BY <2>2, <3>1 DEF SameStep
    <2>4. Counts(RouteNodes, RouteEdges)
      BY RouteChain, ChainCounts
    <2>5. RouteNodes[from].sequenceId = RouteNodes[1].sequenceId + 2 * (from - 1)
          /\ RouteNodes[1].sequenceId \in Int
      BY <1>4, <2>4 DEF Counts
    <2>6. RouteNodes[from].sequenceId % 2 = RouteNodes[1].sequenceId % 2
      BY <1>4, <2>5
    <2> QED
      BY <2>1, <2>3, <2>6
  <1>14. DecisionPoint(o).sequenceId >= RouteNodes[FirstEnd].sequenceId
    <2>2. ns[r].sequenceId = RouteNodes[to].sequenceId
      <3>1. from + r - 1 = to
        BY <1>4
      <3> HIDE DEF r
      <3> QED
        BY <1>5, <1>8, <3>1 DEF SameStep
    <2>3. Counts(RouteNodes, RouteEdges)
      BY RouteChain, ChainCounts
    <2>4. RouteNodes[to].sequenceId >= RouteNodes[FirstEnd].sequenceId
      BY <1>1, <1>4, <2>3 DEF Counts
    <2> HIDE DEF r
    <2> QED
      BY <1>15, <2>2, <2>4
  <1> HIDE DEF r
  <1> QED
    BY <1>3, <1>5, <1>6, <1>10, <1>13, <1>14, <1>15, <1>16, <1>17

LEMMA DemoFits ==
    ASSUME NEW o \in {BaseOrder, GoodUpdate}
    PROVE  /\ o.orderId = BaseOrder.orderId /\ o.orderUpdateId \in Int
           /\ WellFormed(o) /\ StaysOn(o.nodes, BaseOrder.nodes)
           /\ DecisionPoint(o).sequenceId \in {4, 6}
  <1>1. PICK ns, es, r :
           /\ ns = o.nodes /\ es = o.edges
           /\ r = IF o = BaseOrder THEN 3 ELSE 2
    OBVIOUS
  <1>2. /\ o.orderId = "demo-order-1" /\ o.orderUpdateId \in {0, 1}
        /\ Chain(DemoNodes, DemoEdges, ns, es)
        /\ ReleasedUpTo(ns, es, r) /\ r \in DOMAIN ns
        /\ ns[r].sequenceId \in {4, 6}
        /\ StaysOn(ns, BaseOrder.nodes)
    <2>1. CASE o = BaseOrder
      <3>1. StaysOn(BaseOrder.nodes, BaseOrder.nodes)
        BY DEF StaysOn, SameStep
      <3>2. r = 3 /\ 3 \in 1..5
        BY <1>1, <2>1
      <3> QED
        BY <1>1, <2>1, <3>1, <3>2, BaseShape
    <2>2. CASE o # BaseOrder
      <3>1. \A i \in 1..3 : i + 2 \in 1..5
        OBVIOUS
      <3>2. StaysOn(GoodUpdate.nodes, BaseOrder.nodes)
        BY <3>1, UpdateShape, BaseShape DEF StaysOn
      <3>3. r = 2 /\ 2 \in 1..3 /\ o = GoodUpdate
        BY <1>1, <2>2
      <3> QED
        BY <1>1, <3>2, <3>3, UpdateShape
    <2> QED
      BY <2>1, <2>2
  <1>3. Counts(ns, es)
    BY <1>2, ChainCounts
  <1>4. /\ ns \in Seq(Elements(ns)) /\ es \in Seq(Elements(es))
    <2>1. ns \in [1..Len(ns) -> Elements(ns)] /\ Len(ns) \in Nat
      BY <1>2, <1>3 DEF Elements, Chain
    <2>2. es \in [1..Len(es) -> Elements(es)] /\ Len(es) \in Nat
      BY <1>2, <1>3 DEF Elements, Chain
    <2> QED
      BY <2>1, <2>2, SeqOfFunction, Zenon
  <1>5. \A n \in Elements(ns) : n.sequenceId \in Int
    <2>1. \A i \in DOMAIN ns : ns[i].sequenceId \in Int
      BY <1>2 DEF Chain
    <2> QED
      BY <2>1 DEF Elements
  <1>6. "demo-order-1" # NoOrder
    BY DEF NoOrder
  <1>7. Paired(ns, es)
    BY <1>2 DEF Chain
  <1>8. WellFormed(o)
    BY <1>1, <1>2, <1>4, <1>5, <1>6, <1>7 DEF WellFormed
  <1>9. DecisionPoint(o) = [nodeId |-> ns[r].nodeId,
                            sequenceId |-> ns[r].sequenceId]
    BY <1>1, <1>2, DecisionOfBase
  <1> QED
    BY <1>1, <1>2, <1>8, <1>9, BaseShape

LEMMA SoundFits == MessagesFit(Sound)
  BY WindowFits, DemoFits DEF Sound, MessagesFit

\* Where the decision point may be.
DecisionFits(id, decision) ==
    /\ id = BaseOrder.orderId => decision \in {4, 6}
    /\ id = RouteOrder => decision >= RouteNodes[FirstEnd].sequenceId

LEMMA SoundOrder ==
    ASSUME NEW o \in Sound
    PROVE  /\ o.orderId \in {RouteOrder, BaseOrder.orderId}
           /\ StaysOn(o.nodes, Road(o.orderId))
           /\ DecisionFits(o.orderId, DecisionPoint(o).sequenceId)
  <1>1. RouteOrder # BaseOrder.orderId
    BY FleetAssumption DEF FleetAssumption
  <1>2. CASE o \in Windows
    BY <1>1, <1>2, WindowFits DEF Road, DecisionFits
  <1>3. CASE o \in {BaseOrder, GoodUpdate}
    BY <1>1, <1>3, DemoFits DEF Road, DecisionFits
  <1> QED
    BY <1>2, <1>3 DEF Sound

\* What the robot holds of an order are steps of one road.
LEMMA HeldStays ==
    ASSUME NEW id, NEW ns \in Seq(NodesOf(Sound, id))
    PROVE  StaysOn(ns, Road(id))
  <1> SUFFICES ASSUME NEW i \in DOMAIN ns
               PROVE  \E j \in DOMAIN Road(id) : SameStep(ns[i], Road(id)[j])
    BY DEF StaysOn
  <1>1. ns[i] \in NodesOf(Sound, id)
    OBVIOUS
  <1>2. PICK o \in Sound : o.orderId = id /\ ns[i] \in Elements(o.nodes)
    BY <1>1 DEF NodesOf
  <1>3. PICK k \in DOMAIN o.nodes : ns[i] = o.nodes[k]
    BY <1>2 DEF Elements
  <1>4. StaysOn(o.nodes, Road(id))
    BY <1>2, SoundOrder
  <1> QED
    BY <1>3, <1>4 DEF StaysOn

-----------------------------------------------------------------------------
(* The robot of the fleet.                                                 *)

\* The inductive invariant: the robot holds a chain of what it was sent, its
\* decision point is one that was sent, and its simulator drives that chain.
RobotInv ==
    /\ HoldsChain(Sound, state) /\ ~state.cancelled
    /\ DecisionFits(state.orderId, state.decisionSequenceId)
    /\ simNodes = state.nodes /\ simEdges = state.edges
    /\ edgeIdx \in Nat \ {0}

OrdersInv == orders \in Seq(Sound \union {BadUpdate})

\* BadUpdate is a newer update from another node than the decision point.
LEMMA BadIsRejected ==
    ASSUME DecisionFits(state.orderId, state.decisionSequenceId), NEW pos
    PROVE  Rejection(state, BadUpdate, pos) # ""
  <1>1. /\ BadUpdate.orderId = "demo-order-1" /\ BadUpdate.orderUpdateId = 1
        /\ BadUpdate.nodes[1].sequenceId = 2
    <2>1. BadUpdate.nodes[1] = DemoNode(2, 4) /\ 2 \in 1..5 /\ 4 \in Int
      BY DEF BadUpdate
    <2>2. DemoNode(2, 4).sequenceId = 2
      BY <2>1, DemoElements
    <2> QED
      BY <2>1, <2>2 DEF BadUpdate
  <1>2. CASE IsNew(state, BadUpdate)
    BY <1>1, <1>2 DEF Rejection, NewOrderError
  <1>3. CASE ~IsNew(state, BadUpdate)
    <2>1. state.decisionSequenceId \in {4, 6}
      BY <1>1, <1>3, BaseShape DEF IsNew, DecisionFits
    <2>2. ~ContinuesFromDecision(state, BadUpdate)
      BY <1>1, <2>1 DEF ContinuesFromDecision
    <2> QED
      BY <1>3, <2>2 DEF Rejection, UpdateError
  <1> QED
    BY <1>2, <1>3

LEMMA AcceptsStep ==
    ASSUME RobotInv, OrdersInv, AcceptsOrder
    PROVE  RobotInv' /\ \E o \in Sound : o = Head(orders)
  <1>1. PICK o : o = Head(orders)
    OBVIOUS
  <1>2. /\ Rejection(state, o, Position) = ""
        /\ state' = Accepted(state, o)
        /\ simNodes' = state'.nodes /\ simEdges' = state'.edges
        /\ edgeIdx' = edgeIdx
    BY <1>1 DEF AcceptsOrder, AcceptOrder
  <1>3. o \in Sound
    <2>1. o \in Sound \union {BadUpdate}
      BY <1>1, HeadTailProperties DEF AcceptsOrder, OrdersInv
    <2> QED
      BY <1>2, <2>1, BadIsRejected DEF RobotInv
  <1>4. ~state.cancelled /\ HoldsChain(Sound, state)
    BY DEF RobotInv
  <1>5. DOMAIN state = Fields
    BY <1>4 DEF HoldsChain, StateTyped, OrderShape
  <1>6. HoldsChain(Sound, state') /\ ~state'.cancelled
    <2>1. CASE IsNew(state, o)
      BY <1>2, <1>3, <1>4, <2>1, SoundFits, AcceptedNew
    <2>2. CASE ~IsNew(state, o)
      <3>1. ContinuesFromDecision(state, o)
        BY <1>2, <2>2 DEF Rejection, UpdateError
      <3>2. HoldsChain(Sound, state')
        BY <1>2, <1>3, <1>4, <2>2, <3>1, SoundFits, AcceptedUpdate
      <3>3. state'.cancelled = state.cancelled
        BY <1>2, <1>5, <2>2 DEF Accepted, Fields
      <3> QED
        BY <1>4, <3>2, <3>3
    <2> QED
      BY <2>1, <2>2
  <1>7. /\ state'.orderId = o.orderId
        /\ state'.decisionSequenceId = DecisionPoint(o).sequenceId
    BY <1>2, <1>5 DEF Accepted, Fields, IsNew
  <1> QED
    BY <1>1, <1>2, <1>3, <1>6, <1>7, SoundOrder DEF RobotInv

LEMMA DriveStep ==
    ASSUME RobotInv, DriveLeg
    PROVE  /\ RobotInv' /\ state.orderId # NoOrder
           /\ \E n \in Elements(state.nodes) :
                 n.released /\ state' = Arrived(state, n.nodeId)
  <1>1. PICK ns, es : ns = state.nodes /\ es = state.edges
    OBVIOUS
  <1>2. /\ edgeIdx \in DOMAIN es /\ es[edgeIdx].released
        /\ state' = Arrived(state, ns[edgeIdx+1].nodeId)
        /\ edgeIdx' = edgeIdx + 1
        /\ simNodes' = simNodes /\ simEdges' = simEdges
    BY <1>1 DEF DriveLeg, RobotInv
  <1>3. state.orderId # NoOrder
    BY <1>1, <1>2 DEF RobotInv, HoldsChain
  <1>4. Counts(ns, es)
    BY <1>1, <1>3, SoundFits, StateChain, ChainCounts DEF RobotInv
  <1>5. PICK r \in DOMAIN ns : \E k \in 1..r : AtBase(state, k, r)
    BY <1>1, <1>3 DEF RobotInv, HoldsChain
  <1>6. ReleasedUpTo(ns, es, r) /\ r \in Int
    BY <1>1, <1>4, <1>5 DEF AtBase, Counts
  <1>7. edgeIdx + 1 \in DOMAIN ns /\ ns[edgeIdx+1].released
    <2>1. edgeIdx < r
      BY <1>2, <1>6 DEF ReleasedUpTo
    <2>2. edgeIdx + 1 \in DOMAIN ns /\ edgeIdx + 1 <= r
      BY <1>2, <1>4, <1>6, <2>1 DEF Counts
    <2> QED
      BY <1>6, <2>2 DEF ReleasedUpTo
  <1>8. PICK n \in Elements(state.nodes) : n = ns[edgeIdx+1]
    BY <1>1, <1>7 DEF Elements
  <1>9. /\ n.released /\ state' = Arrived(state, n.nodeId)
    BY <1>2, <1>7, <1>8
  <1>10. HoldsChain(Sound, state')
    BY <1>3, <1>9, SoundFits, ArrivedChain DEF RobotInv
  <1>11. /\ state'.cancelled = state.cancelled
         /\ state'.orderId = state.orderId
         /\ state'.decisionSequenceId = state.decisionSequenceId
         /\ state'.nodes = state.nodes /\ state'.edges = state.edges
    BY <1>9 DEF Arrived, RobotInv, HoldsChain, StateTyped, OrderShape, Fields
  <1>12. edgeIdx' \in Nat \ {0}
    BY <1>2 DEF RobotInv
  <1> QED
    BY <1>2, <1>3, <1>9, <1>10, <1>11, <1>12 DEF RobotInv

\* The steps that leave the robot alone.
LEMMA RobotElsewhere ==
    ASSUME [FNext]_vars, ~AcceptsOrder, ~DriveLeg
    PROVE  /\ UNCHANGED <<state, simNodes, simEdges, edgeIdx>>
  <1>1. CASE ConnectStep
    BY <1>1 DEF ConnectStep, Subscribe, StartDemo, NoExperiment, WireDispatcher,
                StartDispatcher, robotVars
  <1>2. CASE Reconnect \/ Restart \/ ToggleDrop
    BY <1>2 DEF Reconnect, Restart, ToggleDrop, robotVars
  <1>3. ASSUME NEW c \in Connections, PublishBase(c) \/ PublishUpdate(c)
        PROVE  UNCHANGED <<state, simNodes, simEdges, edgeIdx>>
    BY <1>3 DEF PublishBase, PublishUpdate, robotVars
  <1>4. ASSUME NEW order, PostOrder(order)
        PROVE  UNCHANGED <<state, simNodes, simEdges, edgeIdx>>
    BY <1>4 DEF PostOrder, robotVars
  <1>5. CASE OnState
    BY <1>5 DEF OnState, OnStateExtends, OnStatePanics, OnStateOnly, robotVars
  <1>6. CASE RejectsOrder \/ ReportState \/ LoseOrder \/ LoseState
    BY <1>6 DEF RejectsOrder, ReportState, LoseOrder, LoseState, robotVars
  <1>7. CASE UNCHANGED vars
    BY <1>7 DEF vars, robotVars
  <1> QED
    BY <1>1, <1>2, <1>3, <1>4, <1>5, <1>6, <1>7 DEF FNext

LEMMA RobotStep ==
    ASSUME RobotInv, OrdersInv, [FNext]_vars PROVE RobotInv'
  <1>1. CASE AcceptsOrder
    BY <1>1, AcceptsStep
  <1>2. CASE DriveLeg
    BY <1>2, DriveStep
  <1>3. CASE ~AcceptsOrder /\ ~DriveLeg
    <2>1. UNCHANGED <<state, simNodes, simEdges, edgeIdx>>
      BY <1>3, RobotElsewhere
    <2> QED
      BY <2>1, Zenon DEF RobotInv
  <1> QED
    BY <1>1, <1>2, <1>3

\* What is under way was sent, and there is room for it.
LEMMA SendStep ==
    ASSUME OrdersInv, NEW o \in Sound \union {BadUpdate}, Send(o)
    PROVE  /\ OrdersInv' /\ Len(orders) < MaxInFlight
           /\ Len(orders') = Len(orders) + 1
           /\ orders' = Append(orders, o)
  <1> DEFINE S == Sound \union {BadUpdate}
  <1>1. orders \in Seq(S) /\ orders' = Append(orders, o)
        /\ Len(orders) < MaxInFlight
    BY DEF OrdersInv, Send
  <1> HIDE DEF S
  <1>2. orders' \in Seq(S) /\ Len(orders') = Len(orders) + 1
    BY <1>1 DEF S
  <1> QED
    BY <1>1, <1>2 DEF OrdersInv, S

LEMMA TailStep ==
    ASSUME NEW S, NEW s \in Seq(S), s # <<>>
    PROVE  /\ Tail(s) \in Seq(S) /\ Len(Tail(s)) = Len(s) - 1
           /\ Head(s) \in Elements(s)
           /\ Elements(Tail(s)) \subseteq Elements(s)
  <1>1. /\ Tail(s) \in Seq(S) /\ Len(Tail(s)) = Len(s) - 1
        /\ DOMAIN s = 1..Len(s) /\ Len(s) \in Nat /\ Len(s) # 0
        /\ DOMAIN Tail(s) = 1..Len(s)-1
        /\ Head(s) = s[1] /\ \A i \in 1..Len(s)-1 : Tail(s)[i] = s[i+1]
    BY HeadTailProperties, EmptySeq, LenProperties
  <1>2. 1 \in DOMAIN s /\ \A i \in 1..Len(s)-1 : i + 1 \in DOMAIN s
    BY <1>1
  <1> QED
    BY <1>1, <1>2 DEF Elements

\* Orders are sent one at a time, or taken, or lost.
LEMMA OrdersStep ==
    ASSUME DInv, NewUntilStarted, OrdersInv, [FNext]_vars
    PROVE  \/ orders' = orders
           \/ orders # <<>> /\ orders' = Tail(orders)
           \/ \E o \in Sound \union {BadUpdate} : Send(o)
  <1> DEFINE Moves ==
                \/ orders' = orders
                \/ orders # <<>> /\ orders' = Tail(orders)
                \/ \E o \in Sound \union {BadUpdate} : Send(o)
  <1>1. CASE Subscribe \/ StartDemo \/ NoExperiment \/ WireDispatcher
    BY <1>1 DEF Subscribe, StartDemo, NoExperiment, WireDispatcher
  <1>2. CASE StartDispatcher
    <2>1. Start /\ Send(published') /\ releasedIdx = 0
      BY <1>2 DEF StartDispatcher, NewUntilStarted
    <2> QED
      BY <2>1, StartStep DEF Sound
  <1>3. CASE Reconnect \/ Restart \/ ToggleDrop
    BY <1>3 DEF Reconnect, Restart, ToggleDrop
  <1>4. ASSUME NEW c \in Connections, PublishBase(c) \/ PublishUpdate(c)
        PROVE  Moves
    BY <1>4 DEF PublishBase, PublishUpdate, Sound
  <1>5. ASSUME NEW order \in {BaseOrder, GoodUpdate, BadUpdate},
               PostOrder(order)
        PROVE  Moves
    BY <1>5 DEF PostOrder, Sound
  <1>6. CASE OnStateExtends
    <2>1. Extend(Head(states).orderId) /\ Send(published')
      BY <1>6 DEF OnStateExtends
    <2> QED
      BY <2>1, ExtendStep DEF Sound
  <1>7. CASE OnStatePanics \/ OnStateOnly \/ DriveLeg \/ ReportState \/ LoseState
    BY <1>7 DEF OnStatePanics, OnStateOnly, DriveLeg, ReportState, LoseState
  <1>8. CASE AcceptsOrder \/ RejectsOrder \/ LoseOrder
    BY <1>8 DEF AcceptsOrder, RejectsOrder, LoseOrder
  <1>9. CASE UNCHANGED vars
    BY <1>9 DEF vars
  <1> QED
    BY <1>1, <1>2, <1>3, <1>4, <1>5, <1>6, <1>7, <1>8, <1>9
       DEF FNext, ConnectStep, OnState

FleetInv == DInv /\ NewUntilStarted /\ OrdersInv /\ RobotInv

LEMMA FleetInvStep == FleetInv /\ [FNext]_vars => FleetInv'
  <1> SUFFICES ASSUME FleetInv, [FNext]_vars PROVE FleetInv'
    OBVIOUS
  <1>1. DInv /\ NewUntilStarted /\ OrdersInv /\ RobotInv
    BY DEF FleetInv
  <1>2. NewUntilStarted' /\ [DNext]_dispVars
    BY <1>1, FleetStep
  <1>3. DInv'
    BY <1>1, <1>2, DStepInv
  <1>4. RobotInv'
    BY <1>1, RobotStep
  <1>5. OrdersInv'
    <2>1. CASE orders' = orders
      BY <1>1, <2>1 DEF OrdersInv
    <2>2. CASE orders # <<>> /\ orders' = Tail(orders)
      BY <1>1, <2>2, TailStep DEF OrdersInv
    <2>3. ASSUME NEW o \in Sound \union {BadUpdate}, Send(o) PROVE OrdersInv'
      BY <1>1, <2>3, SendStep
    <2> QED
      BY <1>1, <2>1, <2>2, <2>3, OrdersStep
  <1> QED
    BY <1>2, <1>3, <1>4, <1>5 DEF FleetInv

LEMMA FleetInvInit == FInit => FleetInv
  <1> SUFFICES ASSUME FInit PROVE FleetInv
    OBVIOUS
  <1>1. DInv
    BY DInitInv DEF FInit
  <1>2. NewUntilStarted
    BY DEF FInit, NewUntilStarted
  <1>3. OrdersInv
    BY DEF FInit, OrdersInv
  <1>4. state = NoState /\ simNodes = <<>> /\ simEdges = <<>> /\ edgeIdx = 1
    BY DEF FInit
  <1>5. HoldsChain(Sound, state)
    BY <1>4 DEF NoState, HoldsChain, StateTyped, OrderShape, Fields
  <1>6. NoOrder # RouteOrder /\ NoOrder # BaseOrder.orderId
    BY FleetAssumption, BaseShape DEF FleetAssumption, NoOrder
  <1>7. state.orderId = NoOrder /\ ~state.cancelled
        /\ state.nodes = <<>> /\ state.edges = <<>>
    BY <1>4 DEF NoState
  <1>8. RobotInv
    BY <1>4, <1>5, <1>6, <1>7 DEF RobotInv, DecisionFits
  <1> QED
    BY <1>1, <1>2, <1>3, <1>8 DEF FleetInv

THEOREM FleetCorrect == FSpec => []FleetInv
  BY FleetInvInit, FleetInvStep, PTL DEF FSpec

\* Whatever is lost, refused, posted besides or sent again by a restarted
\* fleet control, and however long the route: the robot holds a gapless piece
\* of one journey and does not drive beyond its decision point.
THEOREM FleetCorruptsNothing == FSpec => []NothingCorrupts
  <1>1. ASSUME FleetInv PROVE NothingCorrupts
    <2> SUFFICES ASSUME state.orderId # NoOrder PROVE NothingCorrupts
      BY DEF NothingCorrupts
    <2>1. PICK ns, es : ns = state.nodes /\ es = state.edges
      OBVIOUS
    <2>2. HoldsChain(Sound, state) /\ ~state.cancelled
      BY <1>1 DEF FleetInv, RobotInv
    <2>3. Chain(NodesOf(Sound, state.orderId), EdgesOf(Sound, state.orderId),
                ns, es)
      BY <2>1, <2>2, SoundFits, StateChain
    <2>4. PICK o \in Sound : o.orderId = state.orderId
      BY <2>2 DEF HoldsChain, StateTyped
    <2>5. PICK N, E : Chain(N, E, Road(state.orderId), RoadEdges(state.orderId))
      BY <2>4, RoadChain
    <2>6. StaysOn(ns, Road(state.orderId))
      BY <2>3, HeldStays DEF Chain
    <2>7. IsPieceOf(ns, Road(state.orderId))
      BY <2>3, <2>5, <2>6, PieceOfRoad
    <2>8. Road(state.orderId) \in {RouteNodes, BaseOrder.nodes}
      BY DEF Road
    <2>9. Paired(ns, es)
      BY <2>3 DEF Chain
    <2>10. state.lastNodeSequenceId <= state.decisionSequenceId
      <3>1. Counts(ns, es)
        BY <2>3, ChainCounts
      <3>2. PICK r \in DOMAIN ns : \E k \in 1..r : AtBase(state, k, r)
        BY <2>1, <2>2 DEF HoldsChain
      <3>3. PICK k \in 1..r : AtBase(state, k, r)
        BY <3>2
      <3>4. /\ state.lastNodeSequenceId = ns[k].sequenceId
            /\ state.decisionSequenceId = ns[r].sequenceId
        BY <2>1, <2>2, <3>3 DEF AtBase
      <3>5. ns[k].sequenceId <= ns[r].sequenceId
        BY <3>1, <3>3 DEF Counts
      <3> QED
        BY <3>4, <3>5
    <2> QED
      BY <2>1, <2>7, <2>8, <2>9, <2>10 DEF NothingCorrupts
  <1>2. FleetInv => NothingCorrupts
    BY <1>1
  <1> QED
    BY <1>2, FleetCorrect, PTL

-----------------------------------------------------------------------------
(* The type of the fleet.                                                  *)

Reports == [orderId : {NoOrder} \union {o.orderId : o \in Sound},
            newBaseRequest : BOOLEAN]

ProcessTyped ==
    /\ experiment \in Experiments
    /\ connectPc \in {"subscribe", "switch", "start", "connected", "panicked"}
    /\ connects \in 1..disturbed+1 /\ disturbed \in 0..MaxDisturbances
    /\ onRequest \in BOOLEAN /\ demos \in [Connections -> {"none", "base", "sleep"}]

LinkTyped ==
    /\ pending \in BOOLEAN /\ dropArmed \in BOOLEAN
    /\ dirty \in BOOLEAN /\ missed \in BOOLEAN
    /\ Len(orders) <= MaxInFlight
    /\ states \in Seq(Reports) /\ Len(states) <= MaxInFlight

LEMMA ProcessStep ==
    ASSUME ProcessTyped, [FNext]_vars PROVE ProcessTyped'
  <1>1. /\ MaxDisturbances \in Nat /\ disturbed \in Nat
        /\ connects \in Connections
    BY FleetAssumption DEF FleetAssumption, ProcessTyped, Connections
  <1>2. \A c \in Connections, x \in {"none", "base", "sleep"} :
           [demos EXCEPT ![c] = x] \in [Connections -> {"none", "base", "sleep"}]
    BY DEF ProcessTyped
  <1>3. NoDemos \in [Connections -> {"none", "base", "sleep"}]
    BY DEF NoDemos
  <1>4. CASE ConnectStep
    <2>1. CASE StartDemo
      <3>1. demos' = [demos EXCEPT ![connects] = "base"]
        BY <2>1 DEF StartDemo
      <3>2. demos' \in [Connections -> {"none", "base", "sleep"}]
        BY <1>1, <1>2, <3>1
      <3> QED
        BY <2>1, <3>2 DEF StartDemo, ProcessTyped, historyVars
    <2>2. CASE Subscribe \/ NoExperiment \/ WireDispatcher \/ StartDispatcher
      BY <2>2 DEF Subscribe, NoExperiment, WireDispatcher, StartDispatcher,
                  ProcessTyped, historyVars
    <2> QED
      BY <1>4, <2>1, <2>2 DEF ConnectStep
  <1>5. CASE Reconnect
    BY <1>1, <1>5 DEF Reconnect, Disturb, ProcessTyped
  <1>6. CASE Restart
    <2>1. /\ disturbed < MaxDisturbances /\ disturbed' = disturbed + 1
          /\ connects' = connects + 1 /\ connectPc' = "subscribe"
          /\ onRequest' = FALSE /\ demos' = NoDemos
          /\ experiment' = experiment
      BY <1>6 DEF Restart, Disturb
    <2>2. connects' \in 1..disturbed'+1 /\ disturbed' \in 0..MaxDisturbances
      BY <1>1, <2>1 DEF ProcessTyped
    <2> QED
      BY <1>3, <2>1, <2>2 DEF ProcessTyped
  <1>7. ASSUME NEW c \in Connections, PublishBase(c) \/ PublishUpdate(c)
        PROVE  ProcessTyped'
    <2>1. demos' \in [Connections -> {"none", "base", "sleep"}]
      BY <1>2, <1>7 DEF PublishBase, PublishUpdate
    <2> QED
      BY <1>7, <2>1 DEF PublishBase, PublishUpdate, ProcessTyped, historyVars
  <1>8. CASE ToggleDrop
    BY <1>8 DEF ToggleDrop, fleetVars, historyVars, ProcessTyped
  <1>9. ASSUME NEW order, PostOrder(order) PROVE ProcessTyped'
    BY <1>1, <1>9 DEF PostOrder, Disturb, fleetVars, ProcessTyped
  <1>10. CASE OnState
    BY <1>3, <1>10 DEF OnState, OnStateExtends, OnStatePanics, OnStateOnly,
                       historyVars, ProcessTyped
  <1>11. CASE AcceptsOrder \/ RejectsOrder \/ DriveLeg \/ ReportState
    BY <1>11 DEF AcceptsOrder, RejectsOrder, DriveLeg, ReportState, fleetVars,
                 historyVars, ProcessTyped
  <1>12. CASE LoseOrder \/ LoseState
    BY <1>1, <1>12 DEF LoseOrder, LoseState, Disturb, fleetVars, ProcessTyped
  <1>13. CASE UNCHANGED vars
    BY <1>13 DEF vars, fleetVars, historyVars, ProcessTyped
  <1> QED
    BY <1>4, <1>5, <1>6, <1>7, <1>8, <1>9, <1>10, <1>11, <1>12, <1>13
       DEF FNext

LEMMA ReportStep ==
    ASSUME FleetInv, LinkTyped, ReportState PROVE LinkTyped'
  <1>1. PICK report : report = [orderId |-> state.orderId,
                                newBaseRequest |-> NewBaseRequest(state)]
    OBVIOUS
  <1>2. report \in Reports
    <2>1. state.orderId \in {NoOrder} \union {o.orderId : o \in Sound}
      BY DEF FleetInv, RobotInv, HoldsChain, StateTyped
    <2>2. NewBaseRequest(state) \in BOOLEAN
      BY DEF NewBaseRequest
    <2> QED
      BY <1>1, <2>1, <2>2 DEF Reports
  <1>3. states' = IF Subscribed THEN Append(states, report) ELSE states
    BY <1>1 DEF ReportState
  <1>4. MaxInFlight \in Nat
    BY FleetAssumption DEF FleetAssumption
  <1>5. states \in Seq(Reports) /\ Len(states) < MaxInFlight
    BY DEF LinkTyped, ReportState
  <1>6. states' \in Seq(Reports) /\ Len(states') <= MaxInFlight
    <2>1. Append(states, report) \in Seq(Reports)
          /\ Len(Append(states, report)) = Len(states) + 1
          /\ Len(states) \in Nat
      BY <1>2, <1>5, AppendProperties
    <2> QED
      BY <1>3, <1>4, <1>5, <2>1
  <1> QED
    BY <1>6 DEF ReportState, LinkTyped, fleetVars, historyVars

LEMMA LinkStep ==
    ASSUME FleetInv, LinkTyped, [FNext]_vars PROVE LinkTyped'
  <1>1. /\ MaxInFlight \in Nat /\ Len(orders) \in Nat
        /\ orders \in Seq(Sound \union {BadUpdate})
    BY FleetAssumption DEF FleetAssumption, FleetInv, OrdersInv
  <1>2. Len(orders') <= MaxInFlight
    <2>1. CASE orders' = orders
      BY <2>1 DEF LinkTyped
    <2>2. CASE orders # <<>> /\ orders' = Tail(orders)
      <3>1. Len(Tail(orders)) = Len(orders) - 1
        BY <1>1, <2>2, TailStep
      <3> QED
        BY <1>1, <2>2, <3>1 DEF LinkTyped
    <2>3. ASSUME NEW o \in Sound \union {BadUpdate}, Send(o)
          PROVE  Len(orders') <= MaxInFlight
      <3>1. Len(orders) < MaxInFlight /\ Len(orders') = Len(orders) + 1
        BY <2>3, SendStep DEF FleetInv
      <3> QED
        BY <1>1, <3>1
    <2> QED
      BY <2>1, <2>2, <2>3, OrdersStep DEF FleetInv
  <1>3. /\ <<>> \in Seq(Reports) /\ Len(<<>>) <= MaxInFlight
        /\ states \in Seq(Reports) /\ Len(states) <= MaxInFlight
    BY <1>1 DEF LinkTyped
  <1>4. ASSUME states # <<>>
        PROVE  /\ Head(states) \in Reports /\ Tail(states) \in Seq(Reports)
               /\ Len(Tail(states)) <= MaxInFlight
               /\ Head(states).newBaseRequest \in BOOLEAN
    <2>1. Head(states) \in Reports /\ Tail(states) \in Seq(Reports)
          /\ Len(Tail(states)) = Len(states) - 1 /\ Len(states) \in Nat
      BY <1>3, <1>4, HeadTailProperties
    <2> QED
      BY <1>1, <1>3, <2>1 DEF Reports
  <1>5. CASE ConnectStep
    BY <1>2, <1>5 DEF ConnectStep, Subscribe, StartDemo, NoExperiment,
             WireDispatcher, StartDispatcher, robotVars, historyVars, LinkTyped
  <1>6. CASE Reconnect \/ Restart
    BY <1>2, <1>3, <1>6 DEF Reconnect, Restart, robotVars, LinkTyped
  <1>7. ASSUME NEW c \in Connections, PublishBase(c) \/ PublishUpdate(c)
        PROVE  LinkTyped'
    BY <1>2, <1>7 DEF PublishBase, PublishUpdate, robotVars, historyVars, LinkTyped
  <1>8. CASE ToggleDrop
    BY <1>2, <1>8 DEF ToggleDrop, fleetVars, robotVars, historyVars, LinkTyped
  <1>9. ASSUME NEW order, PostOrder(order) PROVE LinkTyped'
    BY <1>2, <1>9 DEF PostOrder, fleetVars, robotVars, LinkTyped
  <1>10. CASE OnStateExtends \/ OnStateOnly
    BY <1>2, <1>4, <1>10 DEF OnStateExtends, OnStateOnly, Watched, robotVars,
                             historyVars, LinkTyped
  <1>11. CASE OnStatePanics
    BY <1>2, <1>3, <1>11 DEF OnStatePanics, robotVars, historyVars, LinkTyped
  <1>12. CASE AcceptsOrder \/ RejectsOrder \/ DriveLeg
    BY <1>2, <1>12 DEF AcceptsOrder, RejectsOrder, DriveLeg, fleetVars,
                       robotVars, historyVars, LinkTyped
  <1>13. CASE ReportState
    BY <1>13, ReportStep
  <1>14. CASE LoseOrder
    BY <1>2, <1>14 DEF LoseOrder, fleetVars, robotVars, LinkTyped
  <1>15. CASE LoseState
    <2>1. missed' \in BOOLEAN
      BY <1>15, Zenon DEF LoseState
    <2> QED
      BY <1>2, <1>4, <1>15, <2>1 DEF LoseState, fleetVars, robotVars, LinkTyped
  <1>16. CASE UNCHANGED vars
    BY <1>2, <1>16 DEF vars, fleetVars, robotVars, historyVars, LinkTyped
  <1> QED
    BY <1>5, <1>6, <1>7, <1>8, <1>9, <1>10, <1>11, <1>12, <1>13, <1>14, <1>15,
       <1>16 DEF FNext, OnState

LEMMA TypedInit == FInit => ProcessTyped /\ LinkTyped
  <1> SUFFICES ASSUME FInit PROVE ProcessTyped /\ LinkTyped
    OBVIOUS
  <1>1. MaxDisturbances \in Nat /\ MaxInFlight \in Nat
    BY FleetAssumption DEF FleetAssumption
  <1>2. NoDemos \in [Connections -> {"none", "base", "sleep"}]
    BY DEF NoDemos
  <1>3. ProcessTyped
    <2>1. /\ experiment \in Experiments /\ connectPc = "subscribe"
          /\ connects = 1 /\ disturbed = 0 /\ onRequest = FALSE
          /\ demos = NoDemos
      BY DEF FInit
    <2>2. connects \in 1..disturbed+1 /\ disturbed \in 0..MaxDisturbances
      BY <1>1, <2>1
    <2> QED
      BY <1>2, <2>1, <2>2 DEF ProcessTyped
  <1>4. orders = <<>> /\ states = <<>>
    BY DEF FInit
  <1>5. /\ Len(orders) <= MaxInFlight
        /\ states \in Seq(Reports) /\ Len(states) <= MaxInFlight
    BY <1>1, <1>4
  <1> QED
    BY <1>3, <1>5 DEF FInit, LinkTyped

\* The type of the fleet, for every route, window and bound.
THEOREM FleetTyped == FSpec => []FTypeOK
  <1>1. ASSUME FleetInv, ProcessTyped, LinkTyped PROVE FTypeOK
    <2>1. connects \in Connections
      BY <1>1, FleetAssumption DEF FleetAssumption, ProcessTyped, Connections
    <2>2. releasedIdx \in 0..Len(RouteNodes) /\ nextUpdateId \in Nat
      BY <1>1 DEF FleetInv, DInv
    <2>3. ASSUME NEW n \in Elements(state.nodes) PROVE n.nodeId # NoNode
      <3>1. StaysOn(state.nodes, Road(state.orderId))
        BY <1>1, HeldStays DEF FleetInv, RobotInv, HoldsChain, StateTyped
      <3>2. PICK m \in Elements(Road(state.orderId)) : SameStep(n, m)
        BY <2>3, <3>1 DEF StaysOn, Elements
      <3>3. ASSUME NEW k \in Elements(RouteNodes) PROVE k.nodeId # NoNode
        BY FleetAssumption DEF FleetAssumption
      <3>4. ASSUME NEW k \in Elements(BaseOrder.nodes) PROVE k.nodeId # NoNode
        <4>1. PICK i \in 1..5 : k.nodeId = DemoPlaces[i]
          BY BaseShape DEF Elements
        <4> QED
          <5>1. i \in {1, 2, 3, 4, 5}
            OBVIOUS
          <5>2. DemoPlaces[i] \in {Home, "r_1", "n_C", "n_D", "r_4"}
            BY <5>1 DEF DemoPlaces
          <5> QED
            BY <4>1, <5>2, FleetAssumption DEF FleetAssumption, NoNode
      <3> QED
        BY <3>2, <3>3, <3>4 DEF SameStep, Road
    <2> QED
      BY <1>1, <2>1, <2>2, <2>3 DEF FTypeOK, ProcessTyped, LinkTyped, FleetInv,
                                    RobotInv
  <1>2. FleetInv /\ ProcessTyped /\ LinkTyped => FTypeOK
    BY <1>1
  <1>3. FleetInv /\ ProcessTyped /\ LinkTyped /\ [FNext]_vars
           => ProcessTyped' /\ LinkTyped'
    BY ProcessStep, LinkStep
  <1> QED
    BY <1>2, <1>3, TypedInit, FleetCorrect, PTL DEF FSpec

-----------------------------------------------------------------------------
(* A robot that has the route keeps it.                                    *)

\* The robot is where a node of the route is.
LastOnRoute(s) ==
    \E b \in DOMAIN RouteNodes :
       /\ s.lastNodeId = RouteNodes[b].nodeId
       /\ s.lastNodeSequenceId = RouteNodes[b].sequenceId

KnowsItsPlace == state.orderId = RouteOrder => LastOnRoute(state)

\* At the end of its base it is not at home, where the demo order starts.
LEMMA RouteIsKept ==
    ASSUME RouteLeavesHome, FleetInv, KnowsItsPlace, state.orderId = RouteOrder,
           NEW o \in Sound, IsNew(state, o)
    PROVE  Rejection(state, o, Position) # ""
  <1>1. o \in {BaseOrder, GoodUpdate}
    BY WindowFits DEF IsNew, Sound
  <1>2. CASE ~IsIdle(state) \/ o.orderUpdateId # 0
    BY <1>2 DEF Rejection, NewOrderError
  <1>3. CASE IsIdle(state) /\ o.orderUpdateId = 0
    <2>1. o = BaseOrder
      BY <1>1, <1>3, UpdateShape
    <2>2. state.orderId # NoOrder
      BY FleetAssumption DEF FleetAssumption
    <2>3. state.lastNodeSequenceId = state.decisionSequenceId
      BY <1>3, <2>2 DEF IsIdle
    <2>4. state.decisionSequenceId >= RouteNodes[FirstEnd].sequenceId
      BY DEF FleetInv, RobotInv, DecisionFits
    <2>5. PICK b \in DOMAIN RouteNodes :
             /\ state.lastNodeId = RouteNodes[b].nodeId
             /\ state.lastNodeSequenceId = RouteNodes[b].sequenceId
      BY DEF KnowsItsPlace, LastOnRoute
    <2>6. Counts(RouteNodes, RouteEdges)
      BY RouteChain, ChainCounts
    <2>7. FirstEnd \in 2..Len(RouteNodes)
      BY RouteShape DEF FirstEnd, RouteLeavesHome
    <2>8. b \in 2..Len(RouteNodes)
      <3>1. RouteNodes[b].sequenceId >= RouteNodes[FirstEnd].sequenceId
        BY <2>3, <2>4, <2>5
      <3>2. b \in 1..Len(RouteNodes) /\ FirstEnd \in 1..Len(RouteNodes)
        BY <2>6, <2>7 DEF Counts
      <3>3. b >= FirstEnd
        BY <2>6, <3>1, <3>2 DEF Counts
      <3> QED
        BY <2>7, <3>2, <3>3
    <2>9. state.lastNodeId # Home
      BY <2>5, <2>8 DEF RouteLeavesHome
    <2>10. BaseOrder.nodes[1].nodeId = Home
      BY BaseShape DEF DemoPlaces
    <2>11. ~StartNodeInRange(o, Position)
      BY <2>1, <2>2, <2>9, <2>10 DEF StartNodeInRange, Position
    <2> QED
      BY <2>11 DEF Rejection, NewOrderError
  <1> QED
    BY <1>2, <1>3

\* It has got the route from an order that was under way.
LEMMA RouteComes ==
    ASSUME FleetInv, [FNext]_vars, state'.orderId = RouteOrder
    PROVE  \/ state.orderId = RouteOrder
           \/ \E o \in Elements(orders) : o.orderId = RouteOrder
  <1>1. RobotInv /\ OrdersInv /\ DOMAIN state = Fields
    BY DEF FleetInv, RobotInv, HoldsChain, StateTyped, OrderShape
  <1>2. CASE AcceptsOrder
    <2>1. PICK o \in Sound : o = Head(orders)
      BY <1>1, <1>2, AcceptsStep
    <2>2. state' = Accepted(state, o)
      BY <1>2, <2>1 DEF AcceptsOrder, AcceptOrder
    <2>3. o \in Elements(orders)
      <3>1. orders # <<>>
        BY <1>2 DEF AcceptsOrder
      <3> QED
        BY <1>1, <2>1, <3>1, TailStep DEF OrdersInv
    <2>4. state'.orderId = o.orderId
      BY <1>1, <2>2 DEF Accepted, Fields, IsNew
    <2> QED
      BY <2>3, <2>4
  <1>3. CASE DriveLeg
    <2>1. state'.orderId = state.orderId
      BY <1>1, <1>3 DEF DriveLeg, Arrived, Fields
    <2> QED
      BY <2>1
  <1>4. CASE ~AcceptsOrder /\ ~DriveLeg
    BY <1>4, RobotElsewhere
  <1> QED
    BY <1>2, <1>3, <1>4

LEMMA RouteStep ==
    ASSUME RouteLeavesHome, FleetInv, KnowsItsPlace, [FNext]_vars
    PROVE  /\ KnowsItsPlace'
           /\ state.orderId = RouteOrder => state'.orderId = RouteOrder
  <1>1. RobotInv /\ OrdersInv /\ DOMAIN state = Fields
    BY DEF FleetInv, RobotInv, HoldsChain, StateTyped, OrderShape
  <1>2. CASE AcceptsOrder
    <2>1. PICK o \in Sound : o = Head(orders)
      BY <1>1, <1>2, AcceptsStep
    <2>2. /\ Rejection(state, o, Position) = ""
          /\ state' = Accepted(state, o)
      BY <1>2, <2>1 DEF AcceptsOrder, AcceptOrder
    <2>3. state.orderId = RouteOrder => ~IsNew(state, o)
      BY <2>2, RouteIsKept
    <2>5. CASE IsNew(state, o)
      <3>1. /\ state'.orderId = o.orderId
            /\ state'.lastNodeId = o.nodes[1].nodeId
            /\ state'.lastNodeSequenceId = o.nodes[1].sequenceId
        BY <1>1, <2>2, <2>5 DEF Accepted, Fields
      <3>2. ASSUME o.orderId = RouteOrder PROVE LastOnRoute(state')
        <4>1. StaysOn(o.nodes, RouteNodes)
          BY <3>2, SoundOrder DEF Road
        <4>2. 1 \in DOMAIN o.nodes
          <5>1. PICK ns, es : ns = o.nodes /\ es = o.edges
            OBVIOUS
          <5>2. Chain(NodesOf(Sound, o.orderId), EdgesOf(Sound, o.orderId), ns, es)
            BY <5>1, SoundFits, MessageChain
          <5>3. Counts(ns, es)
            BY <5>2, ChainCounts
          <5> QED
            BY <5>1, <5>3 DEF Counts
        <4>3. PICK b \in DOMAIN RouteNodes : SameStep(o.nodes[1], RouteNodes[b])
          BY <4>1, <4>2 DEF StaysOn
        <4> QED
          BY <3>1, <4>3 DEF SameStep, LastOnRoute
      <3> QED
        BY <2>3, <2>5, <3>1, <3>2 DEF KnowsItsPlace
    <2>6. CASE ~IsNew(state, o)
      <3>1. /\ state'.orderId = state.orderId
            /\ state'.lastNodeId = state.lastNodeId
            /\ state'.lastNodeSequenceId = state.lastNodeSequenceId
        BY <1>1, <2>2, <2>6 DEF Accepted, Fields
      <3> QED
        BY <3>1 DEF KnowsItsPlace, LastOnRoute
    <2> QED
      BY <2>5, <2>6
  <1>3. CASE DriveLeg
    <2>1. PICK n \in Elements(state.nodes) : state' = Arrived(state, n.nodeId)
      BY <1>1, <1>3, DriveStep
    <2>2. /\ state'.orderId = state.orderId /\ state'.lastNodeId = n.nodeId
          /\ state'.lastNodeSequenceId = SequenceIdFor(state, n.nodeId)
      BY <1>1, <2>1 DEF Arrived, Fields
    <2>3. ASSUME state.orderId = RouteOrder PROVE LastOnRoute(state')
      <3>1. PICK ns, es : ns = state.nodes /\ es = state.edges
        OBVIOUS
      <3>2. state.orderId # NoOrder
        BY <2>3, FleetAssumption DEF FleetAssumption
      <3>3. Chain(NodesOf(Sound, state.orderId), EdgesOf(Sound, state.orderId), ns, es)
        BY <1>1, <3>1, <3>2, SoundFits, StateChain DEF RobotInv
      <3>4. StaysOn(ns, RouteNodes)
        BY <2>3, <3>3, HeldStays DEF Chain, Road
      <3> DEFINE j == FirstIndex(ns, n.nodeId)
      <3>5. j \in DOMAIN ns /\ ns[j].nodeId = n.nodeId
        BY <3>1, <3>3, ChainCounts, FirstVisit DEF Counts
      <3>6. SequenceIdFor(state, n.nodeId) = ns[j].sequenceId
        <4>1. KnowsNode(state, n.nodeId)
          BY DEF KnowsNode
        <4> QED
          BY <3>1, <4>1 DEF SequenceIdFor
      <3> HIDE DEF j
      <3>7. PICK b \in DOMAIN RouteNodes : SameStep(ns[j], RouteNodes[b])
        BY <3>4, <3>5 DEF StaysOn
      <3> QED
        BY <2>2, <3>5, <3>6, <3>7 DEF SameStep, LastOnRoute
    <2> QED
      BY <2>2, <2>3 DEF KnowsItsPlace
  <1>4. CASE ~AcceptsOrder /\ ~DriveLeg
    <2>1. state' = state
      BY <1>4, RobotElsewhere
    <2> QED
      BY <2>1 DEF KnowsItsPlace, LastOnRoute
  <1> QED
    BY <1>2, <1>3, <1>4

NothingYet ==
    connects = 1 /\ releasedIdx = 0 =>
       /\ state.orderId # RouteOrder
       /\ \A o \in Elements(orders) : o.orderId # RouteOrder

NotStartedYet ==
    connects = 1 /\ connectPc \in {"subscribe", "switch", "start"} =>
       releasedIdx = 0

\* The inductive invariant: what says so was sent after the dispatcher had
\* started, which on the first connection it does once.
RouteInv ==
    /\ KnowsItsPlace
    /\ \A m \in Elements(states) :
          m.orderId = RouteOrder => state.orderId = RouteOrder
    /\ NothingYet /\ NotStartedYet
    /\ connectPc = "panicked" => connects > 1 /\ state.orderId = RouteOrder

\* What a connection may do to its dispatcher.
LEMMA ConnectionStep ==
    ASSUME FleetInv, ProcessTyped, NotStartedYet, [FNext]_vars
    PROVE  /\ connects' = 1 => connects = 1
           /\ connects' = 1 /\ releasedIdx' = 0 => releasedIdx = 0
           /\ connects' = 1 /\ connectPc' \in {"subscribe", "switch", "start"}
                 => releasedIdx' = 0
           /\ connectPc' = "panicked" =>
                 \/ connectPc = "panicked"
                 \/ OnStatePanics
           /\ connects' >= connects
  <1> DEFINE Goal ==
           /\ connects' = 1 => connects = 1
           /\ connects' = 1 /\ releasedIdx' = 0 => releasedIdx = 0
           /\ connects' = 1 /\ connectPc' \in {"subscribe", "switch", "start"}
                 => releasedIdx' = 0
           /\ connectPc' = "panicked" =>
                 \/ connectPc = "panicked"
                 \/ OnStatePanics
           /\ connects' >= connects
  <1>1. connects \in Int /\ connects >= 1
    BY DEF ProcessTyped
  <1>2. /\ connects = 1 /\ connectPc \in {"subscribe", "switch", "start"} =>
              releasedIdx = 0
    BY DEF NotStartedYet
  <1>3. CASE Subscribe \/ StartDemo \/ NoExperiment
    BY <1>1, <1>2, <1>3 DEF Subscribe, StartDemo, NoExperiment, dispVars
  <1>4. CASE WireDispatcher
    BY <1>1, <1>2, <1>4 DEF WireDispatcher, Fresh
  <1>5. CASE StartDispatcher
    <2>1. releasedIdx' # 0
      <3>1. releasedIdx = 0 /\ DInv /\ Start
        BY <1>5 DEF StartDispatcher, FleetInv, NewUntilStarted
      <3> QED
        BY <3>1, StartStep
    <2> QED
      BY <1>1, <1>5, <2>1 DEF StartDispatcher
  <1>6. CASE Reconnect \/ Restart
    BY <1>1, <1>6 DEF Reconnect, Restart
  <1>7. ASSUME NEW c \in Connections, PublishBase(c) \/ PublishUpdate(c)
        PROVE  Goal
    BY <1>1, <1>2, <1>7 DEF PublishBase, PublishUpdate, dispVars
  <1>8. CASE ToggleDrop
    BY <1>1, <1>2, <1>8 DEF ToggleDrop, fleetVars, dispVars
  <1>9. ASSUME NEW order, PostOrder(order) PROVE Goal
    BY <1>1, <1>2, <1>9 DEF PostOrder, fleetVars, dispVars
  <1>10. CASE OnStateExtends
    <2>1. releasedIdx' # 0 /\ releasedIdx # 0
      <3>1. Extend(Head(states).orderId) /\ DInv
        BY <1>10 DEF OnStateExtends, FleetInv
      <3> QED
        BY <3>1, ExtendStep DEF DInv
    <2> QED
      BY <1>1, <1>2, <1>10, <2>1 DEF OnStateExtends
  <1>11. CASE OnStatePanics
    BY <1>1, <1>11 DEF OnStatePanics, dispVars
  <1>12. CASE OnStateOnly
    BY <1>1, <1>2, <1>12 DEF OnStateOnly, dispVars
  <1>13. CASE AcceptsOrder \/ RejectsOrder \/ DriveLeg \/ ReportState
    <2>1. UNCHANGED <<connects, connectPc, releasedIdx>>
      BY <1>13 DEF AcceptsOrder, RejectsOrder, DriveLeg, ReportState,
                   fleetVars, dispVars
    <2> QED
      BY <1>1, <1>2, <2>1
  <1>14. CASE LoseOrder \/ LoseState
    BY <1>1, <1>2, <1>14 DEF LoseOrder, LoseState, fleetVars, dispVars
  <1>15. CASE UNCHANGED vars
    BY <1>1, <1>2, <1>15 DEF vars, fleetVars, dispVars
  <1> QED
    BY <1>3, <1>4, <1>5, <1>6, <1>7, <1>8, <1>9, <1>10, <1>11, <1>12, <1>13,
       <1>14, <1>15 DEF FNext, ConnectStep, OnState

\* Before the dispatcher has started, nothing of the route is under way.
LEMMA NoRouteYet ==
    ASSUME FleetInv, [FNext]_vars, releasedIdx' = 0,
           \A o \in Elements(orders) : o.orderId # RouteOrder
    PROVE  \A o \in Elements(orders') : o.orderId # RouteOrder
  <1>1. orders \in Seq(Sound \union {BadUpdate}) /\ DInv /\ NewUntilStarted
    BY DEF FleetInv, OrdersInv
  <1>2. ASSUME orders # <<>>, orders' = Tail(orders)
        PROVE  Elements(orders') \subseteq Elements(orders)
    BY <1>1, <1>2, TailStep
  <1>3. ASSUME NEW o \in Sound \union {BadUpdate}, Send(o),
               o.orderId # RouteOrder
        PROVE  \A p \in Elements(orders') : p.orderId # RouteOrder
    <2>1. orders' = Append(orders, o)
      BY <1>3 DEF Send
    <2>2. Elements(orders') = Elements(orders) \union {o}
      BY <1>1, <2>1, ElementsAppend
    <2> QED
      BY <1>3, <2>2
  <1>4. \A o \in {BaseOrder, GoodUpdate, BadUpdate} : o.orderId # RouteOrder
    <2>1. BadUpdate.orderId = "demo-order-1"
      BY DEF BadUpdate
    <2> QED
      BY <2>1, BaseShape, UpdateShape, FleetAssumption DEF FleetAssumption
  <1> DEFINE Goal == \A o \in Elements(orders') : o.orderId # RouteOrder
  <1>5. ASSUME orders' = orders PROVE Goal
    BY <1>5
  <1>6. ASSUME NEW o \in {BaseOrder, GoodUpdate, BadUpdate}, Send(o)
        PROVE  Goal
    BY <1>3, <1>4, <1>6 DEF Sound
  <1> HIDE DEF Goal
  <1>7. CASE Subscribe \/ StartDemo \/ NoExperiment \/ WireDispatcher
    BY <1>5, <1>7 DEF Subscribe, StartDemo, NoExperiment, WireDispatcher
  <1>8. CASE StartDispatcher
    <2>1. Start /\ DInv /\ releasedIdx = 0
      BY <1>1, <1>8 DEF StartDispatcher, NewUntilStarted
    <2> QED
      BY <2>1, StartStep
  <1>9. CASE Reconnect \/ Restart \/ ToggleDrop
    BY <1>5, <1>9 DEF Reconnect, Restart, ToggleDrop
  <1>10. ASSUME NEW c \in Connections, PublishBase(c) \/ PublishUpdate(c)
         PROVE  Goal
    BY <1>5, <1>6, <1>10 DEF PublishBase, PublishUpdate
  <1>11. ASSUME NEW order \in {BaseOrder, GoodUpdate, BadUpdate},
                PostOrder(order)
         PROVE  Goal
    BY <1>5, <1>6, <1>11 DEF PostOrder
  <1>12. CASE OnStateExtends
    <2>1. Extend(Head(states).orderId) /\ DInv
      BY <1>1, <1>12 DEF OnStateExtends
    <2> QED
      BY <2>1, ExtendStep DEF DInv
  <1>13. CASE OnStatePanics \/ OnStateOnly \/ DriveLeg \/ ReportState \/ LoseState
    BY <1>5, <1>13 DEF OnStatePanics, OnStateOnly, DriveLeg, ReportState, LoseState
  <1>14. CASE AcceptsOrder \/ RejectsOrder \/ LoseOrder
    BY <1>2, <1>14 DEF AcceptsOrder, RejectsOrder, LoseOrder, Goal
  <1>15. CASE UNCHANGED vars
    BY <1>5, <1>15 DEF vars
  <1> QED
    BY <1>7, <1>8, <1>9, <1>10, <1>11, <1>12, <1>13, <1>14, <1>15
       DEF FNext, ConnectStep, OnState, Goal

LEMMA NothingYetStep ==
    ASSUME FleetInv, ProcessTyped, NothingYet, NotStartedYet, [FNext]_vars
    PROVE  NothingYet' /\ NotStartedYet'
  <1>1. ASSUME connects' = 1, releasedIdx' = 0
        PROVE  /\ state'.orderId # RouteOrder
               /\ \A o \in Elements(orders') : o.orderId # RouteOrder
    <2>1. connects = 1 /\ releasedIdx = 0
      BY <1>1, ConnectionStep
    <2>2. /\ state.orderId # RouteOrder
          /\ \A o \in Elements(orders) : o.orderId # RouteOrder
      BY <2>1 DEF NothingYet
    <2> QED
      BY <1>1, <2>2, NoRouteYet, RouteComes
  <1>2. connects' = 1 /\ connectPc' \in {"subscribe", "switch", "start"} =>
           releasedIdx' = 0
    BY ConnectionStep
  <1> QED
    BY <1>1, <1>2 DEF NothingYet, NotStartedYet

\* A report tells whose order the robot has when it is sent.
LEMMA ReportsMove ==
    ASSUME LinkTyped, [FNext]_vars
    PROVE  \A m \in Elements(states') :
              m \in Elements(states) \/ m.orderId = state.orderId
  <1> DEFINE Goal == \A m \in Elements(states') :
                        m \in Elements(states) \/ m.orderId = state.orderId
  <1>1. states \in Seq(Reports)
    BY DEF LinkTyped
  <1>2. ASSUME states' = states PROVE Goal
    BY <1>2
  <1>3. ASSUME states # <<>>, states' = Tail(states) PROVE Goal
    BY <1>1, <1>3, TailStep
  <1>4. ASSUME states' = <<>> PROVE Goal
    BY <1>4 DEF Elements
  <1> SUFFICES Goal
    OBVIOUS
  <1> HIDE DEF Goal
  <1>5. CASE ConnectStep
    BY <1>2, <1>5 DEF ConnectStep, Subscribe, StartDemo, NoExperiment,
                      WireDispatcher, StartDispatcher
  <1>6. CASE Reconnect \/ Restart
    <2>1. states' = <<>>
      BY <1>6 DEF Reconnect, Restart
    <2> QED
      BY <1>4, <2>1, Zenon
  <1>7. ASSUME NEW c \in Connections, PublishBase(c) \/ PublishUpdate(c)
        PROVE  Goal
    BY <1>2, <1>7 DEF PublishBase, PublishUpdate
  <1>8. ASSUME NEW order, PostOrder(order) PROVE Goal
    BY <1>2, <1>8 DEF PostOrder
  <1>9. CASE ToggleDrop \/ AcceptsOrder \/ RejectsOrder \/ DriveLeg \/ LoseOrder
    BY <1>2, <1>9 DEF ToggleDrop, AcceptsOrder, RejectsOrder, DriveLeg, LoseOrder
  <1>10. CASE OnStateExtends \/ OnStateOnly \/ LoseState
    <2>1. states # <<>> /\ states' = Tail(states)
      BY <1>10 DEF OnStateExtends, OnStateOnly, LoseState
    <2> QED
      BY <1>3, <2>1, Zenon
  <1>11. CASE OnStatePanics
    <2>1. states' = <<>>
      BY <1>11 DEF OnStatePanics
    <2> QED
      BY <1>4, <2>1, Zenon
  <1>12. CASE ReportState
    <2>1. PICK report : report = [orderId |-> state.orderId,
                                  newBaseRequest |-> NewBaseRequest(state)]
      OBVIOUS
    <2>2. states' = Append(states, report) \/ states' = states
      BY <1>12, <2>1 DEF ReportState
    <2>3. CASE states' = Append(states, report)
      <3>1. Elements(states') = Elements(states) \union {report}
        <4>1. report \in Reports \union {report}
              /\ states \in Seq(Reports \union {report})
          BY <1>1
        <4> QED
          BY <2>3, <4>1, ElementsAppend
      <3>2. report.orderId = state.orderId
        BY <2>1
      <3> QED
        BY <3>1, <3>2 DEF Goal
    <2> QED
      BY <1>2, <2>2, <2>3
  <1>13. CASE UNCHANGED vars
    BY <1>2, <1>13 DEF vars
  <1> QED
    BY <1>5, <1>6, <1>7, <1>8, <1>9, <1>10, <1>11, <1>12, <1>13
       DEF FNext, OnState

LEMMA RouteInvStep ==
    ASSUME RouteLeavesHome, FleetInv, ProcessTyped, LinkTyped, RouteInv,
           [FNext]_vars
    PROVE  RouteInv'
  <1>1. KnowsItsPlace
    BY DEF RouteInv
  <1>2. /\ KnowsItsPlace'
        /\ state.orderId = RouteOrder => state'.orderId = RouteOrder
    BY <1>1, RouteStep
  <1>3. \A m \in Elements(states') :
           m.orderId = RouteOrder => state'.orderId = RouteOrder
    BY <1>2, ReportsMove DEF RouteInv
  <1>4. NothingYet' /\ NotStartedYet'
    BY NothingYetStep DEF RouteInv
  <1>6. ASSUME connectPc' = "panicked"
        PROVE  connects' > 1 /\ state'.orderId = RouteOrder
    <2>1. connects \in Int /\ connects >= 1 /\ connects' \in Int
      <3>1. ProcessTyped'
        BY ProcessStep
      <3> QED
        BY <3>1 DEF ProcessTyped
    <2>2. connects' >= connects /\ (connectPc = "panicked" \/ OnStatePanics)
      BY <1>6, ConnectionStep DEF RouteInv
    <2>3. connects > 1 /\ state.orderId = RouteOrder
      <3>1. CASE connectPc = "panicked"
        BY <3>1 DEF RouteInv
      <3>2. CASE OnStatePanics
        <4>1. /\ states # <<>> /\ releasedIdx = 0
              /\ Head(states).orderId = RouteOrder
          BY <3>2 DEF OnStatePanics, Panics, Wanted
        <4>2. Head(states) \in Elements(states)
          BY <4>1, TailStep DEF LinkTyped
        <4>3. state.orderId = RouteOrder
          BY <4>1, <4>2 DEF RouteInv
        <4>4. connects # 1
          BY <4>1, <4>3 DEF RouteInv, NothingYet
        <4> QED
          BY <2>1, <4>3, <4>4
      <3> QED
        BY <2>2, <3>1, <3>2
    <2> QED
      BY <1>2, <2>1, <2>2, <2>3
  <1> QED
    BY <1>2, <1>3, <1>4, <1>6 DEF RouteInv

LEMMA RouteInvInit == FInit => RouteInv
  <1> SUFFICES ASSUME FInit PROVE RouteInv
    OBVIOUS
  <1>1. /\ state.orderId = NoOrder /\ orders = <<>> /\ states = <<>>
        /\ connectPc = "subscribe" /\ releasedIdx = 0
    BY DEF FInit, DInit, NoState
  <1>2. NoOrder # RouteOrder
    BY FleetAssumption DEF FleetAssumption
  <1> QED
    BY <1>1, <1>2 DEF RouteInv, KnowsItsPlace, NothingYet, NotStartedYet,
                      Elements

\* Only a robot that still executes the route of an earlier connection makes
\* ExtendIfNeeded slice from -1 (dispatcher.go:138): on the first connection no
\* interleaving, loss or posted order does, on any route that leaves home.
THEOREM FleetPanicsOnlyAfterReconnect ==
    ASSUME RouteLeavesHome PROVE FSpec => []PanicsOnlyAfterReconnect
  <1> DEFINE IInv == FleetInv /\ ProcessTyped /\ LinkTyped /\ RouteInv
  <1>1. FInit => IInv
    BY FleetInvInit, TypedInit, RouteInvInit
  <1>2. IInv /\ [FNext]_vars => IInv'
    BY FleetInvStep, ProcessStep, LinkStep, RouteInvStep
  <1>3. IInv => PanicsOnlyAfterReconnect
    BY DEF RouteInv, PanicsOnlyAfterReconnect
  <1> QED
    BY <1>1, <1>2, <1>3, PTL DEF FSpec

-----------------------------------------------------------------------------
(* The dispatcher and the robot stay in step.                              *)

\* The updates count on, and each begins where the one before it ends.
IsRoute(o) == o.orderId = RouteOrder

Joins(a, b) ==
    SameStep(b.nodes[1], LastOf(a)) /\ b.orderUpdateId = a.orderUpdateId + 1

\* The same between the robot and an order, an order and the dispatcher, and
\* the robot and the dispatcher, which releases up to RouteNodes[r] and counts
\* up to u.
JoinsState(s, o) ==
    /\ o.nodes[1].nodeId = s.decisionNodeId
    /\ o.nodes[1].sequenceId = s.decisionSequenceId
    /\ o.orderUpdateId = s.orderUpdateId + 1

EndsAt(o, r, u) == SameStep(LastOf(o), RouteNodes[r]) /\ o.orderUpdateId + 1 = u

StandsAt(s, r, u) ==
    /\ s.decisionNodeId = RouteNodes[r].nodeId
    /\ s.decisionSequenceId = RouteNodes[r].sequenceId
    /\ s.orderUpdateId + 1 = u

NoRoute(q, from, to) == \A k \in from..to : ~IsRoute(q[k])

FirstRoute(q, j) == IsRoute(q[j]) /\ NoRoute(q, 1, j - 1)
LastRoute(q, i) == IsRoute(q[i]) /\ NoRoute(q, i + 1, Len(q))

Linked(q) ==
    \A i, j \in DOMAIN q :
       IsRoute(q[i]) /\ IsRoute(q[j]) /\ i < j /\ NoRoute(q, i + 1, j - 1)
          => Joins(q[i], q[j])

LeadsTo(q, r, u) == \A i \in DOMAIN q : LastRoute(q, i) => EndsAt(q[i], r, u)

StartsFrom(q, s) == \A j \in DOMAIN q : FirstRoute(q, j) => JoinsState(s, q[j])

\* The orders of the route under way lead from the robot to the dispatcher.
Agree(q, s, r, u) ==
    /\ Linked(q) /\ LeadsTo(q, r, u)
    /\ s.orderId = RouteOrder =>
          /\ StartsFrom(q, s)
          /\ NoRoute(q, 1, Len(q)) => StandsAt(s, r, u)

\* What is sent besides changes nothing.
LEMMA AgreeBesides ==
    ASSUME NEW S, NEW q \in Seq(S), NEW o \in S, ~IsRoute(o), NEW s, NEW r, NEW u,
           Agree(q, s, r, u)
    PROVE  Agree(Append(q, o), s, r, u)
  <1> DEFINE n == Len(q)
  <1>1. PICK p : p = Append(q, o)
    OBVIOUS
  <1>2. /\ n \in Nat /\ Len(p) = n + 1 /\ DOMAIN p = 1..n+1 /\ DOMAIN q = 1..n
        /\ \A i \in 1..n : p[i] = q[i]
        /\ p[n+1] = o
    BY <1>1
  <1> HIDE DEF n
  <1>3. \A i \in 1..n+1 : IsRoute(p[i]) => i \in 1..n /\ IsRoute(q[i])
    <2> SUFFICES ASSUME NEW i \in 1..n+1, IsRoute(p[i])
                 PROVE  i \in 1..n /\ IsRoute(q[i])
      OBVIOUS
    <2>1. i # n + 1
      BY <1>2
    <2> QED
      BY <1>2, <2>1
  <1>4. \A i \in Int, j \in 0..n : i >= 1 => (NoRoute(p, i, j) <=> NoRoute(q, i, j))
    BY <1>2 DEF NoRoute
  <1>5. Linked(p)
    <2> SUFFICES ASSUME NEW i \in 1..n, NEW j \in 1..n,
                        IsRoute(q[i]), IsRoute(q[j]), i < j, NoRoute(p, i + 1, j - 1)
                 PROVE  Joins(p[i], p[j])
      BY <1>2, <1>3 DEF Linked
    <2>1. NoRoute(q, i + 1, j - 1)
      <3>1. i + 1 \in Int /\ j - 1 \in 0..n /\ i + 1 >= 1
        BY <1>2
      <3> QED
        BY <1>4, <3>1
    <2>2. Joins(q[i], q[j])
      BY <1>2, <2>1 DEF Agree, Linked
    <2> QED
      BY <1>2, <2>2
  <1>6. LeadsTo(p, r, u)
    <2> SUFFICES ASSUME NEW i \in 1..n, IsRoute(q[i]), NoRoute(p, i + 1, n + 1)
                 PROVE  EndsAt(p[i], r, u)
      BY <1>2, <1>3 DEF LeadsTo, LastRoute
    <2>1. NoRoute(q, i + 1, n)
      BY <1>2 DEF NoRoute
    <2>2. LastRoute(q, i)
      BY <2>1 DEF LastRoute, n
    <2> QED
      BY <1>2, <2>2 DEF Agree, LeadsTo
  <1>7. ASSUME s.orderId = RouteOrder PROVE StartsFrom(p, s)
    <2> SUFFICES ASSUME NEW j \in 1..n, IsRoute(q[j]), NoRoute(p, 1, j - 1)
                 PROVE  JoinsState(s, p[j])
      BY <1>2, <1>3 DEF StartsFrom, FirstRoute
    <2>1. NoRoute(q, 1, j - 1)
      <3>1. 1 \in Int /\ j - 1 \in 0..n
        BY <1>2
      <3> QED
        BY <1>4, <3>1
    <2>2. JoinsState(s, q[j])
      BY <1>2, <1>7, <2>1 DEF Agree, StartsFrom, FirstRoute
    <2> QED
      BY <1>2, <2>2
  <1>8. ASSUME NoRoute(p, 1, n + 1) PROVE NoRoute(q, 1, n)
    BY <1>2, <1>8 DEF NoRoute
  <1> QED
    BY <1>1, <1>2, <1>5, <1>6, <1>7, <1>8 DEF Agree, n

\* The dispatcher sends the next window.
LEMMA AgreeNext ==
    ASSUME NEW S, NEW q \in Seq(S), NEW o \in S, IsRoute(o), NEW s,
           NEW r, NEW u \in Int, NEW to,
           Agree(q, s, r, u), s.orderUpdateId \in Int,
           \A i \in DOMAIN q : q[i].orderUpdateId \in Int,
           SameStep(o.nodes[1], RouteNodes[r]), o.orderUpdateId = u,
           SameStep(LastOf(o), RouteNodes[to])
    PROVE  Agree(Append(q, o), s, to, u + 1)
  <1> DEFINE n == Len(q)
  <1>1. PICK p : p = Append(q, o)
    OBVIOUS
  <1>2. /\ n \in Nat /\ Len(p) = n + 1 /\ DOMAIN p = 1..n+1 /\ DOMAIN q = 1..n
        /\ \A i \in 1..n : p[i] = q[i]
        /\ p[n+1] = o
    BY <1>1
  <1> HIDE DEF n
  <1>4. \A i \in Int, j \in 0..n : i >= 1 => (NoRoute(p, i, j) <=> NoRoute(q, i, j))
    BY <1>2 DEF NoRoute
  <1>5. Linked(p)
    <2> SUFFICES ASSUME NEW i \in 1..n+1, NEW j \in 1..n+1,
                        IsRoute(p[i]), IsRoute(p[j]), i < j, NoRoute(p, i + 1, j - 1)
                 PROVE  Joins(p[i], p[j])
      BY <1>2 DEF Linked
    <2>0. i \in 1..n /\ p[i] = q[i]
      BY <1>2
    <2>1. NoRoute(q, i + 1, j - 1)
      <3>1. i + 1 \in Int /\ j - 1 \in 0..n /\ i + 1 >= 1
        BY <1>2
      <3> QED
        BY <1>4, <3>1
    <2>2. CASE j \in 1..n
      <3>1. p[j] = q[j]
        BY <1>2, <2>2
      <3> QED
        BY <1>2, <2>0, <2>1, <2>2, <3>1, Zenon DEF Agree, Linked
    <2>3. CASE j \notin 1..n
      <3>1. j = n + 1 /\ j - 1 = n
        BY <1>2, <2>3
      <3>2. LastRoute(q, i)
        BY <2>0, <2>1, <3>1, Zenon DEF LastRoute, n
      <3>3. EndsAt(q[i], r, u)
        BY <1>2, <2>0, <3>2, Zenon DEF Agree, LeadsTo
      <3> QED
        BY <1>2, <2>0, <3>1, <3>3 DEF EndsAt, Joins, SameStep
    <2> QED
      BY <2>2, <2>3
  <1>6. LeadsTo(p, to, u + 1)
    <2> SUFFICES ASSUME NEW i \in 1..n+1, NoRoute(p, i + 1, n + 1)
                 PROVE  EndsAt(p[i], to, u + 1)
      BY <1>2 DEF LeadsTo, LastRoute
    <2>1. i = n + 1
      <3>1. ASSUME i < n + 1 PROVE ~IsRoute(p[n+1])
        BY <1>2, <3>1 DEF NoRoute
      <3> QED
        BY <1>2, <3>1
    <2> QED
      BY <1>2, <2>1 DEF EndsAt
  <1>7. ASSUME s.orderId = RouteOrder PROVE StartsFrom(p, s)
    <2> SUFFICES ASSUME NEW j \in 1..n+1, IsRoute(p[j]), NoRoute(p, 1, j - 1)
                 PROVE  JoinsState(s, p[j])
      BY <1>2 DEF StartsFrom, FirstRoute
    <2>1. NoRoute(q, 1, j - 1)
      <3>1. 1 \in Int /\ j - 1 \in 0..n
        BY <1>2
      <3> QED
        BY <1>4, <3>1
    <2>2. CASE j \in 1..n
      <3>1. p[j] = q[j]
        BY <1>2, <2>2
      <3>2. StartsFrom(q, s)
        BY <1>7 DEF Agree
      <3> QED
        BY <1>2, <2>1, <2>2, <3>1, <3>2, Zenon DEF StartsFrom, FirstRoute
    <2>3. CASE j \notin 1..n
      <3>1. j = n + 1 /\ j - 1 = n
        BY <1>2, <2>3
      <3>2. NoRoute(q, 1, n)
        BY <2>1, <3>1, Zenon
      <3>3. StandsAt(s, r, u)
        BY <1>7, <3>2, Zenon DEF Agree, n
      <3> QED
        BY <1>2, <3>1, <3>3 DEF StandsAt, JoinsState, SameStep
    <2> QED
      BY <2>2, <2>3
  <1>8. ~NoRoute(p, 1, n + 1)
    BY <1>2 DEF NoRoute
  <1> QED
    BY <1>1, <1>2, <1>5, <1>6, <1>7, <1>8 DEF Agree, n

\* The head is taken.
LEMMA AgreeTail ==
    ASSUME NEW S, NEW q \in Seq(S), q # <<>>, NEW s, NEW r, NEW u,
           Agree(q, s, r, u)
    PROVE  /\ Linked(Tail(q)) /\ LeadsTo(Tail(q), r, u)
           /\ ~IsRoute(Head(q)) => Agree(Tail(q), s, r, u)
  <1>1. PICK p, n : p = Tail(q) /\ n = Len(q)
    OBVIOUS
  <1>2. /\ n \in Nat /\ n > 0 /\ Len(p) = n - 1
        /\ DOMAIN p = 1..n-1 /\ DOMAIN q = 1..n
        /\ Head(q) = q[1] /\ \A i \in 1..n-1 : p[i] = q[i+1]
    BY <1>1, HeadTailProperties, EmptySeq, LenProperties
  <1>3. \A i \in Int, j \in Int :
           i >= 1 /\ j <= n - 1 => (NoRoute(p, i, j) <=> NoRoute(q, i + 1, j + 1))
    <2> SUFFICES ASSUME NEW i \in Int, NEW j \in Int, i >= 1, j <= n - 1
                 PROVE  NoRoute(p, i, j) <=> NoRoute(q, i + 1, j + 1)
      OBVIOUS
    <2>1. ASSUME NoRoute(p, i, j), NEW k \in i+1..j+1 PROVE ~IsRoute(q[k])
      <3>1. k - 1 \in i..j /\ k - 1 \in 1..n-1 /\ (k - 1) + 1 = k
        BY <1>2
      <3> QED
        BY <1>2, <2>1, <3>1 DEF NoRoute
    <2>2. ASSUME NoRoute(q, i + 1, j + 1), NEW k \in i..j PROVE ~IsRoute(p[k])
      <3>1. k + 1 \in i+1..j+1 /\ k \in 1..n-1
        BY <1>2
      <3> QED
        BY <1>2, <2>2, <3>1 DEF NoRoute
    <2> QED
      BY <2>1, <2>2 DEF NoRoute
  <1>4. Linked(p)
    <2> SUFFICES ASSUME NEW i \in 1..n-1, NEW j \in 1..n-1,
                        IsRoute(p[i]), IsRoute(p[j]), i < j, NoRoute(p, i + 1, j - 1)
                 PROVE  Joins(p[i], p[j])
      BY <1>2 DEF Linked
    <2>1. /\ p[i] = q[i+1] /\ p[j] = q[j+1] /\ i + 1 \in 1..n /\ j + 1 \in 1..n
          /\ i + 1 < j + 1 /\ (i + 1) + 1 = i + 2 /\ (j + 1) - 1 = j
      BY <1>2
    <2>2. NoRoute(q, i + 2, j)
      <3>1. i + 1 \in Int /\ j - 1 \in Int /\ i + 1 >= 1 /\ j - 1 <= n - 1
            /\ (i + 1) + 1 = i + 2 /\ (j - 1) + 1 = j
        BY <1>2
      <3>2. NoRoute(q, (i + 1) + 1, (j - 1) + 1)
        BY <1>3, <3>1
      <3> QED
        BY <3>1, <3>2
    <2>3. Joins(q[i+1], q[j+1])
      BY <1>2, <2>1, <2>2 DEF Agree, Linked
    <2> QED
      BY <2>1, <2>3
  <1>5. LeadsTo(p, r, u)
    <2> SUFFICES ASSUME NEW i \in 1..n-1, IsRoute(p[i]), NoRoute(p, i + 1, n - 1)
                 PROVE  EndsAt(p[i], r, u)
      BY <1>2 DEF LeadsTo, LastRoute
    <2>1. p[i] = q[i+1] /\ i + 1 \in 1..n
      BY <1>2
    <2>2. NoRoute(q, (i + 1) + 1, n)
      <3>1. i + 1 \in Int /\ n - 1 \in Int /\ i + 1 >= 1 /\ n - 1 <= n - 1
            /\ (n - 1) + 1 = n
        BY <1>2
      <3>2. NoRoute(q, (i + 1) + 1, (n - 1) + 1)
        BY <1>3, <3>1
      <3> QED
        BY <3>1, <3>2
    <2> QED
      BY <1>1, <1>2, <2>1, <2>2 DEF Agree, LeadsTo, LastRoute
  <1>6. ASSUME ~IsRoute(Head(q)), s.orderId = RouteOrder
        PROVE  /\ StartsFrom(p, s)
               /\ NoRoute(p, 1, n - 1) => StandsAt(s, r, u)
    <2>1. \A j \in 0..n-1 : NoRoute(p, 1, j) => NoRoute(q, 1, j + 1)
      <3> SUFFICES ASSUME NEW j \in 0..n-1, NoRoute(p, 1, j), NEW k \in 1..j+1
                   PROVE  ~IsRoute(q[k])
        BY DEF NoRoute
      <3>1. CASE k = 1
        BY <1>2, <1>6, <3>1
      <3>2. CASE k # 1
        <4>1. k - 1 \in 1..j /\ k - 1 \in 1..n-1 /\ (k - 1) + 1 = k
          BY <1>2, <3>2
        <4> QED
          BY <1>2, <4>1 DEF NoRoute
      <3> QED
        BY <3>1, <3>2
    <2>2. ASSUME NEW j \in 1..n-1, IsRoute(p[j]), NoRoute(p, 1, j - 1)
          PROVE  JoinsState(s, p[j])
      <3>1. j - 1 \in 0..n-1 /\ p[j] = q[j+1] /\ j + 1 \in 1..n
            /\ (j - 1) + 1 = (j + 1) - 1
        BY <1>2
      <3>2. NoRoute(q, 1, (j - 1) + 1)
        BY <2>1, <2>2, <3>1
      <3>3. NoRoute(q, 1, (j + 1) - 1)
        BY <3>1, <3>2, Zenon
      <3>4. JoinsState(s, q[j+1])
        <4>1. StartsFrom(q, s)
          BY <1>6 DEF Agree
        <4> QED
          BY <1>2, <2>2, <3>1, <3>3, <4>1, Zenon DEF StartsFrom, FirstRoute
      <3> QED
        BY <3>1, <3>4
    <2>3. ASSUME NoRoute(p, 1, n - 1) PROVE StandsAt(s, r, u)
      <3>1. n - 1 \in 0..n-1 /\ (n - 1) + 1 = n
        BY <1>2
      <3>2. NoRoute(q, 1, (n - 1) + 1)
        BY <2>1, <2>3, <3>1
      <3>3. NoRoute(q, 1, Len(q))
        BY <1>1, <3>1, <3>2, Zenon
      <3> QED
        BY <1>6, <3>3 DEF Agree
    <2> QED
      BY <1>2, <2>2, <2>3 DEF StartsFrom, FirstRoute
  <1> QED
    BY <1>1, <1>2, <1>4, <1>5, <1>6 DEF Agree

\* The head is taken by a robot that is then at its end.
LEMMA AgreeTaken ==
    ASSUME NEW S, NEW q \in Seq(S), q # <<>>, NEW s, NEW r, NEW u,
           Agree(q, s, r, u), IsRoute(Head(q)), NEW t,
           t.decisionNodeId = LastOf(Head(q)).nodeId,
           t.decisionSequenceId = LastOf(Head(q)).sequenceId,
           t.orderUpdateId = Head(q).orderUpdateId
    PROVE  Agree(Tail(q), t, r, u)
  <1>1. PICK p, n : p = Tail(q) /\ n = Len(q)
    OBVIOUS
  <1>2. /\ n \in Nat /\ n > 0 /\ Len(p) = n - 1
        /\ DOMAIN p = 1..n-1 /\ DOMAIN q = 1..n
        /\ Head(q) = q[1] /\ \A i \in 1..n-1 : p[i] = q[i+1]
    BY <1>1, HeadTailProperties, EmptySeq, LenProperties
  <1>3. Linked(p) /\ LeadsTo(p, r, u)
    BY <1>1, AgreeTail
  <1>4. \A j \in 0..n-1 : NoRoute(p, 1, j) => NoRoute(q, 2, j + 1)
    <2> SUFFICES ASSUME NEW j \in 0..n-1, NoRoute(p, 1, j), NEW k \in 2..j+1
                 PROVE  ~IsRoute(q[k])
      BY DEF NoRoute
    <2>1. k - 1 \in 1..j /\ k - 1 \in 1..n-1 /\ (k - 1) + 1 = k
      BY <1>2
    <2> QED
      BY <1>2, <2>1 DEF NoRoute
  <1>5. ASSUME NEW j \in 1..n-1, IsRoute(p[j]), NoRoute(p, 1, j - 1)
        PROVE  JoinsState(t, p[j])
    <2>1. j - 1 \in 0..n-1 /\ p[j] = q[j+1] /\ j + 1 \in 1..n /\ 1 \in 1..n
          /\ (j - 1) + 1 = j /\ (j + 1) - 1 = j /\ 1 < j + 1 /\ 1 + 1 = 2
      BY <1>2
    <2>2. NoRoute(q, 2, j)
      <3>1. NoRoute(q, 2, (j - 1) + 1)
        BY <1>4, <1>5, <2>1
      <3> QED
        BY <2>1, <3>1
    <2>3. NoRoute(q, 1 + 1, (j + 1) - 1)
      BY <2>1, <2>2
    <2>4. Joins(q[1], q[j+1])
      <3>1. Linked(q)
        BY DEF Agree
      <3> QED
        BY <1>2, <1>5, <2>1, <2>3, <3>1, Zenon DEF Linked
    <2> QED
      BY <1>2, <2>1, <2>4 DEF Joins, JoinsState, SameStep
  <1>6. ASSUME NoRoute(p, 1, n - 1) PROVE StandsAt(t, r, u)
    <2>1. n - 1 \in 0..n-1 /\ (n - 1) + 1 = n /\ 1 \in 1..n /\ 1 + 1 = 2
      BY <1>2
    <2>2. NoRoute(q, 2, n)
      <3>1. NoRoute(q, 2, (n - 1) + 1)
        BY <1>4, <1>6, <2>1
      <3> QED
        BY <2>1, <3>1
    <2>3. LastRoute(q, 1)
      BY <1>1, <1>2, <2>1, <2>2 DEF LastRoute
    <2>4. EndsAt(q[1], r, u)
      BY <1>2, <2>1, <2>3 DEF Agree, LeadsTo
    <2> QED
      BY <1>2, <2>4 DEF EndsAt, StandsAt, SameStep
  <1> QED
    BY <1>1, <1>2, <1>3, <1>5, <1>6 DEF Agree, StartsFrom, FirstRoute

\* Without anything of the route there is nothing to agree on.
LEMMA AgreeYet ==
    ASSUME NEW q, \A o \in Elements(q) : ~IsRoute(o), NEW s,
           s.orderId # RouteOrder, NEW r, NEW u
    PROVE  Agree(q, s, r, u)
  <1>1. \A i \in DOMAIN q : ~IsRoute(q[i])
    BY DEF Elements
  <1> QED
    BY <1>1 DEF Agree, Linked, LeadsTo, LastRoute

LEMMA AgreeFields ==
    ASSUME NEW q, NEW s, NEW r, NEW u, Agree(q, s, r, u), NEW t,
           t.orderId = s.orderId, t.orderUpdateId = s.orderUpdateId,
           t.decisionNodeId = s.decisionNodeId,
           t.decisionSequenceId = s.decisionSequenceId
    PROVE  Agree(q, t, r, u)
  BY DEF Agree, StartsFrom, JoinsState, StandsAt

\* The inductive invariant: on the first connection, with none of its orders
\* lost, the orders under way lead from the robot to the dispatcher; and a robot
\* that has the route has found its sequenceIds in order.
CountsFromEven == RouteNodes[1].sequenceId % 2 = 0

StepInv ==
    /\ NothingYet /\ NotStartedYet
    /\ state.orderId = RouteOrder => CountsFromEven
    /\ connects = 1 /\ ~missed =>
          Agree(orders, state, releasedIdx, nextUpdateId)

\* What carries the id of the route is a window of it.
LEMMA RouteIsWindow ==
    ASSUME NEW o \in Sound \union {BadUpdate}
    PROVE  o \in Windows <=> IsRoute(o)
  <1>1. BadUpdate.orderId = "demo-order-1"
    BY DEF BadUpdate
  <1> QED
    BY <1>1, BaseShape, UpdateShape, WindowFits, FleetAssumption
       DEF FleetAssumption, Sound, IsRoute

\* Where a window begins and ends.
LEMMA WindowEnds ==
    ASSUME NEW from \in Nat, NEW to \in Nat, NEW id, 0 < from, from <= to,
           to <= Len(RouteNodes)
    PROVE  LET o == Window(from, to, id)
           IN  /\ IsRoute(o) /\ o.orderUpdateId = id
               /\ SameStep(o.nodes[1], RouteNodes[from])
               /\ SameStep(LastOf(o), RouteNodes[to])
  <1>1. PICK o : o = Window(from, to, id)
    OBVIOUS
  <1>2. PICK ns : ns = o.nodes
    OBVIOUS
  <1>3. /\ o.orderUpdateId = id /\ o.orderId = RouteOrder
        /\ ns \in Seq(Node) /\ Len(ns) = to - from + 1
        /\ \A i \in DOMAIN ns : SameStep(ns[i], RouteNodes[from+i-1])
    <2>1. HoldsWindow(o, from, to, id)
      BY <1>1, WindowShape
    <2> QED
      BY <1>2, <2>1 DEF HoldsWindow
  <1>4. DOMAIN ns = 1..to-from+1
    BY <1>3
  <1>5. SameStep(ns[1], RouteNodes[from])
    <2>1. 1 \in DOMAIN ns /\ from + 1 - 1 = from
      BY <1>4
    <2> QED
      BY <1>3, <2>1
  <1>6. SameStep(ns[Len(ns)], RouteNodes[to])
    <2>1. Len(ns) \in DOMAIN ns /\ from + Len(ns) - 1 = to
      BY <1>3, <1>4
    <2>2. SameStep(ns[Len(ns)], RouteNodes[from + Len(ns) - 1])
      BY <1>3, <2>1
    <2> QED
      BY <2>1, <2>2
  <1> QED
    BY <1>1, <1>2, <1>3, <1>5, <1>6 DEF IsRoute, LastOf

LEMMA AcceptsInStep ==
    ASSUME FleetInv, StepInv, AcceptsOrder
    PROVE  /\ state'.orderId = RouteOrder => CountsFromEven
           /\ connects = 1 /\ ~missed =>
                 Agree(orders', state', releasedIdx, nextUpdateId)
  <1>1. RobotInv /\ OrdersInv /\ DOMAIN state = Fields
    BY DEF FleetInv, RobotInv, HoldsChain, StateTyped, OrderShape
  <1>2. PICK o \in Sound : o = Head(orders)
    BY <1>1, AcceptsStep
  <1>3. /\ orders # <<>> /\ orders' = Tail(orders) /\ ValidateOrder(o)
        /\ state' = Accepted(state, o)
        /\ orders \in Seq(Sound \union {BadUpdate})
    BY <1>1, <1>2 DEF AcceptsOrder, AcceptOrder, OrdersInv
  <1>4. /\ state'.orderId = o.orderId
        /\ state'.orderUpdateId = o.orderUpdateId
        /\ state'.decisionNodeId = DecisionPoint(o).nodeId
        /\ state'.decisionSequenceId = DecisionPoint(o).sequenceId
    <2>1. CASE IsNew(state, o)
      BY <1>1, <1>3, <2>1 DEF Accepted, Fields
    <2>2. CASE ~IsNew(state, o)
      BY <1>1, <1>3, <2>2 DEF Accepted, Fields, IsNew
    <2> QED
      BY <2>1, <2>2
  <1>5. CASE IsRoute(o)
    <2>1. o \in Windows
      BY <1>5, RouteIsWindow
    <2>2. CountsFromEven
      BY <1>3, <2>1, WindowFits DEF CountsFromEven
    <2>3. DecisionPoint(o) = [nodeId |-> LastOf(o).nodeId,
                              sequenceId |-> LastOf(o).sequenceId]
      BY <2>1, WindowFits
    <2>4. state'.decisionNodeId = LastOf(o).nodeId
          /\ state'.decisionSequenceId = LastOf(o).sequenceId
      BY <1>4, <2>3
    <2>5. ASSUME connects = 1, ~missed
          PROVE  Agree(orders', state', releasedIdx, nextUpdateId)
      <3>1. Agree(orders, state, releasedIdx, nextUpdateId)
        BY <2>5 DEF StepInv
      <3> QED
        BY <1>2, <1>3, <1>4, <1>5, <2>4, <3>1, AgreeTaken
    <2> QED
      BY <2>2, <2>5
  <1>6. CASE ~IsRoute(o)
    <2>1. state'.orderId # RouteOrder
      BY <1>4, <1>6 DEF IsRoute
    <2>2. ASSUME connects = 1, ~missed
          PROVE  Agree(orders', state', releasedIdx, nextUpdateId)
      <3>1. Agree(orders, state, releasedIdx, nextUpdateId)
        BY <2>2 DEF StepInv
      <3>2. /\ Linked(orders') /\ LeadsTo(orders', releasedIdx, nextUpdateId)
        BY <1>3, <3>1, AgreeTail
      <3> QED
        BY <2>1, <3>2 DEF Agree
    <2> QED
      BY <2>1, <2>2
  <1> QED
    BY <1>5, <1>6

\* An order of the route is refused only by a robot that does not have it.
LEMMA RejectsInStep ==
    ASSUME FleetInv, StepInv, RejectsOrder, connects = 1, ~missed
    PROVE  Agree(orders', state', releasedIdx, nextUpdateId)
  <1>1. RobotInv /\ OrdersInv /\ DOMAIN state = Fields
    BY DEF FleetInv, RobotInv, HoldsChain, StateTyped, OrderShape
  <1>2. PICK o : o = Head(orders)
    OBVIOUS
  <1>3. /\ orders # <<>> /\ orders' = Tail(orders) /\ state' = state
        /\ ~ValidateOrder(o) \/ Rejection(state, o, Position) # ""
        /\ orders \in Seq(Sound \union {BadUpdate})
    BY <1>1, <1>2 DEF RejectsOrder, OrdersInv, robotVars
  <1>4. Agree(orders, state, releasedIdx, nextUpdateId)
    BY DEF StepInv
  <1>5. /\ Linked(orders') /\ LeadsTo(orders', releasedIdx, nextUpdateId)
        /\ ~IsRoute(o) => Agree(orders', state, releasedIdx, nextUpdateId)
    BY <1>2, <1>3, <1>4, AgreeTail
  <1>6. ASSUME IsRoute(o), state.orderId = RouteOrder PROVE FALSE
    <2>1. o \in Windows
      <3>1. o \in Sound \union {BadUpdate}
        BY <1>2, <1>3, HeadTailProperties
      <3> QED
        BY <1>6, <3>1, RouteIsWindow
    <2>2. ValidateOrder(o)
      BY <1>6, <2>1, WindowFits DEF StepInv, CountsFromEven
    <2>3. JoinsState(state, o)
      <3>1. o = orders[1] /\ 1 \in DOMAIN orders
        <4>1. /\ Head(orders) = orders[1] /\ DOMAIN orders = 1..Len(orders)
              /\ Len(orders) \in Nat /\ Len(orders) # 0
          <5>1. PICK S : orders \in Seq(S)
            BY <1>3
          <5>2. orders # <<>>
            BY <1>3
          <5> QED
            BY ONLY <5>1, <5>2, HeadTailProperties, EmptySeq, LenProperties
        <4> QED
          BY <1>2, <4>1
      <3>2. NoRoute(orders, 1, 1 - 1)
        BY DEF NoRoute
      <3>3. StartsFrom(orders, state)
        BY <1>4, <1>6 DEF Agree
      <3> QED
        BY <1>6, <3>1, <3>2, <3>3 DEF StartsFrom, FirstRoute
    <2>4. ~IsNew(state, o)
      BY <1>6 DEF IsNew, IsRoute
    <2>5. state.orderUpdateId \in Int /\ ~state.cancelled
      BY <1>1 DEF RobotInv, HoldsChain, StateTyped, OrderShape
    <2>6. UpdateError(state, o) = ""
      BY <2>3, <2>5 DEF UpdateError, JoinsState, ContinuesFromDecision
    <2> QED
      BY <1>3, <2>2, <2>4, <2>6 DEF Rejection
  <1> QED
    BY <1>3, <1>5, <1>6 DEF Agree

\* Every other step of the first connection.
LEMMA ElseInStep ==
    ASSUME FleetInv, StepInv, [FNext]_vars, ~AcceptsOrder, ~RejectsOrder,
           ~DriveLeg, ~Reconnect, ~Restart, connects = 1, ~missed, ~missed'
    PROVE  Agree(orders', state, releasedIdx', nextUpdateId')
  <1> DEFINE Goal == Agree(orders', state, releasedIdx', nextUpdateId')
  <1>1. /\ Agree(orders, state, releasedIdx, nextUpdateId)
        /\ NothingYet /\ NotStartedYet
    BY DEF StepInv
  <1>2. /\ DInv /\ NewUntilStarted
        /\ orders \in Seq(Sound \union {BadUpdate})
        /\ state.orderUpdateId \in Int
        /\ releasedIdx \in Nat /\ nextUpdateId \in Nat
        /\ releasedIdx <= Len(RouteNodes) /\ Len(RouteNodes) \in Nat
    BY RouteShape DEF FleetInv, OrdersInv, RobotInv, HoldsChain, StateTyped, OrderShape, DInv
  <1>3. \A i \in DOMAIN orders : orders[i].orderUpdateId \in Int
    <2>1. \A o \in Sound \union {BadUpdate} : o.orderUpdateId \in Int
      <3>1. BadUpdate.orderUpdateId = 1
        BY DEF BadUpdate
      <3> QED
        BY <3>1, SoundFits DEF MessagesFit
    <2> QED
      BY <1>2, <2>1
  <1>4. ASSUME UNCHANGED <<orders, releasedIdx, nextUpdateId>> PROVE Goal
    BY <1>1, <1>4
  <1>5. ASSUME UNCHANGED <<releasedIdx, nextUpdateId>>,
               NEW o \in {BaseOrder, GoodUpdate, BadUpdate}, Send(o)
        PROVE  Goal
    <2>1. ~IsRoute(o) /\ o \in Sound \union {BadUpdate}
      <3>1. BadUpdate.orderId = "demo-order-1"
        BY DEF BadUpdate
      <3> QED
        BY <3>1, BaseShape, UpdateShape, FleetAssumption
           DEF FleetAssumption, IsRoute, Sound
    <2>2. orders' = Append(orders, o)
      BY <1>5 DEF Send
    <2>3. Agree(Append(orders, o), state, releasedIdx, nextUpdateId)
      BY <1>1, <1>2, <2>1, AgreeBesides
    <2> QED
      BY <1>5, <2>2, <2>3
  <1>6. ASSUME releasedIdx = 0, NEW r, NEW u
        PROVE  Agree(orders, state, r, u)
    BY <1>1, <1>6, AgreeYet DEF NothingYet, IsRoute
  <1> SUFFICES Goal
    OBVIOUS
  <1> HIDE DEF Goal
  <1>7. CASE Subscribe \/ StartDemo \/ NoExperiment
    BY <1>4, <1>7 DEF Subscribe, StartDemo, NoExperiment, dispVars
  <1>8. CASE WireDispatcher
    <2>1. orders' = orders /\ releasedIdx = 0
      BY <1>1, <1>8 DEF WireDispatcher, NotStartedYet
    <2> QED
      BY <1>6, <2>1 DEF Goal
  <1>9. CASE StartDispatcher
    <2>1. Start /\ Send(published') /\ releasedIdx = 0
      BY <1>1, <1>9 DEF StartDispatcher, NotStartedYet
    <2>2. /\ published' \in Windows /\ nextUpdateId' = 0 + 1
          /\ releasedIdx' \in 1..Len(RouteNodes)
          /\ published' = Window(1, releasedIdx', 0)
      BY <1>2, <2>1, StartStep
    <2>3. PICK o, to : o = published' /\ to = releasedIdx'
      OBVIOUS
    <2>4. /\ IsRoute(o) /\ o.orderUpdateId = 0
          /\ SameStep(o.nodes[1], RouteNodes[1])
          /\ SameStep(LastOf(o), RouteNodes[to])
      BY <1>2, <2>2, <2>3, WindowEnds
    <2>5. Agree(orders, state, 1, 0)
      BY <1>6, <2>1
    <2>6. o \in Sound \union {BadUpdate} /\ orders' = Append(orders, o)
      BY <2>1, <2>2, <2>3 DEF Sound, Send
    <2>7. Agree(Append(orders, o), state, to, 0 + 1)
      <3>1. PICK S : o \in S /\ orders \in Seq(S)
        BY <1>2, <2>6
      <3>2. 0 \in Int /\ state.orderUpdateId \in Int
        BY <1>2
      <3> QED
        BY <1>3, <2>4, <2>5, <3>1, <3>2, AgreeNext
    <2> QED
      BY <2>2, <2>3, <2>6, <2>7, Zenon DEF Goal
  <1>10. CASE OnStateExtends
    <2>1. Extend(Head(states).orderId) /\ Send(published')
      BY <1>10 DEF OnStateExtends
    <2>2. /\ published' \in Windows /\ nextUpdateId' = nextUpdateId + 1
          /\ releasedIdx' \in 1..Len(RouteNodes) /\ releasedIdx > 0
          /\ releasedIdx' > releasedIdx
          /\ published' = Window(releasedIdx, releasedIdx', nextUpdateId)
      BY <1>2, <2>1, ExtendStep
    <2>3. PICK o, to : o = published' /\ to = releasedIdx'
      OBVIOUS
    <2>4. /\ IsRoute(o) /\ o.orderUpdateId = nextUpdateId
          /\ SameStep(o.nodes[1], RouteNodes[releasedIdx])
          /\ SameStep(LastOf(o), RouteNodes[to])
      BY <1>2, <2>2, <2>3, WindowEnds
    <2>5. o \in Sound \union {BadUpdate} /\ orders' = Append(orders, o)
      BY <2>1, <2>2, <2>3 DEF Sound, Send
    <2>6. Agree(Append(orders, o), state, to, nextUpdateId + 1)
      <3>1. PICK S : o \in S /\ orders \in Seq(S)
        BY <1>2, <2>5
      <3>2. nextUpdateId \in Int /\ state.orderUpdateId \in Int
        BY <1>2
      <3> QED
        BY <1>1, <1>3, <2>4, <3>1, <3>2, AgreeNext
    <2> QED
      BY <2>2, <2>3, <2>5, <2>6, Zenon DEF Goal
  <1>11. ASSUME NEW c \in Connections, PublishBase(c) \/ PublishUpdate(c)
         PROVE  Goal
    BY <1>4, <1>5, <1>11 DEF PublishBase, PublishUpdate, dispVars
  <1>12. ASSUME NEW order \in {BaseOrder, GoodUpdate, BadUpdate},
                PostOrder(order)
         PROVE  Goal
    BY <1>4, <1>5, <1>12 DEF PostOrder, dispVars
  <1>13. CASE ToggleDrop
    BY <1>4, <1>13 DEF ToggleDrop, dispVars
  <1>14. CASE OnStatePanics \/ OnStateOnly
    BY <1>4, <1>14 DEF OnStatePanics, OnStateOnly, dispVars
  <1>15. CASE ReportState \/ LoseState
    BY <1>4, <1>15 DEF ReportState, LoseState, dispVars
  <1>16. CASE LoseOrder
    BY <1>16 DEF LoseOrder
  <1>17. CASE UNCHANGED vars
    BY <1>4, <1>17 DEF vars, dispVars
  <1> QED
    BY <1>7, <1>8, <1>9, <1>10, <1>11, <1>12, <1>13, <1>14, <1>15, <1>16, <1>17
       DEF FNext, ConnectStep, OnState

\* An order, once lost, stays lost.
LEMMA MissedStays ==
    ASSUME [FNext]_vars, ~missed', LinkTyped PROVE ~missed
  <1>1. missed \in BOOLEAN
    BY DEF LinkTyped
  <1>2. CASE ConnectStep
    BY <1>2 DEF ConnectStep, Subscribe, StartDemo, NoExperiment, WireDispatcher,
                StartDispatcher, historyVars
  <1>3. CASE Reconnect \/ Restart \/ ToggleDrop
    BY <1>3 DEF Reconnect, Restart, ToggleDrop, historyVars
  <1>4. ASSUME NEW c \in Connections, PublishBase(c) \/ PublishUpdate(c)
        PROVE  ~missed
    BY <1>4 DEF PublishBase, PublishUpdate, historyVars
  <1>5. ASSUME NEW order, PostOrder(order) PROVE ~missed
    BY <1>5 DEF PostOrder
  <1>6. CASE OnState
    BY <1>6 DEF OnState, OnStateExtends, OnStatePanics, OnStateOnly, historyVars
  <1>7. CASE AcceptsOrder \/ RejectsOrder \/ DriveLeg \/ ReportState
    BY <1>7 DEF AcceptsOrder, RejectsOrder, DriveLeg, ReportState, historyVars
  <1>8. CASE LoseOrder
    BY <1>8 DEF LoseOrder
  <1>9. CASE LoseState
    BY <1>1, <1>9 DEF LoseState
  <1>10. CASE UNCHANGED vars
    BY <1>10 DEF vars, historyVars
  <1> QED
    BY <1>2, <1>3, <1>4, <1>5, <1>6, <1>7, <1>8, <1>9, <1>10 DEF FNext

LEMMA StepInvStep ==
    ASSUME FleetInv, ProcessTyped, LinkTyped, StepInv, [FNext]_vars
    PROVE  StepInv'
  <1>1. NothingYet' /\ NotStartedYet'
    BY NothingYetStep DEF StepInv
  <1>2. RobotInv /\ DOMAIN state = Fields /\ CountsFromEven' = CountsFromEven
    BY DEF FleetInv, RobotInv, HoldsChain, StateTyped, OrderShape, CountsFromEven
  <1>3. CASE AcceptsOrder
    <2>1. UNCHANGED <<connects, missed, releasedIdx, nextUpdateId>>
      BY <1>3 DEF AcceptsOrder, dispVars, fleetVars, historyVars
    <2> QED
      BY <1>1, <1>2, <1>3, <2>1, AcceptsInStep DEF StepInv
  <1>4. CASE RejectsOrder
    <2>1. UNCHANGED <<connects, missed, releasedIdx, nextUpdateId, state>>
      BY <1>4 DEF RejectsOrder, dispVars, fleetVars, historyVars, robotVars
    <2> QED
      BY <1>1, <1>2, <1>4, <2>1, RejectsInStep DEF StepInv
  <1>5. CASE DriveLeg
    <2>1. UNCHANGED <<connects, missed, releasedIdx, nextUpdateId, orders>>
      BY <1>5 DEF DriveLeg, dispVars, fleetVars, historyVars
    <2>2. /\ state'.orderId = state.orderId
          /\ state'.orderUpdateId = state.orderUpdateId
          /\ state'.decisionNodeId = state.decisionNodeId
          /\ state'.decisionSequenceId = state.decisionSequenceId
      BY <1>2, <1>5 DEF DriveLeg, Arrived, Fields
    <2>3. ASSUME connects = 1, ~missed
          PROVE  Agree(orders, state', releasedIdx, nextUpdateId)
      <3>1. Agree(orders, state, releasedIdx, nextUpdateId)
        BY <2>3 DEF StepInv
      <3> QED
        BY <2>2, <3>1, AgreeFields
    <2> QED
      BY <1>1, <1>2, <2>1, <2>2, <2>3 DEF StepInv
  <1>6. CASE ~AcceptsOrder /\ ~RejectsOrder /\ ~DriveLeg
    <2>1. state' = state
      BY <1>6, RobotElsewhere
    <2>2. ASSUME connects' = 1, ~missed'
          PROVE  Agree(orders', state', releasedIdx', nextUpdateId')
      <3>1. connects = 1 /\ ~missed
        BY <2>2, ConnectionStep, MissedStays DEF StepInv
      <3>2. ~Reconnect /\ ~Restart
        BY <2>2, <3>1 DEF Reconnect, Restart
      <3> QED
        BY <1>6, <2>1, <2>2, <3>1, <3>2, ElseInStep
    <2> QED
      BY <1>1, <1>2, <2>1, <2>2 DEF StepInv
  <1> QED
    BY <1>3, <1>4, <1>5, <1>6

\* On its first connection, and as long as no order is lost, the dispatcher's
\* count of updates and its released index (dispatcher.go:30) are the robot's
\* orderUpdateId and decision point, whenever nothing of the route is under
\* way: although each side keeps its own, and whatever is posted besides,
\* refused, repeated or reported late, the next update is accepted.
THEOREM FleetInStep == FSpec => []InStep
  <1> DEFINE IInv == FleetInv /\ ProcessTyped /\ LinkTyped /\ StepInv
  <1>1. FInit => IInv
    <2> SUFFICES ASSUME FInit PROVE StepInv
      BY FleetInvInit, TypedInit
    <2>1. /\ state.orderId = NoOrder /\ orders = <<>> /\ releasedIdx = 0
      BY DEF FInit, DInit, NoState
    <2>2. NoOrder # RouteOrder
      BY FleetAssumption DEF FleetAssumption
    <2>3. \A o \in Elements(orders) : ~IsRoute(o) /\ o.orderId # RouteOrder
      BY <2>1 DEF Elements
    <2>4. Agree(orders, state, releasedIdx, nextUpdateId)
      BY <2>1, <2>2, <2>3, AgreeYet
    <2> QED
      BY <2>1, <2>2, <2>3, <2>4 DEF StepInv, NothingYet, NotStartedYet
  <1>2. IInv /\ [FNext]_vars => IInv'
    BY FleetInvStep, ProcessStep, LinkStep, StepInvStep
  <1>3. IInv => InStep
    <2> SUFFICES ASSUME IInv, connects = 1, ~missed, state.orderId = RouteOrder,
                        RouteOrders(orders) = {}
                 PROVE  /\ state.decisionNodeId = nodes[releasedIdx].nodeId
                        /\ state.decisionSequenceId = nodes[releasedIdx].sequenceId
                        /\ state.orderUpdateId + 1 = nextUpdateId
      BY DEF InStep
    <2>1. /\ Agree(orders, state, releasedIdx, nextUpdateId) /\ NothingYet
          /\ DInv /\ orders \in Seq(Sound \union {BadUpdate})
      BY DEF StepInv, FleetInv, OrdersInv
    <2>2. NoRoute(orders, 1, Len(orders))
      <3>1. \A o \in Elements(orders) : ~IsRoute(o)
        BY DEF RouteOrders, IsRoute
      <3>2. DOMAIN orders = 1..Len(orders)
        BY <2>1
      <3> QED
        BY <3>1, <3>2 DEF NoRoute, Elements
    <2>3. StandsAt(state, releasedIdx, nextUpdateId)
      BY <2>1, <2>2 DEF Agree
    <2>4. releasedIdx \in 1..Len(RouteNodes)
      BY <2>1, RouteShape DEF NothingYet, DInv
    <2>5. SameStep(nodes[releasedIdx], RouteNodes[releasedIdx])
      <3>1. nodes = NodesUpTo(releasedIdx)
        BY <2>1 DEF DInv
      <3>2. nodes[releasedIdx] = [RouteNodes[releasedIdx] EXCEPT !.released =
                                     releasedIdx <= releasedIdx]
        BY <2>4, <3>1, Zenon DEF NodesUpTo
      <3>3. RouteNodes[releasedIdx] \in Node
        BY <2>4, RouteShape
      <3> QED
        BY <3>2, <3>3 DEF Node, SameStep
    <2> QED
      BY <2>3, <2>5 DEF StandsAt, SameStep
  <1> QED
    BY <1>1, <1>2, <1>3, PTL DEF FSpec

-----------------------------------------------------------------------------
(* Another sender of orders, which makes mistakes: OrderValidation.         *)

\* The sender's message.
SentOrder(o) ==
    /\ o.nodes \in Seq(Node) /\ o.edges \in Seq(Edge)
    /\ DOMAIN o = {"orderId", "orderUpdateId", "nodes", "edges"}

LEMMA SentDecoded == ASSUME NEW o, SentOrder(o) PROVE Decoded(o)
  <1>1. ASSUME NEW S, NEW s \in Seq(S)
        PROVE  s \in Seq(Elements(s)) /\ Elements(s) \subseteq S
    <2>1. /\ Len(s) \in Nat /\ DOMAIN s = 1..Len(s)
          /\ \A i \in DOMAIN s : s[i] \in S
      BY <1>1
    <2> QED
      BY <2>1 DEF Elements
  <1>2. \A x \in Elements(o.nodes) : x \in Node
    BY <1>1 DEF SentOrder
  <1>3. \A x \in Elements(o.edges) : x \in Edge
    BY <1>1 DEF SentOrder
  <1> QED
    BY <1>1, <1>2, <1>3 DEF SentOrder, Decoded, Node, Edge

\* The slips that move, lose or repeat an entry.
LEMMA SlipsStay ==
    ASSUME NEW S, NEW s \in Seq(S), NEW i \in DOMAIN s
    PROVE  /\ SubSeq(s, 1, i - 1) \o SubSeq(s, i + 1, Len(s)) \in Seq(S)
           /\ Append(s, s[i]) \in Seq(S)
           /\ \A e \in S : [s EXCEPT ![i] = e] \in Seq(S)
           /\ i < Len(s) => [s EXCEPT ![i] = s[i+1], ![i+1] = s[i]] \in Seq(S)
  <1>1. Len(s) \in Nat /\ i \in 1..Len(s) /\ DOMAIN s = 1..Len(s)
    OBVIOUS
  <1>2. SubSeq(s, 1, i - 1) \in Seq(S) /\ SubSeq(s, i + 1, Len(s)) \in Seq(S)
    BY <1>1
  <1>3. SubSeq(s, 1, i - 1) \o SubSeq(s, i + 1, Len(s)) \in Seq(S)
    BY <1>2, ConcatProperties
  <1>4. Append(s, s[i]) \in Seq(S)
    BY <1>1
  <1>5. ASSUME NEW e \in S PROVE [s EXCEPT ![i] = e] \in Seq(S)
    BY <1>1
  <1>6. ASSUME i < Len(s)
        PROVE  [s EXCEPT ![i] = s[i+1], ![i+1] = s[i]] \in Seq(S)
    BY <1>1, <1>6
  <1> QED
    BY <1>3, <1>4, <1>5, <1>6

LEMMA SentFirst == ASSUME VInit PROVE SentOrder(message)
  <1>1. PICK k \in 0..Len(Places) : \E R \in SUBSET (0 .. 2 * k - 2) :
           message = Draft(k, R)
    BY DEF VInit
  <1>2. PICK R \in SUBSET (0 .. 2 * k - 2) : message = Draft(k, R)
    BY <1>1
  <1> DEFINE N(i) == DraftNode(i, 2 * (i - 1) \in R)
             E(i) == DraftEdge(i, 2 * i - 1 \in R)
  <1>3. Len(Places) \in Nat /\ \A i \in 1..Len(Places) : Places[i] \in STRING
    BY ValidationAssumption DEF ValidationAssumption
  <1>4. message = [orderId |-> "o", orderUpdateId |-> 0,
                 nodes |-> [i \in 1..k |-> N(i)],
                 edges |-> [i \in 1..k-1 |-> E(i)]]
    BY <1>2, Zenon DEF Draft
  <1>5. ASSUME NEW i \in 1..k PROVE N(i) \in Node
    <2>1. Places[i] \in STRING /\ 2 * (i - 1) \in Int
      BY <1>3
    <2>2. (2 * (i - 1) \in R) \in BOOLEAN
      OBVIOUS
    <2> QED
      BY <2>1, <2>2 DEF DraftNode, Node
  <1>6. ASSUME NEW i \in 1..k-1 PROVE E(i) \in Edge
    <2>1. Places[i] \in STRING /\ Places[i+1] \in STRING /\ 2 * i - 1 \in Int
      BY <1>3
    <2>2. (2 * i - 1 \in R) \in BOOLEAN
      OBVIOUS
    <2> QED
      BY <2>1, <2>2 DEF DraftEdge, Edge
  <1> HIDE DEF N, E
  <1>7. k \in Nat /\ [i \in 1..k |-> N(i)] \in Seq(Node)
    BY <1>3, <1>5
  <1>8. [i \in 1..k-1 |-> E(i)] \in Seq(Edge)
    <2>1. PICK n \in Nat : 1..k-1 = 1..n
      <3>1. CASE k = 0
        BY <3>1
      <3>2. CASE k # 0
        BY <1>7, <3>2
      <3> QED
        BY <3>1, <3>2
    <2> QED
      BY <1>6, <2>1
  <1> QED
    BY <1>4, <1>7, <1>8 DEF SentOrder

\* What a slip does to the message: another array of nodes, or of edges.
LEMMA SlipKeeps ==
    ASSUME NEW o, SentOrder(o), NEW p,
           \/ \E s \in Seq(Node) : p = [o EXCEPT !.nodes = s]
           \/ \E s \in Seq(Edge) : p = [o EXCEPT !.edges = s]
    PROVE  SentOrder(p)
  BY DEF SentOrder

LEMMA SentStep == ASSUME SentOrder(message), VNext PROVE SentOrder(message')
  <1>1. PICK ns \in Seq(Node), es \in Seq(Edge) :
           ns = message.nodes /\ es = message.edges
    BY DEF SentOrder
  <1>2. /\ Elements(Places) \subseteq STRING
        /\ SequenceIds \subseteq Int
    BY ValidationAssumption DEF ValidationAssumption, Elements, SequenceIds
  <1>3. CASE EditNode \/ SwapNodes
    <2>1. PICK i \in DOMAIN ns :
             \/ \E p \in STRING :
                   message' = [message EXCEPT !.nodes[i].nodeId = p]
             \/ \E q \in Int :
                   message' = [message EXCEPT !.nodes[i].sequenceId = q]
             \/ message' = [message EXCEPT !.nodes =
                               SubSeq(@, 1, i - 1) \o SubSeq(@, i + 1, Len(@))]
             \/ message' = [message EXCEPT !.nodes = Append(@, @[i])]
             \/ i < Len(ns) /\ message' = [message EXCEPT !.nodes =
                              [ns EXCEPT ![i] = ns[i+1], ![i+1] = ns[i]]]
      BY <1>1, <1>2, <1>3, Zenon DEF EditNode, SwapNodes, Drop, Swapped
    <2>2. ASSUME NEW e \in Node, message' = [message EXCEPT !.nodes[i] = e]
          PROVE  SentOrder(message')
      BY <1>1, <2>2, SlipsStay, SlipKeeps
    <2>3. ns[i] \in Node
      OBVIOUS
    <2>4. ASSUME \/ message' = [message EXCEPT !.nodes =
                               SubSeq(@, 1, i - 1) \o SubSeq(@, i + 1, Len(@))]
                 \/ message' = [message EXCEPT !.nodes = Append(@, @[i])]
                 \/ i < Len(ns) /\ message' = [message EXCEPT !.nodes =
                              [ns EXCEPT ![i] = ns[i+1], ![i+1] = ns[i]]]
          PROVE  SentOrder(message')
      BY <1>1, <2>4, SlipsStay, SlipKeeps
    <2>5. ASSUME NEW p \in STRING,
                 message' = [message EXCEPT !.nodes[i].nodeId = p]
          PROVE  SentOrder(message')
      <3>1. [ns[i] EXCEPT !.nodeId = p] \in Node
        BY <2>3 DEF Node
      <3>2. message' =
               [message EXCEPT !.nodes[i] = [ns[i] EXCEPT !.nodeId = p]]
        BY <1>1, <2>5
      <3> QED
        BY <2>2, <3>1, <3>2
    <2>6. ASSUME NEW p \in Int,
                 message' = [message EXCEPT !.nodes[i].sequenceId = p]
          PROVE  SentOrder(message')
      <3>1. [ns[i] EXCEPT !.sequenceId = p] \in Node
        BY <2>3 DEF Node
      <3>2. message' =
               [message EXCEPT !.nodes[i] = [ns[i] EXCEPT !.sequenceId = p]]
        BY <1>1, <2>6
      <3> QED
        BY <2>2, <3>1, <3>2
    <2> QED
      BY <2>1, <2>4, <2>5, <2>6, Zenon
  <1>4. CASE EditEdge \/ SwapEdges
    <2>1. PICK i \in DOMAIN es :
             \/ \E p \in STRING :
                   message' = [message EXCEPT !.edges[i].startNodeId = p]
             \/ \E p \in STRING :
                   message' = [message EXCEPT !.edges[i].endNodeId = p]
             \/ \E q \in Int :
                   message' = [message EXCEPT !.edges[i].sequenceId = q]
             \/ message' = [message EXCEPT !.edges =
                               SubSeq(@, 1, i - 1) \o SubSeq(@, i + 1, Len(@))]
             \/ message' = [message EXCEPT !.edges = Append(@, @[i])]
             \/ i < Len(es) /\ message' = [message EXCEPT !.edges =
                              [es EXCEPT ![i] = es[i+1], ![i+1] = es[i]]]
      BY <1>1, <1>2, <1>4, Zenon DEF EditEdge, SwapEdges, Drop, Swapped
    <2>2. ASSUME NEW e \in Edge, message' = [message EXCEPT !.edges[i] = e]
          PROVE  SentOrder(message')
      BY <1>1, <2>2, SlipsStay, SlipKeeps
    <2>3. es[i] \in Edge
      OBVIOUS
    <2>4. ASSUME \/ message' = [message EXCEPT !.edges =
                               SubSeq(@, 1, i - 1) \o SubSeq(@, i + 1, Len(@))]
                 \/ message' = [message EXCEPT !.edges = Append(@, @[i])]
                 \/ i < Len(es) /\ message' = [message EXCEPT !.edges =
                              [es EXCEPT ![i] = es[i+1], ![i+1] = es[i]]]
          PROVE  SentOrder(message')
      BY <1>1, <2>4, SlipsStay, SlipKeeps
    <2>5. ASSUME NEW p \in STRING,
                 message' = [message EXCEPT !.edges[i].startNodeId = p]
          PROVE  SentOrder(message')
      <3>1. [es[i] EXCEPT !.startNodeId = p] \in Edge
        BY <2>3 DEF Edge
      <3>2. message' =
               [message EXCEPT !.edges[i] = [es[i] EXCEPT !.startNodeId = p]]
        BY <1>1, <2>5
      <3> QED
        BY <2>2, <3>1, <3>2
    <2>6. ASSUME NEW p \in STRING,
                 message' = [message EXCEPT !.edges[i].endNodeId = p]
          PROVE  SentOrder(message')
      <3>1. [es[i] EXCEPT !.endNodeId = p] \in Edge
        BY <2>3 DEF Edge
      <3>2. message' =
               [message EXCEPT !.edges[i] = [es[i] EXCEPT !.endNodeId = p]]
        BY <1>1, <2>6
      <3> QED
        BY <2>2, <3>1, <3>2
    <2>7. ASSUME NEW p \in Int,
                 message' = [message EXCEPT !.edges[i].sequenceId = p]
          PROVE  SentOrder(message')
      <3>1. [es[i] EXCEPT !.sequenceId = p] \in Edge
        BY <2>3 DEF Edge
      <3>2. message' =
               [message EXCEPT !.edges[i] = [es[i] EXCEPT !.sequenceId = p]]
        BY <1>1, <2>7
      <3> QED
        BY <2>2, <3>1, <3>2
    <2> QED
      BY <2>1, <2>4, <2>5, <2>6, <2>7, Zenon
  <1> QED
    BY <1>3, <1>4 DEF VNext

\* Whatever a sender makes of its route, of every length and with every number
\* of slips, ValidateOrder says nil exactly when the rules say yes, or when
\* nothing is left of the order (order.go:18-145).
THEOREM SendersAreJudged == VSpec => []ValidatorExact
  <1>1. VInit => SentOrder(message)
    BY SentFirst
  <1>2. SentOrder(message) /\ [VNext]_<<message, slips>> => SentOrder(message)'
    BY SentStep
  <1>3. SentOrder(message) => ValidatorExact
    BY SentDecoded, ValidatorIsExact DEF ValidatorExact
  <1> QED
    BY <1>1, <1>2, <1>3, PTL DEF VSpec

=============================================================================

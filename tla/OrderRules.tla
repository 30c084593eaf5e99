----------------------------- MODULE OrderRules -----------------------------
(***************************************************************************)
(* What the standard asks of an order, as the teaching plan lists it in    *)
(* its sessions 3 and 4, said of the set of its elements: the reference    *)
(* that ValidateOrder, which walks a sorted copy, is held against.         *)
(***************************************************************************)
EXTENDS Orders

\* What json.Unmarshal makes of a message.
Decoded(o) ==
    /\ o.nodes \in Seq(Elements(o.nodes)) /\ o.edges \in Seq(Elements(o.edges))
    /\ \A x \in Elements(o.nodes) \union Elements(o.edges) :
          x.sequenceId \in Int /\ x.released \in BOOLEAN

\* Nodes and edges alternate along consecutive sequenceIds, from a node with
\* an even one to a node,
Numbered(o, first) ==
    LET nodes == Elements(o.nodes)
        edges == Elements(o.edges)
        n == Len(o.edges)
    IN  /\ Len(o.nodes) = n + 1
        /\ {x.sequenceId : x \in nodes} = {first + 2 * k : k \in 0..n}
        /\ {e.sequenceId : e \in edges} = {first + 2 * k - 1 : k \in 1..n}

\* each edge joins the nodes around it, and
Joined(nodes, edges) ==
    \A e \in edges : \E x, y \in nodes :
       /\ x.sequenceId = e.sequenceId - 1 /\ x.nodeId = e.startNodeId
       /\ y.sequenceId = e.sequenceId + 1 /\ y.nodeId = e.endNodeId
       /\ e.released => x.released /\ y.released

\* what is released is a first part of the journey.
BaseFirst(elements) ==
    \A x, y \in elements :
       x.sequenceId < y.sequenceId /\ y.released => x.released

FollowsTheRules(o) ==
    LET nodes == Elements(o.nodes)
        edges == Elements(o.edges)
    IN  /\ \E first \in {x.sequenceId : x \in nodes} :
              first % 2 = 0 /\ Numbered(o, first)
        /\ Joined(nodes, edges)
        /\ BaseFirst(nodes \union edges)

Empty(o) == o.nodes = <<>> /\ o.edges = <<>>

=============================================================================

-------------------------- MODULE OrderValidation --------------------------
(***************************************************************************)
(* ValidateOrder against the rules of the standard (the teaching plan      *)
(* lists them in its sessions 3 and 4), on every order that a sender gets  *)
(* from a chain of places, released as far as it likes or carelessly, by   *)
(* at most MaxSlips slips: a wrong field, a lost, repeated or moved entry. *)
(***************************************************************************)
EXTENDS OrderRules

CONSTANTS
    Places,     \* the places of the longest chain, in order
    MaxSlips    \* bound: slips per order

ASSUME ValidationAssumption == Places \in Seq(STRING)

VARIABLES
    message,    \* the order, as json.Unmarshal leaves it
    slips       \* the slips so far

DraftNode(i, released) ==
    [nodeId |-> Places[i], sequenceId |-> 2 * (i - 1), released |-> released,
     actions |-> <<>>]

DraftEdge(i, released) ==
    [startNodeId |-> Places[i], endNodeId |-> Places[i+1],
     sequenceId |-> 2 * i - 1, released |-> released, actions |-> <<>>]

\* The chain of the first k places; R holds the released sequenceIds.
Draft(k, R) ==
    [orderId |-> "o", orderUpdateId |-> 0,
     nodes |-> [i \in 1..k |-> DraftNode(i, 2 * (i - 1) \in R)],
     edges |-> [i \in 1..k-1 |-> DraftEdge(i, 2 * i - 1 \in R)]]

VInit ==
    /\ \E k \in 0..Len(Places) : \E R \in SUBSET (0 .. 2 * k - 2) :
          message = Draft(k, R)
    /\ slips = 0

SequenceIds == -1 .. 2 * Len(Places) - 1

Drop(s, i) == SubSeq(s, 1, i - 1) \o SubSeq(s, i + 1, Len(s))

Swapped(s, i) == [s EXCEPT ![i] = s[i+1], ![i+1] = s[i]]

EditNode == \E i \in DOMAIN message.nodes :
    \/ \E p \in Elements(Places) :
          message' = [message EXCEPT !.nodes[i].nodeId = p]
    \/ \E q \in SequenceIds :
          message' = [message EXCEPT !.nodes[i].sequenceId = q]
    \/ message' = [message EXCEPT !.nodes = Drop(@, i)]
    \/ message' = [message EXCEPT !.nodes = Append(@, @[i])]

EditEdge == \E i \in DOMAIN message.edges :
    \/ \E p \in Elements(Places) :
          \/ message' = [message EXCEPT !.edges[i].startNodeId = p]
          \/ message' = [message EXCEPT !.edges[i].endNodeId = p]
    \/ \E q \in SequenceIds :
          message' = [message EXCEPT !.edges[i].sequenceId = q]
    \/ message' = [message EXCEPT !.edges = Drop(@, i)]
    \/ message' = [message EXCEPT !.edges = Append(@, @[i])]

SwapNodes == \E i \in DOMAIN message.nodes :
    /\ i < Len(message.nodes)
    /\ message' = [message EXCEPT !.nodes = Swapped(@, i)]

SwapEdges == \E i \in DOMAIN message.edges :
    /\ i < Len(message.edges)
    /\ message' = [message EXCEPT !.edges = Swapped(@, i)]

VNext ==
    /\ slips < MaxSlips /\ slips' = slips + 1
    /\ EditNode \/ EditEdge \/ SwapNodes \/ SwapEdges

VSpec == VInit /\ [][VNext]_<<message, slips>>

-----------------------------------------------------------------------------

\* The walk over the sorted copy accepts the well-formed orders, in whatever
\* order their arrays are, and besides them only the order with no element.
ValidatorExact ==
    ValidateOrder(message) <=> Empty(message) \/ FollowsTheRules(message)

=============================================================================

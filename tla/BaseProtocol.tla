---------------------------- MODULE BaseProtocol ----------------------------
(***************************************************************************)
(* What fleet control may rely on when it extends an order over a channel  *)
(* that loses and repeats messages: the released road, the base, is only   *)
(* appended to; the robot leaves its nodes behind one by one and in order; *)
(* cancelOrder cuts it off for good; and another order starts only where   *)
(* the base of the previous one has been driven to its end.                *)
(***************************************************************************)
EXTENDS Integers, FiniteSets, Functions

CONSTANT NoOrder

VARIABLES
    order,      \* the order being executed
    update,     \* its last accepted update
    cancelled,  \* whether a cancelOrder closed it
    base        \* the released nodes from the last traversed one onwards:
                \* a function from their sequenceIds to their places

Steps == DOMAIN base

First(S) == CHOOSE q \in S : \A r \in S : q <= r

Ends == Cardinality(Steps) = 1

Init ==
    /\ order = NoOrder /\ update = 0 /\ cancelled = FALSE
    /\ Steps = {}

NewOrder ==
    /\ order = NoOrder \/ Ends
    /\ order' \notin {order, NoOrder} /\ update' = 0 /\ cancelled' = FALSE
    /\ DOMAIN base' # {}

\* A newer update, which repeats nothing of the base but its last node.
Extend ==
    /\ order # NoOrder /\ ~cancelled
    /\ update' > update /\ UNCHANGED <<order, cancelled>>
    /\ Steps \subseteq DOMAIN base' /\ Restrict(base', Steps) = base
    /\ \A q \in Steps, r \in DOMAIN base' \ Steps : q < r

\* The next node of the base is reached.
Move ==
    /\ Cardinality(Steps) > 1
    /\ base' = Restrict(base, Steps \ {First(Steps)})
    /\ UNCHANGED <<order, update, cancelled>>

Cancel ==
    /\ order # NoOrder => Steps # {}
    /\ cancelled' = TRUE /\ UNCHANGED <<order, update>>
    /\ base' = IF Steps = {} THEN base ELSE Restrict(base, {First(Steps)})

Next == NewOrder \/ Extend \/ Move \/ Cancel

Spec == Init /\ [][Next]_<<order, update, cancelled, base>>

=============================================================================

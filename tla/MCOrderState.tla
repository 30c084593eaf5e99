---------------------------- MODULE MCOrderState ----------------------------
(***************************************************************************)
(* Small instances of OrderState for TLC.                                  *)
(***************************************************************************)
EXTENDS OrderState

\* The order message with the places from..to of a route, released up to
\* place `upTo'; place i of a route has the sequenceId 2 * (i - 1).
Window(orderId, updateId, route, from, to, upTo) ==
    [orderId |-> orderId, orderUpdateId |-> updateId,
     nodes |-> [i \in 1 .. to - from + 1 |->
        [nodeId |-> route[from+i-1], sequenceId |-> 2 * (from + i - 2),
         released |-> from + i - 1 <= upTo, actions |-> <<>>]],
     edges |-> [i \in 1 .. to - from |->
        [startNodeId |-> route[from+i-1], endNodeId |-> route[from+i],
         sequenceId |-> 2 * (from + i) - 3, released |-> from + i <= upTo,
         actions |-> <<>>]]]

Route == <<"a", "b", "c", "d">>
Detour == <<"a", "b", "e">>

\* All windows of the route, and a detour that replaces its horizon, with the
\* first place released; and a second order that starts where the first or a
\* part of it may end.
Windows(route, updates) ==
    {Window("o1", u, route, w[1], w[2], w[3]) :
       u \in updates,
       w \in {x \in (1..Len(route)) \X (1..Len(route)) \X (1..Len(route)) :
                x[1] <= x[3] /\ x[3] <= x[2]}}

AnyMessages ==
    Windows(Route, 0..2) \union Windows(Detour, 1..2) \union
    {Window("o2", u, <<"c", "b">>, 1, 2, k) : u \in 0..1, k \in 1..2}

\* The theorems apply to this instance.
ASSUME InstanceAssumption == MessagesWellFormed /\ PlacesOnce

=============================================================================

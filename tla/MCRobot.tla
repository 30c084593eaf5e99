------------------------------ MODULE MCRobot ------------------------------
(***************************************************************************)
(* Small instances of Robot for TLC.                                       *)
(***************************************************************************)
EXTENDS Robot, TLC

\* The order message with the places from..to of a route, released up to
\* place `upTo'; carried gives a place its actions.
Window(updateId, route, carried, from, to, upTo) ==
    [orderId |-> "o1", orderUpdateId |-> updateId,
     nodes |-> [i \in 1 .. to - from + 1 |->
        [nodeId |-> route[from+i-1], sequenceId |-> 2 * (from + i - 2),
         released |-> from + i - 1 <= upTo,
         actions |-> carried[route[from+i-1]]]],
     edges |-> [i \in 1 .. to - from |->
        [startNodeId |-> route[from+i-1], endNodeId |-> route[from+i],
         sequenceId |-> 2 * (from + i) - 3, released |-> from + i <= upTo,
         actions |-> <<>>]]]

Route == <<"a", "b", "c", "d">>

NoActions == [p \in {"a", "b", "c", "d"} |-> <<>>]

\* A light, a pick and a drop along the way; the first one is the robot's
\* start.
SomeAction == {"beep1", "beep2", "pick2", "drop3"}
SomeType == "beep1" :> "beep" @@ "beep2" :> "beep" @@ "pick2" :> "pick" @@
            "drop3" :> "drop"
SomeBlocking == "beep1" :> "NONE" @@ "beep2" :> "NONE" @@ "pick2" :> "HARD" @@
                "drop3" :> "SOFT"
SomeRetriable == [a \in SomeAction |-> a = "pick2"]
SomeActions == "a" :> <<"beep1">> @@ "b" :> <<"beep2", "pick2">> @@
               "c" :> <<"drop3">> @@ "d" :> <<>>

\* One order with a horizon, retransmitted at will.
OneOrder == {Window(0, Route, SomeActions, 1, 4, 3)}

\* An order and two updates of it, each of which may come at any time.
FewActions == [NoActions EXCEPT !["b"] = <<"drop3">>, !["c"] = <<"beep1">>]
Updates == {Window(0, Route, FewActions, 1, 3, 2),
            Window(1, Route, FewActions, 2, 4, 3),
            Window(2, Route, FewActions, 3, 4, 4)}

\* One order, to be cancelled.
OneTrip == {Window(0, Route, FewActions, 1, 3, 3)}

=============================================================================

---------------------------- MODULE MCReporting ----------------------------
(***************************************************************************)
(* Small instances of Reporting for TLC.                                   *)
(***************************************************************************)
EXTENDS Reporting, TLC

\* The first k places of the way from a to b and on to c, released up to
\* place `upTo'; the light at the second place runs while the robot drives on.
Journey(updateId, k, upTo) ==
    LET route == <<"a", "b", "c">>
    IN  [orderId |-> "o1", orderUpdateId |-> updateId,
         nodes |-> [i \in 1..k |->
            [nodeId |-> route[i], sequenceId |-> 2 * (i - 1),
             released |-> i <= upTo,
             actions |-> IF i = 2 THEN <<"beep">> ELSE <<>>]],
         edges |-> [i \in 1..k-1 |->
            [startNodeId |-> route[i], endNodeId |-> route[i+1],
             sequenceId |-> 2 * i - 1, released |-> i < upTo,
             actions |-> <<>>]]]

\* The way to b, and an update that takes the robot from there to c, wherever
\* on the way to b it is by then.
OrderAndUpdate ==
    {Journey(0, 2, 2),
     [Journey(1, 3, 3) EXCEPT !.nodes = SubSeq(@, 2, 3),
                              !.edges = SubSeq(@, 2, 2)]}

Light == {"beep"}
LightType == "beep" :> "beep"
LightBlocking == "beep" :> "NONE"
LightRetriable == "beep" :> FALSE

\* The theorems apply to this instance.
ASSUME InstanceAssumption == OneJourney

=============================================================================

------------------------------ MODULE MCFleet ------------------------------
(***************************************************************************)
(* Small instances of Fleet for TLC: demoRoute with five nodes, which takes *)
(* two windows of three, the second one clamped.                           *)
(***************************************************************************)
EXTENDS Fleet

Places == <<"r_0", "r_1", "r_2", "r_3", "r_4">>

DemoRouteNodes ==
    [i \in DOMAIN Places |->
        [ZeroNode EXCEPT !.nodeId = Places[i], !.sequenceId = 2 * (i - 1)]]

DemoRouteEdges ==
    [i \in 1..Len(Places)-1 |->
        [ZeroEdge EXCEPT !.startNodeId = Places[i], !.endNodeId = Places[i+1],
                         !.sequenceId = 2 * i - 1]]

\* The hypothesis of a theorem, for this instance.
ASSUME InstanceAssumption == RouteLeavesHome

=============================================================================

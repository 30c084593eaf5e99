---------------------------- MODULE MCSimulator ----------------------------
(***************************************************************************)
(* Small instances of Simulator for TLC: a route of four places that comes *)
(* back to the first one; a chain is any piece of it, any part of that     *)
(* piece released.  So a chain may follow that goes further, one that      *)
(* starts later (stitch drops what lies behind the robot), one that ends   *)
(* earlier (cancelOrder), or one that has nothing to do with the last.     *)
(***************************************************************************)
EXTENDS Simulator

Route == <<"a", "b", "a", "c">>

\* The piece of k nodes from place j of the route on.
ChainOf(j, k, released) ==
    [nodes |-> [i \in 1..k |->
        [nodeId |-> Route[j+i-1], sequenceId |-> 2 * (j + i - 2),
         released |-> i <= released, actions |-> <<>>]],
     edges |-> [i \in 1..k-1 |->
        [startNodeId |-> Route[j+i-1], endNodeId |-> Route[j+i],
         sequenceId |-> 2 * (j + i) - 3, released |-> i < released,
         actions |-> <<>>]]]

RouteChains ==
    UNION {{ChainOf(j, k, r) : r \in 1..k} :
           <<j, k>> \in {x \in (1..4) \X (1..4) : x[1] + x[2] <= 5}}

=============================================================================

----------------------------- MODULE Simulator -----------------------------
(***************************************************************************)
(* sim/kinematics.go: the goroutine that drives a chain of nodes and edges *)
(* (Run), and what others do to it (NewSimulator, Extend).  One value of   *)
(* `pc' per place of Run where another goroutine can come in between:      *)
(*                                                                         *)
(*   off       Run was not started                                         *)
(*   check     about to evaluate canDrive                                  *)
(*   parked    receiving from the channel wake                             *)
(*   ticking   receiving from the ticker                                   *)
(*   gate      evaluating the drive gate                                   *)
(*   stepping  the gate was open, step comes next                          *)
(*   arrived   step returned a nodeId, onTick comes next                   *)
(*   crashed   step indexed a slice out of range; the process is gone      *)
(*                                                                         *)
(* Geometry is reduced to places (see Orders).  A tick moves the robot     *)
(* towards its target; it needs at most two ticks to get there from another*)
(* place, which is the bound on the length of a leg.                       *)
(*                                                                         *)
(* As a specification of its own the module lets Extend supply any chain:  *)
(* the callers stitch a new piece, which shifts the elements under edgeIdx,*)
(* or cut the chain short, and Extend compares nothing with what was there.*)
(***************************************************************************)
EXTENDS Orders

CONSTANT Chains     \* the chains [nodes, edges] Extend may supply

VARIABLES
    pc,
    simNodes, simEdges,   \* s.nodes, s.edges
    edgeIdx,              \* s.edgeIdx + 1: the edge being driven
    position,             \* s.position
    wake,                 \* whether the channel wake holds its one token
    extending             \* a caller of Extend is between unlock and send

vars == <<pc, simNodes, simEdges, edgeIdx, position, wake, extending>>

\* Chains as the validation and stitch make them from orders whose arrays are
\* sorted: paired, a released edge between released nodes, and the first node,
\* where the robot stands or has been, released.
IsChain(c) ==
    /\ Paired(c.nodes, c.edges)
    /\ \A i \in DOMAIN c.edges : c.edges[i].released =>
          c.nodes[i].released /\ c.nodes[i+1].released
    /\ c.nodes[1].released
    /\ \A i \in DOMAIN c.nodes : c.nodes[i].nodeId # NoNode

ASSUME ChainAssumption == \A c \in Chains :
    /\ c.nodes \in Seq(Elements(c.nodes)) /\ c.edges \in Seq(Elements(c.edges))
    /\ IsChain(c)

\* A zero Simulator.
Init ==
    /\ pc = "off" /\ simNodes = <<>> /\ simEdges = <<>> /\ edgeIdx = 1
    /\ position = NoNode /\ wake = FALSE /\ extending = FALSE

CanDrive == edgeIdx \in DOMAIN simEdges /\ simEdges[edgeIdx].released

\* NewSimulator, and the start of Run.
Create(nodes, edges) ==
    /\ pc = "off" /\ pc' = "check"
    /\ simNodes' = nodes /\ simEdges' = edges
    /\ edgeIdx' = 1 /\ position' = nodes[1].nodeId
    /\ UNCHANGED <<wake, extending>>

\* Mutant of SetChain: the nodes are forgotten.
SetEdgesOnly(nodes, edges) ==
    /\ pc # "off"
    /\ simEdges' = edges /\ extending' = TRUE
    /\ UNCHANGED <<pc, simNodes, edgeIdx, position, wake>>

\* Extend: first the chain is replaced under s.mu...
SetChain(nodes, edges) ==
    /\ pc # "off"
    /\ simNodes' = nodes /\ simEdges' = edges
    /\ extending' = TRUE
    /\ UNCHANGED <<pc, edgeIdx, position, wake>>

\* Mutant of SendWake: a channel without a buffer; the token is lost if Run is
\* not receiving yet.
SendWakeUnbuffered ==
    /\ extending /\ extending' = FALSE
    /\ \E receiving \in BOOLEAN : wake' = (wake \/ (pc = "parked" /\ receiving))
    /\ UNCHANGED <<pc, simNodes, simEdges, edgeIdx, position>>

\* ...then a token is put in the channel, unless it holds one already.
SendWake ==
    /\ extending /\ extending' = FALSE
    /\ wake' = TRUE
    /\ UNCHANGED <<pc, simNodes, simEdges, edgeIdx, position>>

-----------------------------------------------------------------------------
(* Run.                                                                    *)

Check ==
    /\ pc = "check"
    /\ pc' = IF CanDrive THEN "ticking" ELSE "parked"
    /\ UNCHANGED <<simNodes, simEdges, edgeIdx, position, wake, extending>>

\* Mutant of ReceiveWake: it waits again without a look at the chain.
ReceiveWakeInVain ==
    /\ pc = "parked" /\ wake
    /\ pc' = "parked" /\ wake' = FALSE
    /\ UNCHANGED <<simNodes, simEdges, edgeIdx, position, extending>>

ReceiveWake ==
    /\ pc = "parked" /\ wake
    /\ pc' = "check" /\ wake' = FALSE
    /\ UNCHANGED <<simNodes, simEdges, edgeIdx, position, extending>>

Tick ==
    /\ pc = "ticking" /\ pc' = "gate"
    /\ UNCHANGED <<simNodes, simEdges, edgeIdx, position, wake, extending>>

Gate(open) ==
    /\ pc = "gate"
    /\ pc' = IF open THEN "stepping" ELSE "check"
    /\ UNCHANGED <<simNodes, simEdges, edgeIdx, position, wake, extending>>

InRange == edgeIdx \in DOMAIN simEdges /\ edgeIdx + 1 \in DOMAIN simNodes

Target == simNodes[edgeIdx + 1].nodeId

\* Inside the target's ellipse: that is an arrival, onTick is told about it.
Arrive ==
    /\ position = Target
    /\ edgeIdx' = edgeIdx + 1
    /\ pc' = IF Target = NoNode THEN "check" ELSE "arrived"
    /\ UNCHANGED position

Move ==
    /\ position # Target
    /\ position' \in IF simEdges[edgeIdx] = ZeroEdge THEN {position}
                     ELSE {Target} \union ({Between} \ {position})
    /\ pc' = "check"
    /\ UNCHANGED edgeIdx

\* step reads the edge and its target anew; nothing checks them again, and an
\* index out of range ends the process.
Step ==
    /\ pc = "stepping"
    /\ IF InRange THEN Arrive \/ Move
       ELSE pc' = "crashed" /\ UNCHANGED <<edgeIdx, position>>
    /\ UNCHANGED <<simNodes, simEdges, wake, extending>>

OnTick ==
    /\ pc = "arrived" /\ pc' = "check"
    /\ UNCHANGED <<simNodes, simEdges, edgeIdx, position, wake, extending>>

-----------------------------------------------------------------------------

Run ==
    \/ Check
    \/ ReceiveWake
    \/ Tick
    \/ \E open \in BOOLEAN : Gate(open)
    \/ Step
    \/ OnTick

Next ==
    \/ \E c \in Chains : pc = "off" /\ Create(c.nodes, c.edges)
    \/ \E c \in Chains : ~extending /\ SetChain(c.nodes, c.edges)
    \/ SendWake
    \/ Run

Spec == Init /\ [][Next]_vars

\* Run and the caller of Extend are never held up for good by the scheduler;
\* here the gate also opens again and again, as it does in a robot that is
\* neither paused for good nor stuck on an action.
FairSpec ==
    /\ Spec
    /\ WF_vars(SendWake)
    /\ WF_vars(Check \/ ReceiveWake \/ Tick \/ Step \/ OnTick)
    /\ WF_vars(Gate(TRUE) \/ Gate(FALSE)) /\ SF_vars(Gate(TRUE))

-----------------------------------------------------------------------------

TypeOK ==
    /\ pc \in {"off", "check", "parked", "ticking", "gate", "stepping",
               "arrived", "crashed"}
    /\ edgeIdx \in Nat \ {0}
    /\ wake \in BOOLEAN /\ extending \in BOOLEAN
    /\ simNodes \in Seq(Elements(simNodes)) /\ simEdges \in Seq(Elements(simEdges))
    /\ pc # "off" => IsChain([nodes |-> simNodes, edges |-> simEdges])

\* No wake-up is lost: a parked simulator with a released edge before it has a
\* token waiting, or a caller of Extend that is about to put one there.
NoLostWakeup == pc = "parked" /\ CanDrive => wake \/ extending

\* The run loop has no more to do: it waits before an edge that is missing or
\* not released, or the process is gone.
Resting == pc = "crashed" \/ (pc = "parked" /\ ~CanDrive)

\* Once nobody extends the chain any more, Run drives on until no released
\* edge is left before it, whatever the chains were that replaced each other
\* under it and wherever it was meanwhile: it neither waits before a released
\* edge nor goes round in its loop for ever, unless a step between two chains
\* indexed out of range.
DrivesToTheEnd == (pc # "off" /\ []~extending) ~> []Resting

=============================================================================

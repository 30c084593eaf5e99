-------------------------- MODULE SimulatorProofs --------------------------
(***************************************************************************)
(* Theorems about Simulator, for every set of chains and whichever of them *)
(* follows which: the run loop loses no wake-up, and what it drives stays  *)
(* a chain.                                                                *)
(***************************************************************************)
EXTENDS Simulator, TLAPS

\* The inductive invariant.
IInv == TypeOK /\ NoLostWakeup

LEMMA InitInv == Init => IInv
  <1> SUFFICES ASSUME Init PROVE IInv
    OBVIOUS
  <1>1. <<>> \in Seq(Elements(<<>>))
    OBVIOUS
  <1>2. TypeOK
    <2>1. simNodes = <<>> /\ simEdges = <<>>
      BY DEF Init
    <2>2. /\ simNodes \in Seq(Elements(simNodes))
          /\ simEdges \in Seq(Elements(simEdges))
      BY <1>1, <2>1, Zenon
    <2>3. pc = "off" /\ edgeIdx \in Nat \ {0}
      BY DEF Init
    <2>4. wake \in BOOLEAN /\ extending \in BOOLEAN
      BY Zenon DEF Init
    <2> QED
      BY <2>2, <2>3, <2>4 DEF TypeOK
  <1> QED
    BY <1>2 DEF Init, IInv, NoLostWakeup

\* A chain is supplied: the first one, before Run starts, or one that replaces
\* another, whose caller has still to send the token.
LEMMA SupplyInv ==
    ASSUME IInv, NEW c \in Chains,
           Create(c.nodes, c.edges) \/ SetChain(c.nodes, c.edges)
    PROVE  IInv'
  <1>1. /\ c.nodes \in Seq(Elements(c.nodes)) /\ c.edges \in Seq(Elements(c.edges))
        /\ IsChain(c)
    BY ChainAssumption DEF ChainAssumption
  <1>2. CASE Create(c.nodes, c.edges)
    <2>1. TypeOK'
      BY <1>1, <1>2 DEF IInv, TypeOK, Create, IsChain
    <2> QED
      BY <1>2, <2>1 DEF IInv, Create, NoLostWakeup
  <1>3. CASE SetChain(c.nodes, c.edges)
    <2>1. TypeOK'
      BY <1>1, <1>3 DEF IInv, TypeOK, SetChain, IsChain
    <2> QED
      BY <1>3, <2>1 DEF IInv, SetChain, NoLostWakeup
  <1> QED
    BY <1>2, <1>3

\* The send and the steps of Run that only look leave chain and edge alone.
LEMMA LookInv ==
    ASSUME IInv,
           \/ SendWake \/ Check \/ ReceiveWake \/ Tick
           \/ \E open \in BOOLEAN : Gate(open)
           \/ OnTick
    PROVE  IInv'
  <1>1. CASE SendWake
    <2>1. TypeOK'
      BY <1>1 DEF IInv, TypeOK, SendWake, IsChain
    <2> QED
      BY <1>1, <2>1 DEF IInv, SendWake, NoLostWakeup
  <1>2. CASE Check
    <2>1. TypeOK'
      BY <1>2 DEF IInv, TypeOK, Check, IsChain
    <2> QED
      BY <1>2, <2>1 DEF IInv, Check, NoLostWakeup, CanDrive
  <1>3. CASE ReceiveWake
    <2>1. TypeOK'
      BY <1>3 DEF IInv, TypeOK, ReceiveWake, IsChain
    <2> QED
      BY <1>3, <2>1 DEF IInv, ReceiveWake, NoLostWakeup
  <1>4. CASE Tick \/ OnTick \/ \E open \in BOOLEAN : Gate(open)
    <2>1. /\ pc # "off" /\ pc' \in {"gate", "check", "stepping"}
          /\ UNCHANGED <<simNodes, simEdges, edgeIdx, position, wake, extending>>
      BY <1>4 DEF Tick, OnTick, Gate
    <2>2. TypeOK'
      BY <2>1 DEF IInv, TypeOK, IsChain
    <2> QED
      BY <2>1, <2>2 DEF IInv, NoLostWakeup
  <1> QED
    BY <1>1, <1>2, <1>3, <1>4

\* A step never parks the simulator, wherever its index points by then.
LEMMA StepInv ==
    ASSUME IInv, Step
    PROVE  IInv'
  <1>1. /\ pc # "off" /\ pc' \in {"check", "arrived", "crashed"}
        /\ UNCHANGED <<simNodes, simEdges, wake, extending>>
        /\ edgeIdx' \in {edgeIdx, edgeIdx + 1}
    BY DEF Step, Arrive, Move
  <1>2. TypeOK'
    BY <1>1 DEF IInv, TypeOK, IsChain
  <1> QED
    BY <1>1, <1>2 DEF IInv, NoLostWakeup

LEMMA NextInv == IInv /\ [Next]_vars => IInv'
  <1> SUFFICES ASSUME IInv, [Next]_vars PROVE IInv'
    OBVIOUS
  <1>1. CASE UNCHANGED vars
    BY <1>1 DEF vars, IInv, TypeOK, NoLostWakeup, CanDrive, IsChain
  <1> QED
    BY <1>1, SupplyInv, LookInv, StepInv DEF Next, Run

\* A parked simulator with road ahead is about to be woken, whatever chain
\* was put under its index between the look at the edge and the receive.
THEOREM NoWakeupIsLost == Spec => []NoLostWakeup
  <1>1. IInv => NoLostWakeup
    BY DEF IInv
  <1> QED
    BY <1>1, InitInv, NextInv, PTL DEF Spec

\* Whatever the chains are that Extend supplies, the simulator drives a chain.
THEOREM TypeCorrect == Spec => []TypeOK
  <1>1. IInv => TypeOK
    BY DEF IInv
  <1> QED
    BY <1>1, InitInv, NextInv, PTL DEF Spec

=============================================================================

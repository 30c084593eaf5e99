------------------------- MODULE ActionEngineProofs -------------------------
(***************************************************************************)
(* Theorems about ActionEngine, for every set of actions, every choice of  *)
(* their types and blocking types and every length of the queue.           *)
(***************************************************************************)
EXTENDS ActionEngine, SequenceTheorems, TLAPS

-----------------------------------------------------------------------------
(* Type correctness.                                                       *)

\* The three shapes of a step on the queue: appending a node's actions,
\* rewriting entries in place, and rewriting one field of one entry.
LEMMA EnqueueShape ==
    ASSUME TypeOK, NEW actions \in NodeActions,
           Enqueue(actions)
    PROVE  /\ queue' \in Seq(QueuedAction)
           /\ Len(queue') = Len(queue) + Len(actions)
           /\ \A t \in 1..Len(queue) : queue'[t] = queue[t]
           /\ \A t \in Len(queue) + 1 .. Len(queue') :
                 queue'[t].status = "WAITING"
           /\ live' \subseteq DOMAIN queue'
           /\ \A t \in live' : t \in live \/ t > Len(queue)
  <1> DEFINE fresh == [i \in DOMAIN actions |-> Waiting(actions[i])]
  <1>1. actions \in Seq(Action)
    BY EngineAssumption DEF EngineAssumption
  <1>2. /\ fresh \in Seq(QueuedAction)
        /\ Len(fresh) = Len(actions)
        /\ \A i \in 1..Len(actions) : fresh[i].status = "WAITING"
    <2>1. /\ DOMAIN actions = 1..Len(actions) /\ Len(actions) \in Nat
          /\ \A i \in 1..Len(actions) : actions[i] \in Action
      BY <1>1
    <2>2. \A a \in Action : Waiting(a) \in QueuedAction
      BY DEF Waiting, QueuedAction, Status
    <2>3. fresh = [i \in 1..Len(actions) |-> Waiting(actions[i])]
      BY <2>1
    <2>4. \A i \in 1..Len(actions) : fresh[i] = Waiting(actions[i])
      BY <2>3
    <2>5. fresh \in [1..Len(actions) -> QueuedAction]
      BY <2>1, <2>2, <2>3
    <2>6. Len(fresh) = Len(actions) /\ fresh \in Seq(QueuedAction)
      BY <2>1, <2>5
    <2> QED
      BY <2>4, <2>6 DEF Waiting
  <1>3. queue \in Seq(QueuedAction) /\ queue' = queue \o fresh
    BY DEF TypeOK, Enqueue
  <1> HIDE DEF fresh
  <1>4. /\ queue' \in Seq(QueuedAction)
        /\ Len(queue') = Len(queue) + Len(actions)
        /\ \A t \in 1..Len(queue) : queue'[t] = queue[t]
    <2>1. \A i \in 1 .. Len(queue) + Len(fresh) :
             queue'[i] = IF i <= Len(queue) THEN queue[i]
                         ELSE fresh[i - Len(queue)]
      BY <1>2, <1>3, ConcatProperties
    <2>2. queue' \in Seq(QueuedAction) /\ Len(queue') = Len(queue) + Len(fresh)
      BY <1>2, <1>3, ConcatProperties
    <2>3. Len(queue) \in Nat /\ Len(fresh) \in Nat
      BY <1>2, <1>3
    <2> QED
      BY <2>1, <2>2, <2>3, <1>2
  <1>5. ASSUME NEW t \in Len(queue) + 1 .. Len(queue')
        PROVE  queue'[t].status = "WAITING"
    <2>1. t - Len(queue) \in 1..Len(actions) /\ t \in 1..Len(queue')
      BY <1>1, <1>3, <1>4
    <2>2. queue'[t] = fresh[t - Len(queue)]
      BY <2>1, <1>2, <1>3, <1>4
    <2> QED
      BY <2>1, <2>2, <1>2
  <1>6. /\ live' \subseteq DOMAIN queue'
        /\ \A t \in live' : t \in live \/ t > Len(queue)
    BY <1>1, <1>3, <1>4 DEF TypeOK, Enqueue, Ticket
  <1> QED
    BY <1>4, <1>5, <1>6

\* The other steps rewrite entries where they are.
LEMMA RewriteShape ==
    ASSUME TypeOK, queue' \in [Ticket -> QueuedAction]
    PROVE  /\ queue' \in Seq(QueuedAction)
           /\ DOMAIN queue' = Ticket
           /\ Len(queue') = Len(queue)
  <1>1. Ticket = 1..Len(queue) /\ Len(queue) \in Nat
    BY DEF TypeOK, Ticket
  <1> QED
    BY <1>1

LEMMA AdvanceShape ==
    ASSUME TypeOK, NEW unlucky, AdvanceWith(unlucky)
    PROVE  /\ queue' \in [Ticket -> QueuedAction]
           /\ live' = Kept
           /\ \A t \in Ticket :
                 /\ queue'[t].action = queue[t].action
                 /\ queue'[t].status =
                       IF ~(t \in Kept /\ Reached(t, unlucky)) THEN StatusOf(t)
                       ELSE IF Starts(t, unlucky) THEN "RUNNING"
                       ELSE AfterRun(t, unlucky)
  <1>1. ASSUME NEW t \in Ticket
        PROVE  queue[t] \in QueuedAction /\ Advanced(t, unlucky) \in QueuedAction
    <2>1. queue[t] \in QueuedAction
      BY DEF TypeOK, Ticket
    <2>2. AfterRun(t, unlucky) \in Status
      BY <2>1 DEF AfterRun, StatusOf, Status, QueuedAction
    <2> QED
      BY <2>1, <2>2 DEF Advanced, QueuedAction, Status
  <1>2. queue' \in [Ticket -> QueuedAction]
    BY <1>1 DEF AdvanceWith
  <1>3. ASSUME NEW t \in Ticket
        PROVE  /\ queue'[t].action = queue[t].action
               /\ queue'[t].status =
                     IF ~(t \in Kept /\ Reached(t, unlucky)) THEN StatusOf(t)
                     ELSE IF Starts(t, unlucky) THEN "RUNNING"
                     ELSE AfterRun(t, unlucky)
    <2>1. queue'[t] = IF t \in Kept /\ Reached(t, unlucky)
                      THEN Advanced(t, unlucky) ELSE queue[t]
      BY DEF AdvanceWith
    <2>2. queue[t] \in QueuedAction
      BY <1>1
    <2> QED
      BY <2>1, <2>2 DEF Advanced, QueuedAction, StatusOf
  <1> QED
    BY <1>2, <1>3 DEF AdvanceWith

\* A step that moves one field of one entry, or fails what is pending.
LEMMA RequestShape ==
    ASSUME TypeOK,
           \/ \E t \in live : Elapse(t)
           \/ \E a \in Action : Retry(a) \/ SkipRetry(a)
           \/ CancelAll
    PROVE  queue' \in [Ticket -> QueuedAction] /\ live' = live
  <1>1. queue \in [Ticket -> QueuedAction] /\ live \subseteq Ticket
    BY DEF TypeOK, Ticket
  <1>2. CASE \E t \in live : Elapse(t)
    BY <1>1, <1>2 DEF Elapse, QueuedAction
  <1>3. CASE \E a \in Action : Retry(a)
    BY <1>1, <1>3 DEF Retry, QueuedAction, Status
  <1>4. CASE \E a \in Action : SkipRetry(a)
    BY <1>1, <1>4 DEF SkipRetry, QueuedAction, Status
  <1>5. CASE CancelAll
    BY <1>1, <1>5 DEF CancelAll, QueuedAction, Status
  <1> QED
    BY <1>2, <1>3, <1>4, <1>5

LEMMA TypeStep == TypeOK /\ [Next]_vars => TypeOK'
  <1> SUFFICES ASSUME TypeOK, [Next]_vars PROVE TypeOK'
    OBVIOUS
  <1>1. ASSUME NEW actions \in NodeActions, Enqueue(actions) PROVE TypeOK'
    BY <1>1, EnqueueShape DEF TypeOK, Ticket
  <1>2. CASE Advance
    <2>1. PICK unlucky : AdvanceWith(unlucky)
      BY <1>2 DEF Advance
    <2>2. queue' \in [Ticket -> QueuedAction] /\ live' = Kept
      BY <2>1, AdvanceShape
    <2> QED
      BY <2>2, RewriteShape DEF TypeOK, Ticket, Kept
  <1>3. CASE \/ \E t \in live : Elapse(t)
             \/ \E a \in Action : Retry(a) \/ SkipRetry(a)
             \/ CancelAll
    BY <1>3, RequestShape, RewriteShape DEF TypeOK, Ticket
  <1>4. CASE UNCHANGED vars
    BY <1>4 DEF vars, TypeOK, Ticket
  <1> QED
    BY <1>1, <1>2, <1>3, <1>4 DEF Next

\* The entries of the queue keep their shape and live tickets name entries.
THEOREM TypeCorrect == Spec => []TypeOK
  <1>1. Init => TypeOK
    BY DEF Init, TypeOK, Ticket
  <1> QED
    BY <1>1, TypeStep, PTL DEF Spec

-----------------------------------------------------------------------------
(* The gates.                                                              *)

\* completeIfDue only ends what was running: an action that is active or
\* waiting after it was so before it.
LEMMA AfterRunFacts ==
    ASSUME NEW t, NEW unlucky
    PROVE  /\ AfterRun(t, unlucky) \in Active => StatusOf(t) \in Active
           /\ AfterRun(t, unlucky) = "WAITING" => StatusOf(t) = "WAITING"
           /\ StatusOf(t) \notin Active => AfterRun(t, unlucky) = StatusOf(t)
  BY DEF AfterRun, Due, Active

\* An entry that ends the walk held back what is behind it before the pass.
LEMMA EndsWalkHolds ==
    ASSUME NEW t, NEW unlucky, EndsWalk(t, unlucky)
    PROVE  Holds(t)
  BY AfterRunFacts DEF EndsWalk, Holds

\* A pass starts nothing behind a gate, and what it starts alone is alone.
LEMMA AdvanceGate ==
    ASSUME TypeOK, GateInv, Advance
    PROVE  GateInv'
  <1>1. PICK unlucky : AdvanceWith(unlucky)
    BY DEF Advance
  <1> DEFINE S(t) == queue'[t].status
             R(t) == t \in Kept /\ Reached(t, unlucky)
  <1>2. /\ queue' \in [Ticket -> QueuedAction]
        /\ live' = Kept
        /\ \A t \in Ticket :
              /\ queue'[t].action = queue[t].action
              /\ S(t) = IF ~R(t) THEN StatusOf(t)
                        ELSE IF Starts(t, unlucky) THEN "RUNNING"
                        ELSE AfterRun(t, unlucky)
    BY <1>1, AdvanceShape
  <1>3. live \subseteq Ticket /\ Kept \subseteq live /\ Ticket \subseteq Int
    BY DEF TypeOK, Ticket, Kept
  <1>4. \A t \in Kept : Holds(t)' =
           \/ S(t) \in Active /\ Blocking(t) \in Exclusive
           \/ S(t) = "WAITING" /\ Blocking(t) \notin Parallel
    BY <1>2, <1>3 DEF Holds, Blocking, StatusOf
  <1> SUFFICES ASSUME NEW t \in Kept, NEW u \in Kept, t < u
               PROVE  /\ Holds(t)' => S(u) \notin Active
                      /\ S(u) \in Active /\ Blocking(u) \notin Parallel
                            => S(t) \in Terminal
    BY <1>2, <1>3 DEF GateInv, StatusOf, Blocking
  <1>5. Holds(t) => StatusOf(u) \notin Active
    BY <1>3 DEF GateInv
  <1>6. ASSUME Holds(t)' PROVE S(u) \notin Active
    <2>1. CASE R(t)
      <3>1. EndsWalk(t, unlucky)
        BY <1>2, <1>3, <1>4, <1>6, <2>1
           DEF EndsWalk, Starts, Exclusive, Parallel, Active
      <3>2. ~Reached(u, unlucky)
        BY <3>1 DEF Reached
      <3> QED
        BY <3>1, <3>2, <1>2, <1>3, <1>5, EndsWalkHolds
    <2>2. CASE ~R(t)
      <3>1. S(t) = StatusOf(t) /\ Holds(t)
        BY <2>2, <1>2, <1>3, <1>4, <1>6 DEF Holds
      <3>2. PICK w \in Kept : w < t /\ EndsWalk(w, unlucky)
        BY <2>2 DEF Reached
      <3>3. ~Reached(u, unlucky)
        BY <3>2, <1>3 DEF Reached
      <3> QED
        BY <3>1, <3>3, <1>2, <1>3, <1>5
    <2> QED
      BY <2>1, <2>2
  <1>7. ASSUME S(u) \in Active, Blocking(u) \notin Parallel
        PROVE  S(t) \in Terminal
    <2>1. StatusOf(u) \notin Active
      BY <1>3, <1>7 DEF GateInv, Kept
    <2>2. Reached(u, unlucky) /\ Starts(u, unlucky)
      BY <2>1, <1>2, <1>3, <1>7, AfterRunFacts
    <2>3. AfterRun(t, unlucky) \in Terminal
      BY <2>2, <1>7 DEF Starts
    <2>4. Reached(t, unlucky) /\ ~Starts(t, unlucky)
      BY <2>2, <2>3, <1>3 DEF Reached, Starts, Terminal
    <2> QED
      BY <2>3, <2>4, <1>2, <1>3
  <1> QED
    BY <1>6, <1>7

LEMMA GateStep == TypeOK /\ GateInv /\ [Next]_vars => GateInv'
  <1> SUFFICES ASSUME TypeOK, GateInv, [Next]_vars PROVE GateInv'
    OBVIOUS
  <1>1. queue \in [Ticket -> QueuedAction] /\ live \subseteq Ticket
    BY DEF TypeOK, Ticket
  <1>2. ASSUME NEW actions \in NodeActions, Enqueue(actions) PROVE GateInv'
    <2>1. /\ Ticket = 1..Len(queue) /\ Len(queue) \in Nat
          /\ Ticket' = 1..Len(queue') /\ Len(queue') \in Nat
      BY <1>2, EnqueueShape DEF TypeOK, Ticket
    <2>2. /\ \A t \in 1..Len(queue) : queue'[t] = queue[t]
          /\ \A t \in Len(queue) + 1 .. Len(queue') :
                queue'[t].status = "WAITING"
          /\ live' \subseteq 1..Len(queue')
          /\ \A t \in live' : t \in live \/ t > Len(queue)
      BY <1>2, <2>1, EnqueueShape DEF Ticket
    <2>3. \A t \in live' : t \in 1..Len(queue') /\ t \in Int
      BY <2>2
    <2>4. \A t \in live' :
             \/ t \in live /\ queue'[t] = queue[t]
             \/ t > Len(queue) /\ queue'[t].status = "WAITING"
      BY <2>2, <2>1, <2>3, <1>1
    <2> SUFFICES ASSUME NEW t \in live', NEW u \in live', t < u
                 PROVE  /\ Holds(t)' => queue'[u].status \notin Active
                        /\ queue'[u].status \in Active /\ Blocking(u)' \notin Parallel
                              => queue'[t].status \in Terminal
      BY DEF GateInv, StatusOf
    <2>5. CASE u \in live /\ queue'[u] = queue[u]
      <3>1. t \in live /\ queue'[t] = queue[t]
        BY <2>5, <2>4, <2>3, <2>1, <1>1
      <3> QED
        BY <2>5, <3>1 DEF GateInv, Holds, StatusOf, Blocking
    <2>6. CASE queue'[u].status = "WAITING"
      BY <2>6 DEF Active
    <2> QED
      BY <2>4, <2>5, <2>6
  <1>3. CASE \E t \in live : Elapse(t)
    <2>1. live' = live /\ \A t \in live : /\ queue'[t].action = queue[t].action
                                          /\ queue'[t].status = queue[t].status
      BY <1>1, <1>3 DEF Elapse, QueuedAction
    <2> QED
      BY <2>1 DEF GateInv, Holds, StatusOf, Blocking
  <1>4. CASE Advance
    BY <1>4, AdvanceGate
  <1>5. CASE \E a \in Action : Retry(a) \/ SkipRetry(a)
    <2>1. PICK r \in live :
             /\ StatusOf(r) = "RETRIABLE" /\ live' = live
             /\ queue'[r].action = queue[r].action
             /\ queue'[r].status \in {"RUNNING", "FAILED"}
             /\ \A t \in live \ {r} : queue'[t] = queue[t]
      BY <1>1, <1>5 DEF Retry, SkipRetry, CanRetry, QueuedAction
    <2>2. \A t \in live : /\ Blocking(t)' = Blocking(t)
                          /\ StatusOf(t)' \in Active => StatusOf(t) \in Active
                          /\ StatusOf(t) \in Terminal => StatusOf(t)' \in Terminal
                          /\ Holds(t)' => Holds(t)
      BY <2>1 DEF StatusOf, Blocking, Active, Terminal, Holds
    <2> QED
      BY <2>1, <2>2 DEF GateInv
  <1>6. CASE CancelAll
    <2>1. live' = live /\ \A t \in live : StatusOf(t)' \in Terminal
      BY <1>1, <1>6 DEF CancelAll, Kept, StatusOf, Terminal, QueuedAction
    <2> QED
      BY <2>1 DEF GateInv, Holds, Active, Terminal
  <1>7. CASE UNCHANGED vars
    BY <1>7 DEF vars, GateInv, Holds, StatusOf, Blocking
  <1> QED
    BY <1>2, <1>3, <1>4, <1>5, <1>6, <1>7 DEF Next

\* The inductive invariant: no action is active behind one that holds it back.
THEOREM GateCorrect == Spec => [](TypeOK /\ GateInv)
  <1>1. Init => TypeOK /\ GateInv
    BY DEF Init, TypeOK, GateInv, Ticket
  <1> QED
    BY <1>1, TypeStep, GateStep, PTL DEF Spec

\* An active SINGLE or HARD action is alone, in every reachable queue.
THEOREM ExclusionCorrect == Spec => []Exclusion
  <1>1. TypeOK /\ GateInv => Exclusion
    <2> SUFFICES ASSUME TypeOK, GateInv, NEW t \in live, NEW u \in live,
                        StatusOf(t) \in Active, StatusOf(u) \in Active,
                        Blocking(t) \in Exclusive
                 PROVE  t = u
      BY DEF Exclusion
    <2>1. t \in Int /\ u \in Int
      BY DEF TypeOK, Ticket
    <2>2. ~(t < u)
      BY DEF GateInv, Holds
    <2>3. ~(u < t)
      BY DEF GateInv, Exclusive, Parallel, Active, Terminal
    <2> QED
      BY <2>1, <2>2, <2>3
  <1> QED
    BY <1>1, GateCorrect, PTL

-----------------------------------------------------------------------------
(* Driving.                                                                *)

\* A pending action was pending before, in every step but an append.
LEMMA PendingStep ==
    ASSUME TypeOK, [Next]_vars,
           ~(\E actions \in NodeActions : Enqueue(actions) /\ actions # <<>>)
    PROVE  /\ Len(queue') = Len(queue)
           /\ live' \subseteq live
           /\ \A t \in live' : /\ Blocking(t)' = Blocking(t)
                               /\ StatusOf(t) \in Terminal
                                     => StatusOf(t)' \in Terminal
  <1>1. queue \in [Ticket -> QueuedAction] /\ live \subseteq Ticket
    BY DEF TypeOK, Ticket
  <1>2. ASSUME NEW actions \in NodeActions, Enqueue(actions), actions = <<>>
        PROVE  UNCHANGED vars
    <2>1. actions = <<>> /\ DOMAIN actions = {} /\ Len(actions) = 0
      BY <1>2
    <2>2. live' = live
      BY <1>2, <2>1 DEF Enqueue, TypeOK
    <2>3. /\ queue' \in Seq(QueuedAction) /\ queue \in Seq(QueuedAction)
          /\ Len(queue') = Len(queue)
          /\ \A t \in 1..Len(queue) : queue'[t] = queue[t]
      BY <1>2, <2>1, EnqueueShape DEF TypeOK
    <2>4. queue' = queue
      BY <2>3, SeqEqual
    <2> QED
      BY <2>2, <2>4 DEF vars
  <1>3. CASE UNCHANGED vars
    BY <1>3 DEF vars, StatusOf, Blocking
  <1>4. CASE Advance
    <2>1. PICK unlucky : AdvanceWith(unlucky)
      BY <1>4 DEF Advance
    <2>2. queue' \in [Ticket -> QueuedAction] /\ live' = Kept
      BY <2>1, AdvanceShape
    <2>3. \A t \in Ticket : queue'[t].action = queue[t].action
      BY <2>1, AdvanceShape
    <2> QED
      BY <2>2, <2>3, <1>1, RewriteShape DEF Kept, Blocking, StatusOf
  <1>5. CASE \/ \E t \in live : Elapse(t)
             \/ \E a \in Action : Retry(a) \/ SkipRetry(a)
             \/ CancelAll
    <2>1. Len(queue') = Len(queue) /\ live' = live
      BY <1>5, RequestShape, RewriteShape
    <2>2. CASE \E t \in live : Elapse(t)
      BY <2>1, <2>2, <1>1 DEF Elapse, Blocking, StatusOf, Terminal, QueuedAction
    <2>3. CASE \E a \in Action : Retry(a)
      BY <2>1, <2>3, <1>1
         DEF Retry, CanRetry, Blocking, StatusOf, Terminal, QueuedAction
    <2>4. CASE \E a \in Action : SkipRetry(a)
      BY <2>1, <2>4, <1>1
         DEF SkipRetry, CanRetry, Blocking, StatusOf, Terminal, QueuedAction
    <2>5. CASE CancelAll
      BY <2>1, <2>5, <1>1
         DEF CancelAll, Kept, Blocking, StatusOf, Terminal, QueuedAction
    <2> QED
      BY <1>5, <2>2, <2>3, <2>4, <2>5
  <1> QED
    BY <1>2, <1>3, <1>4, <1>5 DEF Next

\* A robot that may drive is stopped by nothing but newly enqueued actions.
THEOREM OnlyEnqueueStops == Spec => OnlyEnqueueStopsDriving
  <1>1. ASSUME TypeOK, [Next]_vars, DrivingAllowed, ~DrivingAllowed'
        PROVE  Len(queue') > Len(queue)
    <2>1. PICK actions \in NodeActions : Enqueue(actions) /\ actions # <<>>
      <3>1. SUFFICES ASSUME ~(\E actions \in NodeActions :
                                 Enqueue(actions) /\ actions # <<>>)
                     PROVE  DrivingAllowed'
        BY <1>1
      <3> QED
        BY <1>1, <3>1, PendingStep DEF DrivingAllowed
    <2>2. actions \in Seq(Action) /\ Len(queue') = Len(queue) + Len(actions)
      BY <1>1, <2>1, EnqueueShape, EngineAssumption DEF EngineAssumption
    <2>3. Len(actions) > 0 /\ Len(queue) \in Nat
      BY <2>1, <2>2, <1>1, EmptySeq DEF TypeOK
    <2> QED
      BY <2>2, <2>3
  <1>2. TypeOK /\ [Next]_vars
           => [DrivingAllowed /\ ~DrivingAllowed' => Len(queue') > Len(queue)]_vars
    BY <1>1
  <1> QED
    BY <1>2, TypeCorrect, PTL DEF Spec, OnlyEnqueueStopsDriving

-----------------------------------------------------------------------------
(* The engine implements ActionLifecycle.                                  *)

\* The arrows of the lifecycle, on the entries a step finds in the queue and
\* on those it appends.
Arrow(old, new) ==
    \/ new = old
    \/ old = "WAITING" /\ new = "RUNNING"
    \/ old = "RUNNING" /\ new \in {"FINISHED", "FAILED", "RETRIABLE"}
    \/ old = "RETRIABLE" /\ new = "RUNNING"
    \/ old \in {"WAITING", "RUNNING", "RETRIABLE"} /\ new = "FAILED"

LEMMA ArrowStep ==
    ASSUME TypeOK, [Next]_vars
    PROVE  /\ \A t \in Ticket : t \in Ticket' /\ Arrow(StatusOf(t), StatusOf(t)')
           /\ \A t \in Ticket' : t \in Ticket \/ StatusOf(t)' = "WAITING"
  <1>1. queue \in [Ticket -> QueuedAction] /\ live \subseteq Ticket
    BY DEF TypeOK, Ticket
  <1>2. ASSUME NEW actions \in NodeActions, Enqueue(actions)
        PROVE  /\ \A t \in Ticket : t \in Ticket' /\ StatusOf(t)' = StatusOf(t)
               /\ \A t \in Ticket' : t \in Ticket \/ StatusOf(t)' = "WAITING"
    <2>1. /\ queue' \in Seq(QueuedAction)
          /\ Len(queue') = Len(queue) + Len(actions)
          /\ \A t \in 1..Len(queue) : queue'[t] = queue[t]
          /\ \A t \in Len(queue) + 1 .. Len(queue') : queue'[t].status = "WAITING"
      BY <1>2, EnqueueShape
    <2>2. /\ Ticket = 1..Len(queue) /\ Len(queue) \in Nat
          /\ Ticket' = 1..Len(queue') /\ Len(queue') \in Nat
      BY <2>1 DEF TypeOK, Ticket
    <2>3. Len(actions) \in Nat
      BY EngineAssumption DEF EngineAssumption
    <2> QED
      BY <2>1, <2>2, <2>3 DEF StatusOf
  <1>3. CASE Advance
    <2>1. PICK unlucky : AdvanceWith(unlucky)
      BY <1>3 DEF Advance
    <2>2. /\ queue' \in [Ticket -> QueuedAction]
          /\ \A t \in Ticket :
                StatusOf(t)' = IF ~(t \in Kept /\ Reached(t, unlucky))
                               THEN StatusOf(t)
                               ELSE IF Starts(t, unlucky) THEN "RUNNING"
                               ELSE AfterRun(t, unlucky)
      BY <2>1, AdvanceShape DEF StatusOf
    <2>3. \A t \in Ticket : Arrow(StatusOf(t), AfterRun(t, unlucky))
      BY DEF AfterRun, Due, Arrow
    <2>4. \A t \in Ticket : Starts(t, unlucky) => StatusOf(t) = "WAITING"
      BY AfterRunFacts DEF Starts
    <2>5. \A t \in Ticket : Arrow(StatusOf(t), StatusOf(t)')
      BY <2>2, <2>3, <2>4 DEF Arrow
    <2>6. Ticket' = Ticket
      BY <2>2 DEF Ticket
    <2> QED
      BY <2>5, <2>6
  <1>4. CASE \/ \E t \in live : Elapse(t)
             \/ \E a \in Action : Retry(a) \/ SkipRetry(a)
             \/ CancelAll
    <2>1. Ticket' = Ticket
      BY <1>4, RequestShape DEF Ticket
    <2>2. CASE \E t \in live : Elapse(t)
      BY <2>1, <2>2, <1>1 DEF Elapse, StatusOf, Arrow, QueuedAction
    <2>3. CASE \E a \in Action : Retry(a)
      BY <2>1, <2>3, <1>1 DEF Retry, CanRetry, StatusOf, Arrow, QueuedAction
    <2>4. CASE \E a \in Action : SkipRetry(a)
      BY <2>1, <2>4, <1>1 DEF SkipRetry, CanRetry, StatusOf, Arrow, QueuedAction
    <2>5. CASE CancelAll
      BY <2>1, <2>5, <1>1
         DEF CancelAll, Kept, Terminal, StatusOf, Arrow, QueuedAction, Status
    <2> QED
      BY <1>4, <2>1, <2>2, <2>3, <2>4, <2>5
  <1>5. CASE UNCHANGED vars
    BY <1>5 DEF vars, StatusOf, Ticket, Arrow
  <1> QED
    BY <1>2, <1>3, <1>4, <1>5 DEF Next, Arrow

\* Whatever interleaving of appends, passes, retries and cancels, each entry
\* of the queue moves along the lifecycle of one action.
THEOREM ImplementsLifecycle == Spec => ActionsFollowLifecycle
  <1>1. Init => Lifecycle!Init
    BY DEF Init, Lifecycle!Init, EntryStatus, Ticket
  <1>2. TypeOK /\ [Next]_vars => [Lifecycle!Next]_EntryStatus
    <2> SUFFICES ASSUME TypeOK, [Next]_vars PROVE Lifecycle!Next
      OBVIOUS
    <2>1. DOMAIN EntryStatus' = 1..MaxEnqueued
      BY DEF EntryStatus
    <2>2. ASSUME NEW t \in 1..MaxEnqueued
          PROVE  Lifecycle!Moves(t) \/ EntryStatus'[t] = EntryStatus[t]
      <3>1. CASE t \in Ticket
        <4>1. /\ EntryStatus[t] = StatusOf(t) /\ EntryStatus'[t] = StatusOf(t)'
              /\ Arrow(StatusOf(t), StatusOf(t)')
          BY <3>1, ArrowStep DEF EntryStatus
        <4> QED
          BY <4>1 DEF Arrow, Lifecycle!Moves, Lifecycle!Started, Lifecycle!Ended,
                      Lifecycle!Retried, Lifecycle!GivenUp, Lifecycle!Pending
      <3>2. CASE t \notin Ticket /\ t \in Ticket'
        <4>1. EntryStatus[t] = "UNKNOWN" /\ EntryStatus'[t] = "WAITING"
          BY <3>2, ArrowStep DEF EntryStatus
        <4> QED
          BY <4>1 DEF Lifecycle!Moves, Lifecycle!Enqueued
      <3>3. CASE t \notin Ticket /\ t \notin Ticket'
        BY <3>3 DEF EntryStatus
      <3> QED
        BY <3>1, <3>2, <3>3
    <2> QED
      BY <2>1, <2>2 DEF Lifecycle!Next
  <1> QED
    BY <1>1, <1>2, TypeCorrect, PTL
       DEF Spec, ActionsFollowLifecycle, Lifecycle!Spec

=============================================================================

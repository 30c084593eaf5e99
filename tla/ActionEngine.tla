---------------------------- MODULE ActionEngine ----------------------------
(***************************************************************************)
(* robot/action_engine.go: the queue of the actions of the nodes reached   *)
(* so far.  Every method holds e.mu from its first line to its last, so a  *)
(* method is one step; the callers are the simulator's goroutine (Enqueue, *)
(* DrivingAllowed), the 100 ms ticker (Advance) and the MQTT router (Retry,*)
(* SkipRetry, CancelAll).                                                  *)
(*                                                                         *)
(* The Go queue is a slice of pointers.  Here an entry is named by its     *)
(* place in the order of all the appends, its ticket: `queue' holds every  *)
(* entry ever appended and `live' the tickets still in the Go slice, so    *)
(* that slices.DeleteFunc only removes tickets from `live'.                *)
(***************************************************************************)
EXTENDS Integers, Sequences, FiniteSets

CONSTANTS
    Action,        \* the actions of the orders, by actionId
    ActionType,    \* actionType of each action
    BlockingType,  \* blockingType of each action
    Retriable,     \* retriable flag of each action
    NodeActions,   \* the action arrays a reached node may carry
    MaxEnqueued    \* bound: how many entries are ever appended

\* The keys of actionDurations: the types whose run ends by itself.
TimedTypes == {"pick", "drop", "beep"}

\* Parallel actions start whatever runs before them; every other value of
\* blockingType, the two of the standard and a missing one, starts alone.
Parallel == {"NONE", "SOFT"}

\* While one of these is active, nothing behind it in the queue starts.
Exclusive == {"SINGLE", "HARD"}

StopsDriving == {"SOFT", "HARD"}

ASSUME EngineAssumption ==
    /\ ActionType \in [Action -> STRING]
    /\ BlockingType \in [Action -> STRING]
    /\ Retriable \in [Action -> BOOLEAN]
    /\ NodeActions \subseteq Seq(Action)
    /\ MaxEnqueued \in Nat

VARIABLES
    queue,   \* every QueuedAction appended so far, in the order of appends
    live     \* the tickets of the entries still in e.queue

vars == <<queue, live>>

Status == {"WAITING", "RUNNING", "RETRIABLE", "FINISHED", "FAILED"}

\* isTerminal and isActive of the code; INITIALIZING and PAUSED, which
\* isActive also names, are never assigned.
Terminal == {"FINISHED", "FAILED"}
Active == {"RUNNING", "RETRIABLE"}

\* A QueuedAction; elapsed says that its fake duration has passed since
\* StartedAt, and Result is never written.
QueuedAction == [action : Action, status : Status, elapsed : BOOLEAN]

Ticket == DOMAIN queue

StatusOf(t) == queue[t].status
Blocking(t) == BlockingType[queue[t].action]
IsTimed(t) == ActionType[queue[t].action] \in TimedTypes

Waiting(a) == [action |-> a, status |-> "WAITING", elapsed |-> FALSE]

Init == queue = <<>> /\ live = {}

\* Mutant of Enqueue: one ticket too many.
EnqueueOneTooMany(actions) ==
    /\ queue' = queue \o [i \in DOMAIN actions |-> Waiting(actions[i])]
    /\ live' = live \union (Len(queue) + 1 .. Len(queue) + Len(actions) + 1)

\* Enqueue: a node's actions go to the back, in array order, all WAITING.
Enqueue(actions) ==
    /\ queue' = queue \o [i \in DOMAIN actions |-> Waiting(actions[i])]
    /\ live' = live \union (Len(queue) + 1 .. Len(queue) + Len(actions))

\* The clock: the fake duration of a running pick, drop or beep passes.
Elapse(t) ==
    /\ t \in live
    /\ StatusOf(t) = "RUNNING" /\ IsTimed(t) /\ ~queue[t].elapsed
    /\ queue' = [queue EXCEPT ![t].elapsed = TRUE]
    /\ UNCHANGED live

-----------------------------------------------------------------------------
(* Advance: one pass over the queue.                                       *)

\* What DeleteFunc leaves in the slice.
Kept == {t \in live : StatusOf(t) \notin Terminal}

Due(t) == StatusOf(t) = "RUNNING" /\ queue[t].elapsed

IsPick(t) == ActionType[queue[t].action] = "pick"

\* Mutant of AfterRun: a failed attempt is repeated without being asked for.
AfterRunRepeated(t, unlucky) ==
    IF ~Due(t) THEN StatusOf(t)
    ELSE IF t \notin unlucky THEN "FINISHED"
    ELSE IF Retriable[queue[t].action] THEN "WAITING" ELSE "FAILED"

\* completeIfDue, when the draws of rand.Float64 fail the picks in unlucky.
AfterRun(t, unlucky) ==
    IF ~Due(t) THEN StatusOf(t)
    ELSE IF t \notin unlucky THEN "FINISHED"
    ELSE IF Retriable[queue[t].action] THEN "RETRIABLE" ELSE "FAILED"

\* Mutant of EndsWalk: it passes an action that is already running.
EndsWalkAtWaiting(t, unlucky) ==
    AfterRun(t, unlucky) = "WAITING" /\ Blocking(t) \notin Parallel

\* Where the walk returns: at an active SINGLE or HARD action, and at a
\* waiting one that must start alone, whether or not it starts.
EndsWalk(t, unlucky) ==
    \/ AfterRun(t, unlucky) \in Active /\ Blocking(t) \in Exclusive
    \/ AfterRun(t, unlucky) = "WAITING" /\ Blocking(t) \notin Parallel

Reached(t, unlucky) == \A u \in Kept : u < t => ~EndsWalk(u, unlucky)

\* Mutants of Starts: it does not wait for what runs in parallel; it waits for
\* itself.
StartsBesideOthers(t, unlucky) == AfterRun(t, unlucky) = "WAITING"

StartsAfterItself(t, unlucky) ==
    /\ AfterRun(t, unlucky) = "WAITING"
    /\ Blocking(t) \notin Parallel =>
          \A u \in Kept : u <= t => AfterRun(u, unlucky) \in Terminal

\* An action that must start alone starts when nothing before it is active.
\* Everything waiting that the walk met before it could start in parallel
\* and is active by then, so all that was before it has just ended.
Starts(t, unlucky) ==
    /\ AfterRun(t, unlucky) = "WAITING"
    /\ Blocking(t) \notin Parallel =>
          \A u \in Kept : u < t => AfterRun(u, unlucky) \in Terminal

Advanced(t, unlucky) ==
    IF Starts(t, unlucky)
    THEN [queue[t] EXCEPT !.status = "RUNNING", !.elapsed = FALSE]
    ELSE [queue[t] EXCEPT !.status = AfterRun(t, unlucky)]

AdvanceWith(unlucky) ==
    /\ queue' = [t \in Ticket |-> IF t \in Kept /\ Reached(t, unlucky)
                                  THEN Advanced(t, unlucky)
                                  ELSE queue[t]]
    /\ live' = Kept

Advance == \E unlucky \in SUBSET {t \in Kept : Due(t) /\ IsPick(t)} :
              AdvanceWith(unlucky)

-----------------------------------------------------------------------------
(* The questions and the requests of the other goroutines.                 *)

DrivingAllowed ==
    \A t \in live : StatusOf(t) \in Terminal \/ Blocking(t) \notin StopsDriving

\* ActionStates: a snapshot of the slice, front to back.
ActionStates ==
    LET Nth(i) == CHOOSE t \in live : Cardinality({u \in live : u < t}) = i - 1
    IN  [i \in 1..Cardinality(live) |->
            [actionId |-> queue[Nth(i)].action, actionStatus |-> StatusOf(Nth(i))]]

\* The entry the loops of Retry and SkipRetry stop at: the first live entry
\* with that actionId, whatever its status.
FirstFor(a, t) ==
    /\ t \in live /\ queue[t].action = a
    /\ \A u \in live : u < t => queue[u].action # a

\* Mutant of CanRetry: any status will do.
CanRetryAnyStatus(a, t) == FirstFor(a, t)

\* Retry and SkipRetry answer an error, and change nothing, unless the
\* first entry with the actionId is RETRIABLE.
CanRetry(a, t) == FirstFor(a, t) /\ StatusOf(t) = "RETRIABLE"

Retry(a) == \E t \in live :
    /\ CanRetry(a, t)
    /\ queue' = [queue EXCEPT ![t].status = "RUNNING", ![t].elapsed = FALSE]
    /\ UNCHANGED live

SkipRetry(a) == \E t \in live :
    /\ CanRetry(a, t)
    /\ queue' = [queue EXCEPT ![t].status = "FAILED"]
    /\ UNCHANGED live

\* Mutant of CancelAll: what has just ended is failed, too.
CancelEverything ==
    /\ queue' = [t \in Ticket |-> IF t \in live
                                  THEN [queue[t] EXCEPT !.status = "FAILED"]
                                  ELSE queue[t]]
    /\ UNCHANGED live

\* CancelAll fails what is left in the slice and not terminal yet.
CancelAll ==
    /\ queue' = [t \in Ticket |-> IF t \in Kept
                                  THEN [queue[t] EXCEPT !.status = "FAILED"]
                                  ELSE queue[t]]
    /\ UNCHANGED live

-----------------------------------------------------------------------------

Next ==
    \/ \E actions \in NodeActions :
          Len(queue) + Len(actions) <= MaxEnqueued /\ Enqueue(actions)
    \/ \E t \in live : Elapse(t)
    \/ Advance
    \/ \E a \in Action : Retry(a) \/ SkipRetry(a)
    \/ CancelAll

Spec == Init /\ [][Next]_vars

\* The ticker of runActionEngine never stops and time passes.  Nothing makes
\* the fleet send a retry, a skipRetry or a cancelOrder.
Fairness ==
    /\ WF_vars(Advance)
    /\ \A t \in 1..MaxEnqueued : WF_vars(Elapse(t))

FairSpec == Spec /\ Fairness

-----------------------------------------------------------------------------
(* What the engine must guarantee.                                         *)

TypeOK ==
    /\ queue \in Seq(QueuedAction)
    /\ live \subseteq Ticket

\* No two actions run side by side when one of them must run alone: an active
\* SINGLE or HARD action (RETRIABLE counts, it may run again) is the only
\* active one in the queue, through retries, cancels and new enqueues.
Exclusion ==
    \A t, u \in live :
       StatusOf(t) \in Active /\ StatusOf(u) \in Active
          /\ Blocking(t) \in Exclusive => t = u

\* Why Advance may stop its walk at a gate without looking behind it.  Behind
\* an entry that ends the walk nothing is active, so no due action is missed;
\* and an action that must start alone, once active, has nothing unfinished
\* before it.
Holds(t) ==
    \/ StatusOf(t) \in Active /\ Blocking(t) \in Exclusive
    \/ StatusOf(t) = "WAITING" /\ Blocking(t) \notin Parallel

GateInv ==
    \A t, u \in live : t < u =>
       /\ Holds(t) => StatusOf(u) \notin Active
       /\ StatusOf(u) \in Active /\ Blocking(u) \notin Parallel
             => StatusOf(t) \in Terminal

\* Once a robot may drive, only the actions of another node stop it: no pass,
\* no retry and no clock of the engine takes the permission back.
OnlyEnqueueStopsDriving ==
    [][DrivingAllowed /\ ~DrivingAllowed' => Len(queue') > Len(queue)]_vars

\* Every entry follows the lifecycle of one action, from the append to the
\* end of the behaviour, dropped from the slice or not.
EntryStatus ==
    [t \in 1..MaxEnqueued |-> IF t \in Ticket THEN StatusOf(t) ELSE "UNKNOWN"]

Lifecycle == INSTANCE ActionLifecycle WITH
    Entry <- 1..MaxEnqueued, Unknown <- "UNKNOWN", status <- EntryStatus

ActionsFollowLifecycle == Lifecycle!Spec

\* Only the fleet or nobody ends these: a RETRIABLE action and a running one
\* of a type that actionDurations does not list.
Stuck == \E t \in live :
    \/ StatusOf(t) = "RETRIABLE"
    \/ StatusOf(t) = "RUNNING" /\ ~IsTimed(t)

IsWaiting(t) == t \in live /\ StatusOf(t) = "WAITING"

\* A waiting action is started, or given up, if from some time on nothing in
\* the queue is stuck: neither a gate nor a dropped entry hides it from
\* Advance for ever.
WaitingActionStarts ==
    <>[]~Stuck => \A t \in 1..MaxEnqueued : IsWaiting(t) ~> ~IsWaiting(t)

\* A robot held back by SOFT and HARD actions drives again, if from some time
\* on nothing in the queue is stuck.
DrivingResumes == <>[]~Stuck => (~DrivingAllowed ~> DrivingAllowed)

=============================================================================

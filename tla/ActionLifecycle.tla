-------------------------- MODULE ActionLifecycle --------------------------
(***************************************************************************)
(* What the robot promises for each action of its orders, whatever the     *)
(* other actions do: the status machine behind robot/action_engine.go seen *)
(* from the outside.  An action is unknown until it is enqueued, waits,    *)
(* runs, and ends FINISHED or FAILED; a failed attempt of a retriable      *)
(* action parks it in RETRIABLE until a retry or a skipRetry.  One pass of *)
(* the engine may move many actions, each along one arrow.                 *)
(***************************************************************************)

CONSTANTS
    Entry,     \* the entries the robot may ever enqueue
    Unknown    \* the status of an entry that was not enqueued yet

VARIABLE status

Pending == {"WAITING", "RUNNING", "RETRIABLE"}

Init == status = [e \in Entry |-> Unknown]

Enqueued(e) == status[e] = Unknown /\ status'[e] = "WAITING"

Started(e) == status[e] = "WAITING" /\ status'[e] = "RUNNING"

\* One attempt ends: in success, in failure, or in a failure worth a retry.
Ended(e) ==
    /\ status[e] = "RUNNING"
    /\ status'[e] \in {"FINISHED", "FAILED", "RETRIABLE"}

Retried(e) == status[e] = "RETRIABLE" /\ status'[e] = "RUNNING"

\* skipRetry of this action, or cancelOrder whatever the action was doing.
GivenUp(e) == status[e] \in Pending /\ status'[e] = "FAILED"

Moves(e) == Enqueued(e) \/ Started(e) \/ Ended(e) \/ Retried(e) \/ GivenUp(e)

Next ==
    /\ DOMAIN status' = Entry
    /\ \A e \in Entry : Moves(e) \/ status'[e] = status[e]

Spec == Init /\ [][Next]_status

=============================================================================

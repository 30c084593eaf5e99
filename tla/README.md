# Verification of the VDA 5050 robot and fleet programs

TLA+ specifications of the Go programs in this repository: a simulated mobile
robot that executes orders received over MQTT (`robot/`, `sim/`, `common/`), the
fleet control that releases them piece by piece (`fleet/`), and a viewer that
shows both and sends orders of its own (`viewer/`). TLC checks small instances;
TLAPS proves all their invariants, their action properties and their refinements
for every instance, or for every one that meets a stated hypothesis.

## 1. The system

| Part | Source | State | Operations | Runs in |
|---|---|---|---|---|
| Order validation | `common/validations/order.go` | none | `ValidateOrder` | the robot's MQTT router |
| Order state | `robot/order_state.go` | `OrderState`, under `robot.mu` | `AcceptOrder` (11 checks, `stitch`, `decisionPoint`) | the router; `onTick` and instant actions write it too |
| Action engine | `robot/action_engine.go` | `queue`, under `e.mu` | `Enqueue`, `Advance`, `DrivingAllowed`, `ActionStates`, `Retry`, `SkipRetry`, `CancelAll` | called by all goroutines |
| Simulator | `sim/kinematics.go` | `nodes`, `edges`, `edgeIdx`, `position`, under `s.mu`; channel `wake` | `NewSimulator`, `Extend`, `Run`, `step` | a goroutine of its own |
| Message handlers | `robot/main.go`, `robot/instant_actions.go` | `Robot`: the above and `instantActionStates` | `onOrder`, `onTick`, drive gate, `onInstantActions`, `runActionEngine` | router, simulator goroutine, ticker |
| State reports | `robot/state.go` | `dirty`, `lastPublish` | `MarkDirty`, `due`, `buildState` | a ticker goroutine |
| Dispatcher | `fleet/dispatcher.go`, `fleet/state.go` | route, `releasedIdx`, `nextUpdateId`, under `d.mu`; `pending`, `OnRequest` | `Start`, `ExtendIfNeeded`, `OnState` | the fleet's router and its `onConnect` |
| Experiments | `fleet/publish.go`, `fleet/main.go` | none | `onConnect`; fixed orders with a sleep between | goroutine per connection |
| Connection | `robot/main.go` | the retained topic at the broker | `onConnect`, last will, `shutdown` | connect goroutine, main |
| Viewer | `viewer/main.go`, `common/hub.go` | `conns`, `latest`, under `hub.mu`; `armed` | `Register`, `Unregister`, `Broadcast`; `orderHandler`, `DropGate` | one goroutine per socket and request, the router |
| Headers, topics | `common/header.go`, `common/topics.go` | counter per topic | `Next`, `Generate`, `TopicFor` | all |

How they interact. An order message goes through `ValidateOrder` and
`AcceptOrder`; the accepted chain of nodes and edges is handed to the simulator
(`NewSimulator` once, `Extend` from then on). The simulator drives it, asking a
gate before every step: the `paused` flag and `DrivingAllowed`. When it arrives
at a node, `onTick` records it in the order state and enqueues the node's
actions; a ticker advances them. Instant actions pause, retry, skip or cancel.
Whatever changes something calls `MarkDirty`, and a ticker turns the flag into a
State message, whose `newBaseRequest` makes the dispatcher release more road.
Orders and states travel with QoS 0. Whether the robot is there at all is on the
connection topic, retained and with QoS 1, to which the robot writes when it
connects and before it leaves, and the broker in its name when the session
breaks. The viewer passes every topic on to its browser tabs.

What makes it hard. Progress is kept twice, as `edgeIdx` in the simulator and as
`lastNodeSequenceId` in the order state, under two mutexes; the chain is
replaced while it is driven; the gate is asked before the step it permits; an
arrival is recorded and its actions enqueued under different mutexes; reports
are built while the engine and the simulator go on; messages are lost, repeated
and reordered. Dispatcher and robot count the updates each for itself, and only
a flag that rises brings them together. A connection breaks, a process is killed
or started again, and both ends learn of it at different times. `PROJECT.json` lists the hazards at their lines.

What makes each part correct:

- validation: exactly the well-formed orders pass;
- order state: the base is only appended to, only by newer updates, never after
  a cancel; what `stitch` joins fits; another order starts only at the end;
- engine: an action that must run alone does, nothing due is overlooked behind a
  gate, every action goes through its lifecycle, the queue does not get stuck;
- simulator: no wake-up is lost, and it rests only where released road ends;
- robot: it never leaves its base nor turns back, no step while a SOFT or HARD action is queued, the two progress
  counters agree, the actions of the road are enqueued once and in its order;
- reports: no change stays unreported, no report contradicts itself;
- dispatcher: the windows join without a gap, in order; a robot that asks for
  more base gets it, and nothing it is sent corrupts the order it has;
- connection and viewer: in the end every open tab shows whether the robot
  serves, and a tab is written to by one goroutine at a time.

## 2. Modules

| Module | Models | Extends / instantiates |
|---|---|---|
| `Orders` | validation and order state as operators | |
| `OrderRules` | abstract: what the standard asks of an order, without sorting | `Orders` |
| `OrderValidation` | a careless sender of orders, for the validator | `OrderRules` |
| `OrderState` | the order state and its writers, each one step | `Orders`, `BaseProtocol` |
| `BaseProtocol` | abstract: what fleet control may rely on about the base | |
| `ActionEngine` | the action queue, one action per method | `ActionLifecycle` |
| `ActionLifecycle` | abstract: the life of each action | |
| `Simulator` | `Run` against `Extend` | `Orders` |
| `Robot` | the robot's goroutines | `Orders`; `OrderState`, `ActionEngine`, `Simulator` |
| `Reporting` | `due` and `buildState` beside them | `Robot` |
| `Dispatcher` | a route handed out window by window, one action per method | `Orders` |
| `Fleet` | `onConnect`, the watcher and the experiments of fleet control, the viewer's order form, lossy topics, and a robot | `Dispatcher` |
| `Hub` | the hub and its tabs | |
| `Presence` | the robot's main, `onConnect` and `shutdown`, the broker, the viewer | `Hub` |
| `MC*` | instances for TLC | |
| `OrdersProofs` | lemmas about the operators of `Orders`, and the theorem about `ValidateOrder` | `OrderRules` |
| other `*Proofs` | theorems about the module they are named after; `FleetProofs` also those about `Dispatcher` and `OrderValidation`, the two senders of orders, `PresenceProofs` those about `Hub` | `OrdersProofs` or each other, where the module is composed; `RobotProofs` instantiates `ActionEngineProofs` and `OrderStateProofs` for its parts |

Operators named `Mutant of ...` in a comment are faulty variants of the
definition below them. They take part in no specification; `PROJECT.json` names
the property that each of them breaks.

### Correspondence with the code

*Places.* A `nodeId` is a place: nodes with the same id have the same position
and ellipses of different places do not overlap. A position is a place or
`Between`. `InsideDeviationEllipse` becomes equality of places. A leg takes at
most two ticks in the model, which is the bound on its length. `Theta`, speeds
and trajectories are left out, but an edge that `slices.DeleteFunc` has zeroed
has no speed, and the model does not move along it.

*Validation.* `sort.Slice` is modelled by `Rank`: the place of an element is the
number of those that belong before it. It is not stable, but equal sequenceIds
are refused in any order.

*Order state.* `robot.state` is one record. `Rejection` returns the error type
of the check that fails first, in the order of `AcceptOrder`. Nodes and edges
are sequences as they came, since the code never sorts them outside
`ValidateOrder` and `decisionPoint`.

*Action engine.* Entries are named by their ticket, the position in the order of
all appends. `queue` remembers every entry ever appended, `live` the tickets
still in the Go slice: that is the history the lifecycle needs. Time is the
flag `elapsed`. `Advance` is one step; its walk is described by which entries it
reaches and what becomes of each, not by a loop. `rand` is a set of unlucky
picks.

*Simulator.* `pc` has one value per point of `Run` at which another goroutine
can interfere. `edgeIdx` counts from 1. The look of `canDrive` and the start of
the receive are both in `Check`, because a send in between finds room in the
channel; the faulty variant without that room loses the token there.

*Robot.* A step is a stretch of one goroutine under one mutex. `router.at` is
the place of the MQTT router inside `onOrder` or `applyInstantAction`;
`RobotLocked` are the places where it keeps `robot.mu` while it calls the
simulator. A rejected message returns to idle; a message that does not validate
is not received, since it changes nothing. Changing a field and the following
`MarkDirty` are one step where nothing but setting the flag comes later, which
only makes the flag rise earlier than it may; where another mutex comes in
between (`CancelSignals`, `EnqueueActions`) the flag rises in a later step, as in
the code. An instant action message carries one action.

*Shared arrays.* `stitch` filters with `slices.DeleteFunc` and appends, both on
the array that the simulator still reads under its own mutex. `SharedArrays`
gives the simulator's slices the contents they have then: kept elements moved to
the front, the appended ones behind them if they fit (always when the result is
not longer; otherwise as the spare capacity allows, which is a free choice), the
rest zeroed. A torn read of a single element is not modelled. A zeroed node has the
coordinates of the origin; the models treat it as a place of its own, so a robot that
stands at the origin takes one more step to it, and to a place of the route there
from it.

*Reporting.* `buildState` holds `robot.mu` from `BeginState` to `Publish`, so
only the steps in `WithoutRobotLock` happen meanwhile. The heartbeat may elapse
at any time. `told` is the set of actions that were ever published as ended.

*Dispatcher.* `d.mu` makes every method one step. Indices count from 1, so that
the -1 before `Start` is 0. `published` is what `publish` was given last; it is a
history that the code does not keep, and belongs to no dispatcher in particular,
so that `WindowsJoin` also speaks about a fresh one.

*Fleet.* The robot is reduced to what decides the fate of an update: its order
state, with the same operators of `Orders` as in `Robot`, and the index and chain
of its simulator; a leg is one step, and what changed is reported before the next
one, since a leg takes seconds and the publisher looks every 100 ms. A report
carries the two fields that `OnState` reads. `onConnect` is taken apart at the
places where the router can run: before it has subscribed, before the switch, and
between the wiring of `OnRequest` and `Start`. A publish that fails, or that the
client library drops because it is not connected, is an order that gets lost.
Places of the demo order that lie on the demo route are places of both. The
viewer posts the three orders that its page offers.

*Hub.* A tab stands for one WebSocket connection. `hub.mu` is a variable with its
holder, because `Register` and `Broadcast` write while they hold it, and each write
is a step; a write to a connection that is gone may fail or not. There is one
topic, so a replay is one message.

*Presence.* External, and modelled from how the code uses it: the broker keeps the
retained message and a session with a will, which it publishes when the session
breaks or is taken over by a client of the same name; the client library repeats a
publish with QoS 1 until it is acknowledged, on the next connection too, fails a
pending subscription with its connection, and calls `onConnect` for every
connection. Each end notices a broken network by itself. `main`, `onConnect`,
`shutdown` and the viewer's handlers are the code's: `onConnect` publishes after
its two subscriptions, on a goroutine that neither `shutdown` nor another
`onConnect` waits for; `shutdown` waits for its token and disconnects. A signal
that comes before `signal.Notify` ends the process as `Kill` does.

## 3. What is checked

All runs pass except those marked *refutes*. Deadlock is checked where the
system never stops; the simulator alone stops when there is no road, an order
validation has nothing more to do after its slips, a crashed robot stops, and so
does a robot that has been shut down, with all tabs closed.

| Run | Properties | Instance |
|---|---|---|
| `engine` | `TypeOK`, `Exclusion`, `GateInv`, `OnlyEnqueueStopsDriving`, `ActionsFollowLifecycle`, `WaitingActionStarts`, `DrivingResumes` | six actions: every blocking type, a missing one, retriable or not, one that nothing ends; 3 entries |
| `order_validation` | `ValidatorExact` | every chain of up to 3 places and release pattern, with up to 2 slips |
| `order_state` | `TypeOK`, `ChainPaired`, `DecisionEndsBase`, `OnlyNewerUpdatesChange`, `KeepsBaseProtocol` | every window of a 4-place route with update ids 0..2, a detour, a second order |
| `simulator` | `TypeOK`, `NoLostWakeup`, `DrivesToTheEnd` | every piece and release of a 4-place route that returns to its start, any of them after any other |
| `robot` | `TypeOK`, `StepsOnlyWhenAllowed`, `ProgressAgrees`, `QueueFollowsTheRoad`, `ReachesDecisionPoint` | one order of 4 places with a horizon and four actions; 3 instant actions |
| `reporting` | `NoLostWakeup`, `NothingUnreported`, `StaysOnBase`, `NeverTurnsBack`, `ActsOnce`, `ReportsAreConsistent` | an order and its update, a pause or a cancel |
| `fleet` | `FTypeOK`, `ReleasedInOrder`, `NothingCorrupts`, `InStep`, `PanicsOnlyAfterReconnect`, `WindowsJoin`, `RequestIsAnswered` | every experiment, a route of 5 places in windows of 3; 2 disturbances, 2 messages per topic |
| `presence` | `PTypeOK`, `OneWriter`, `CaughtUp`, `StopIsAnnounced`, `GoneIsSeen`, `ServingIsSeen` | 2 starts of the robot, 1 disturbance, 2 tabs |
| `robot_skip` | *refutes* `ReachesNodeByNode` | an order and two updates, no cancel |
| `robot_crash` | *refutes* `RunsForever` | one order, a cancel |
| `robot_cancel_actions` | *refutes* `CancelFailsScheduled` | one order, a cancel |
| `fleet_lost_update` | *refutes* `ExtendsWheneverReported` | as `fleet`, with 1 disturbance |

What some properties say beyond their names:

- `DrivesToTheEnd` holds whatever `Extend` supplies, for `Extend` compares nothing:
  `stitch` shifts the chain under `edgeIdx` and `cancelOrder` cuts it. That the
  robot then misses no node and indexes nothing out of range is *not* true of the
  program (`robot_skip`, `robot_crash`), and no property of `Simulator` says it.
- `StaysOnBase`, `NeverTurnsBack` and `ActsOnce` are what the program keeps of it,
  with the chains that the robot really supplies: the node last recorded is never
  beyond the decision point, none follows that lies behind it, and no action is
  enqueued twice. All three are about the updates of one order
  (`OneJourney`, section 4) until it is cancelled, since an arrival recorded after
  the cancel falls back to -1.
- `NothingCorrupts` is the payoff the documents promise of the protocol
  (`vda5050_teaching_plan.md:547`): a robot that is sent lost, late, repeated,
  wrong and restarted orders still holds a gapless piece of one journey, and has
  not gone beyond its decision point.
- `InStep` relates the dispatcher's counters to the robot's, whenever no order is
  under way: the next update will be accepted.
- `RequestIsAnswered` has three exceptions, which are what the code cannot do: an
  order was lost (then see `ExtendsWheneverReported`), a report *without* a request
  was lost (the flag does not fall, and does not rise again), or the dispatcher
  started anew. A lost request is repeated by the heartbeat.
- `PanicsOnlyAfterReconnect` says when `ExtendIfNeeded` can meet a dispatcher that
  has not been started: it takes a robot that still has the route of an earlier
  connection, not just one that asks for a base.
- `GoneIsSeen` and `ServingIsSeen` are about what a tab shows from some time on, if
  the robot has gone, or serves, for good. `late` marks the case in which they
  fail, see below.

`ActionsFollowLifecycle` and `KeepsBaseProtocol` are refinements: the abstract
specification, with the mapping given in `ActionEngine` (the status of every
ticket) and `OrderState` (the released nodes from the last one on, as a function
from sequenceId to place), is a property of the detailed one. `FleetUsesDispatcher`,
`PresenceUsesHub`, `RobotUsesEngine` and `RobotImplementsOrderState` are refinements
too, which are proved: a composition takes the steps of its part, or leaves it alone.

### Bounds

`MaxEnqueued` bounds the appends to the queue. Three entries are what a gate
needs: one before, the gate itself and one behind. `MaxInstants` bounds instant
actions: three are a pause, its end and a retry. The routes have four places:
one behind the robot, the two ends of its leg, and a horizon, which is where
`stitch` draws its lines. In `reporting` the order has one action and `MaxEnqueued`
is 2, so that a second append of it would be seen. Update ids go to 2, so that an update may be older
than, equal to or newer than the current one. `MaxSlips` = 2 slips per order
reach, for instance, a swapped pair of sequenceIds.

In `Fleet`, five places and windows of three make a first window, an update that
is clamped at the end of the route, and an end. `MaxDisturbances` bounds
reconnections, restarts, lost messages and posted orders together: with two of
them a restart can meet a lost order, or a posted update its lost predecessor.
`MaxInFlight` = 2 messages per topic let one overtake the handling of another. In
`Presence`, two starts let a robot take over the session of its predecessor,
`MaxDisturbances` = 1 breaks the network or kills the robot or the viewer's
connection; two tabs are what `Broadcast` needs to have one behind the other.

### Fairness

`Fairness` of the engine: the ticker of `runActionEngine` never stops, so
`Advance` is weakly fair; time passes, so every `Elapse` is. Nobody has to send a
retry or a cancel. Therefore the liveness properties assume that from some time
on no action is *stuck*: RETRIABLE, or running and of a type that
`actionDurations` does not list. In `Robot` the router finishes what it has
begun, `Run` and the engine's goroutine go on. In `Simulator` alone the
caller of `Extend` sends its token, and the gate opens again and again (strong
fairness), which in the robot is `DrivingResumes` and the absence of a pause. In these modules no message has to arrive.

In `FairFSpec` what is not lost arrives and is handled, and the ticker of the
robot's publisher does not stop; nobody has to connect, to push a button, or to
drive. In `FairPSpec` client and broker notice a broken network in the end
(keep-alive), the client reconnects (the library's default), and everything that
has begun goes on; nobody has to start, stop or kill the robot, or to open or
close a tab. A write to a tab ends: a tab that stops reading without closing is
outside the model.

### What the code does and its documents do not say

`PROJECT.json` lists four findings with the runs that show them:

- After an update that comes when the robot has already passed a node, `stitch`
  drops what was driven over but `Extend` keeps `edgeIdx`. The robot skips nodes
  of the base (`robot_skip`). In other instances the same cause leaves it parked
  before released road, or makes it drive an unreleased edge when the update
  arrives between `canDrive` and `step`. So does the good update of the drop
  experiment when the robot has stopped at n_C, contrary to
  `vda5050_teaching_plan.md:547`; and the robot of the dispatch experiment does
  not come to the end of the route, which is why no property says that it does.
- `cancelOrder` between `canDrive` and `step` makes `step` index out of range,
  and the process ends (`robot_crash`). An update at the same moment does it too, if
  it leaves fewer edges than `edgeIdx` counts: the window a-d of a route, and then
  d-e while the robot drives to d. `RobotDrivesOn` proves that without either, on a
  route that visits no place twice, the robot drives on.
- `cancelOrder` between the two mutexes of `onTick` comes too early for the
  actions of the node just reached: they are enqueued afterwards and run
  (`robot_cancel_actions`). Also, an arrival recorded after the cancel finds its
  node gone and sets `lastNodeSequenceId` to -1, so that the kept nodes are
  reported as ahead again.
- An update that is lost is not sent again: the dispatcher has moved its window,
  and the request of the robot, which stays up, does not rise
  (`fleet_lost_update`).

Four more that the models contain and no run isolates:

- A place visited twice is looked up by its `nodeId` (`main.go:64`), and the
  progress falls back to the first visit; `vda5050_teaching_plan.md:337` has
  sequenceIds for this case.
- A robot cancelled before its decision point is never idle (`order_state.go:41`)
  and rejects every other order, although `vda5050_teaching_plan.md:653-655` lists
  cancelOrder among what clears an order.
- An `onConnect` that is still waiting for its subscriptions when the process is
  told to stop publishes ONLINE after the OFFLINE of `shutdown`
  (`main.go:219`), and the retained topic says so from then on, although
  `vda5050_teaching_plan.md:254-256` ends a shutdown with OFFLINE. `StopIsAnnounced`
  and `GoneIsSeen` except it by `late` and are violated without the exception.
- `badUpdate` leaves a gap between its sequenceIds 3 and 6, so `ValidateOrder`
  refuses it and the check of the decision point that `publish.go:73-74` speaks of
  is never reached; the robot logs it and publishes no rejection.

Other behaviour the models contain and no run isolates: the actions of an
order's first node and of its edges are never enqueued (`QueueFollowsTheRoad`
states what is); `ValidateOrder` accepts permuted arrays and the empty order
(`ValidatorExact` states it); an update may send its stitching node unreleased;
the report asked for by an update may be built before the simulator has it, and
say `driving: false` for a whole leg; `shutdown` waits for its token for as long as
there is no broker; an action that ended may leave the queue
before a report shows it; a report built between the two mutexes of `onTick`
misses the actions of the node just reached.

## 4. What is proved

Each proof of an invariant has the form `Init => Inv`, `Inv /\ [Next]_vars => Inv'`,
with one step per action. Where a property is not inductive, the text names what
has to be added and why.

| Module | Theorem | States | Assumes |
|---|---|---|---|
| `OrdersProofs` | `ValidatorIsExact` | what `ValidatorExact` says, of every single order | the order was decoded |
| `OrderStateProofs` | `TypeCorrect`, `OnlyNewerUpdates`, `CancelCloses` | `TypeOK`, `OnlyNewerUpdatesChange`, `CancelledIsClosed` | `MessageAssumption` |
| | `ChainIsPaired`, `DecisionIsEndOfBase`, `ImplementsBaseProtocol` | `ChainPaired`, `DecisionEndsBase`, `KeepsBaseProtocol` | and `MessagesWellFormed`; the last one `PlacesOnce` |
| `ActionEngineProofs` | `TypeCorrect`, `GateCorrect`, `ExclusionCorrect`, `OnlyEnqueueStops`, `ImplementsLifecycle` | `TypeOK`, `GateInv`, `Exclusion`, `OnlyEnqueueStopsDriving`, `ActionsFollowLifecycle` | `EngineAssumption` |
| `SimulatorProofs` | `TypeCorrect`, `NoWakeupIsLost` | `TypeOK`, `NoLostWakeup` | `ChainAssumption` |
| `RobotProofs` | `RobotTyped`, `RobotLosesNoWakeup`, `RobotStepsOnlyWhenAllowed` | `TypeOK`, `NoLostWakeup`, `StepsOnlyWhenAllowed` | `RobotAssumption` |
| | `RobotUsesEngine`, `RobotExclusion`, `RobotOnlyEnqueueStops`, `RobotImplementsLifecycle` | the robot implements `ActionEngine`, hence `Exclusion`, `OnlyEnqueueStopsDriving`, `ActionsFollowLifecycle` | `RobotAssumption` |
| | `RobotOnlyNewerUpdates`, `RobotCancelCloses` | `OnlyNewerUpdatesChange`, `CancelledIsClosed` | `RobotAssumption` |
| | `RobotProgressAgrees`, `RobotQueueFollowsTheRoad`, `RobotDrivesOn` | `ProgressAgrees`, `QueueFollowsTheRoad`, `RunsForever` | and `SingleTrip` |
| | `RobotImplementsOrderState`, `RobotKeepsBaseProtocol` | the robot implements `OrderState`, hence `KeepsBaseProtocol` | and `SingleTrip` |
| `ReportingProofs` | `NothingStaysUnreported`, `ReportingLosesNoWakeup` | `NothingUnreported`, `NoLostWakeup` | nothing |
| | `ReportingStepsOnlyWhenAllowed`, `ReportingUsesEngine` | `StepsOnlyWhenAllowed`, and `ActionEngine` beside the publisher | `RobotAssumption` |
| | `ReportsStayConsistent`, `JourneyStaysOnBase`, `JourneyGoesForward`, `ActionsEnqueuedOnce` | `ReportsAreConsistent`, `StaysOnBase` and `DecisionEndsBase`, `NeverTurnsBack`, `ActsOnce` | and `OneJourney` |
| `FleetProofs` | `ReleasesInOrder`, `UpdatesJoin`, and their copies for `FSpec` | `ReleasedInOrder`, `WindowsJoin` | `RouteAssumption` |
| | `FleetTyped`, `FleetCorruptsNothing`, `FleetInStep`, `FleetPanicsOnlyAfterReconnect` | `FTypeOK`, `NothingCorrupts`, `InStep`, `PanicsOnlyAfterReconnect` | and `FleetAssumption`; the last one `RouteLeavesHome` |
| | `SendersAreJudged` | `ValidatorExact` | `ValidationAssumption` |
| `PresenceProofs` | `PresenceTyped`, `OneWriterCorrect`, `CaughtUpCorrect`, `StopAnnounced` | `PTypeOK`, `OneWriter`, `CaughtUp`, `StopIsAnnounced` | `HubAssumption`, `PresenceAssumption` |

The assumptions on constants are types, or what the code of the other side
guarantees; the runs evaluate them. `RobotAssumption` and `MessageAssumption` are
what `json.Unmarshal` makes of a message and of the actions in it; that an order
has a node is added: `ValidateOrder` lets the empty order pass and `AcceptOrder` would index it,
which takes a message posted past the senders of the repository, none of which
builds one. Hypotheses of single theorems are operators of their own, and hold in
the instances of the runs.

### Sequences

What `stitch` and `cancelOrder` keep is a filtered sequence, and what
`ValidateOrder` walks is a sorted one. Both are functions defined by recursion or
by counting, and the facts about them are lemmas of `OrdersProofs`. Induction over
their length is carried out by `LeastNat` and `Induction`: if something fails for a
number, it fails for a least one, which the well-founded order of the naturals
gives without an operator parameter. `FilterSteps` is the recurrence,
`FilterElements` and `FilterInterval` say what is kept, and that of a chain an
interval is.

*Validation.* A rank is a place (`RankIsPlace`: an injection of a finite set into
itself is onto), so sorting is a permutation (`SortedPermutes`), and where the
sequenceIds are consecutive they *are* the ranks (`SortedCounts`). From the one
side, an order that passes the tests of neighbours counts on from its first
element, so its nodes are at the odd places and there is one more of them than
edges (`FitAlternates`, `NodesCount`); from the other side, sequenceIds that follow
the rules put every element at its place (`NumberedAlternates`). Given that, the
two remaining tests are the two remaining rules. `SendersAreJudged`, in `FleetProofs`,
carries this over to the sender of `OrderValidation`, for every route and any number of slips:
whatever it does, its message is still one that decodes. `ChainValid` says the same of an
order that is built as a chain with a released front: it passes if and only if it
starts with an even number.

### Order state

`OnlyNewerUpdates` and `CancelCloses` hold for every set of messages, well-formed
or not. They rest on the fields of the record and on `AcceptOrderCases`: a
rejection, a new order, or a newer update of an order that is not cancelled.

The other three need `ChainInv`: the nodes and edges are one chain, numbered on,
released up to one place, which is the decision point, and the last node is on it,
at or before that place. Nothing less is inductive. The join of `stitch` fits only
because the kept part ends at the decision point and the update begins there; that
the decision point `accept` computes from the update alone is the end of the
stitched base takes the order of the sequenceIds; and the lookup by `nodeId` leads
back into the chain (`FirstVisit`). That the visit it finds is the one ahead of the
robot is a matter of the refinement alone, hence `PlacesOnce` there. `MessagesWellFormed` excludes the update that sends its
stitching node unreleased, for which `DecisionEndsBase` fails; the fleet's
dispatcher never sends one, see `FleetCorruptsNothing`.

`ImplementsBaseProtocol` maps the released nodes from the last one on to the base of
the protocol: a new order is a new journey, an update an extension, an arrival an
advance, a cancel closes, and everything else stutters.

### Action engine

`GateInv` is the inductive invariant: `Exclusion` alone is not inductive, because a
pass that starts an action relies on nothing active hiding behind a gate.
`AdvanceGate` shows it for `Advance`, from what the walk reaches; the other actions
only make entries inactive, or append behind all others. `ExclusionCorrect` follows:
of two active entries one is first. `ImplementsLifecycle`: the initial statuses
match, and every step moves each entry along one arrow of `ActionLifecycle` or not
at all.

### Simulator and robot

`NoWakeupIsLost` needs nothing of the chains: whoever replaces one is between the
unlock and the send (`extending`), or has left a token, and `Run` parks only after a
look under the mutex. `RobotLosesNoWakeup` says it of the robot, where the callers
are the handlers and `stitch` writes into the shared arrays besides.

`RobotStepsOnlyWhenAllowed`: the gate lets the engine's mutex go before the step it
permits. The invariant adds that nothing takes the permission away meanwhile: an
enqueue is the only thing that could, and only the goroutine that drives enqueues.
`RobotTyped` is what the engine's facts need to hold here.

`RobotUsesEngine`: the engine is specified alone, with any caller; here its callers
are the handlers, `onTick` and two tickers, and each of their steps is one of the
engine's or leaves its queue alone. What has to be added is that `onTick` brings only
what a node carries (`ReachedKnown`); an arrival at a node without actions appends
nothing. So the theorems of `ActionEngineProofs` hold in the robot, and beside the
publisher.

`RobotOnlyNewerUpdates` and `RobotCancelCloses` hold for every set of messages: between
`ValidateOrder` and the acceptance under `robot.mu` lies a moment in which another
goroutine may pause, arrive or cancel, and `AcceptOrder` checks the order against what
they left behind (`StateSteps` lists what a step of the robot does to the order state).

`RobotProgressAgrees` and `RobotQueueFollowsTheRoad` are about one trip
(`SingleTrip`): one order, as long as one likes, repeated as often as one likes,
with any actions, pauses and retries, but without a place that is visited twice.
Updates and cancels are not excluded for convenience: `robot_skip` and the arrival
after a cancel refute both properties. `Trip` says where the four places that know
the progress are: `edgeIdx`, `position`, what is `reached` and not recorded, and
`lastNodeSequenceId`. `QueueInv` adds what is enqueued: the actions of the nodes
driven to, in their order (`CarriedBy` is a recurrence over the road,
`CarriedOneMore` one step of it), but for those of a node that is recorded and whose
`EnqueueActions` is to come.

On such a trip `TripInv` adds what `robot_crash` shows to fail otherwise: from the look
at the edge to the step and to the arrival, the edge is there and released
(`OnReleased`). So `step` never indexes out of range (`RobotDrivesOn`), and the robot
arrives only at the next node of its base (`ArrivesNext`), which is the guard of
`Arrive` in `OrderState`. With `Received`, that the first order meets a robot standing
where it was switched on, every step of the four goroutines is a step of `OrderState`
or a stutter (`RobotImplementsOrderState`), and with it one of `BaseProtocol`: the
three levels are joined. With updates the robot does not implement `OrderState`, because
it passes over nodes (`robot_skip`); what is left of the base then is the next section's
`JourneyStaysOnBase`.

### Reports

`NothingStaysUnreported`: the lemma `Quiet` says that a step which leaves the flag
down, and nobody to raise it, has changed nothing that is reported; `RInv` adds the
same promise for the report under construction, since a report is compared when it
is published and not when it is gathered.

`ReportsStayConsistent` is about one journey (`OneJourney`): the messages of one
order and of any number of updates, repeated, late and reordered at will, pauses,
retries and a `cancelOrder`, but no place that is visited twice, and no action that
belongs to two steps. With an order id used again, or an action id in two places, a
report does contradict itself, and the code checks neither. Its invariant,
`JourneyInv`, has four parts, for as long as the order is not cancelled:

- `Road` relates the simulator, which counts in indices of an array that `stitch`
  shortens, to the order state, which counts in `sequenceId`s. `IndexStep`, what
  `edgeIdx` stands for, may run ahead of the last node (an update makes the simulator
  skip nodes, `robot_skip`) but is never behind it. The hard step is an update
  between Run's look at the road and its step: `SeesRoad` says that the robot still
  cannot arrive beyond its decision point, hence that what it arrives at is a node
  of the chain, released and ahead of the last one (`ReachesNext`).
- `Settled` says that what is in the queue comes from nodes reached earlier, each
  action once, and that what was told to have ended has.
- `Drafted` says that no node of which `buildState` announced actions is reached
  before it has published, since it holds `robot.mu`. The actions of a node that was
  just recorded are in neither place for a moment; they are never in both.
- `Consistent` is the property, of the last report.

`JourneyInv` says more than that reports agree. `JourneyStaysOnBase`: the decision point
is the last released node of the chain, and the robot never records an arrival beyond
it, even when an update lets `Run` step onto an edge that it no longer sees released.
`JourneyGoesForward`: it skips nodes but never turns back. `ActionsEnqueuedOnce`: the
nodes that an update repeats, to be stitched, do not have their actions run again.

### Fleet

`DInv` says that the route is released exactly up to `releasedIdx`, otherwise as it
was given, and that the last window published ended there. `FleetUsesDispatcher`
carries its theorems into the fleet process; neither depends on what is lost or
restarted.

`FleetCorruptsNothing` is a statement about everything that is under way: each order
in flight is a window of the route, or one of the three demo orders, and the robot's
chain is a piece of the same journey that ends where an order ended (`FleetInv`). The
windows of a restarted dispatcher cannot be told from those of its predecessor, and
need not be: they are windows of the same route, and stitching one of them at the
decision point yields such a piece again.

`FleetInStep` adds `StepInv`: on the first connection and with nothing of the route
lost, the orders of the route under way are consecutive windows that lead from the
robot's decision point to the dispatcher's index, and the update ids count along with
them. The hard part is that none of them is ever refused: not by `ValidateOrder`
(`ChainValid`: every window is a chain, and the windows count on from an even
number, since the first of them was accepted), not by one of the eleven checks.
`FleetPanicsOnlyAfterReconnect` adds `RouteInv`: before the dispatcher started, no
report can name its route.

### Connection and viewer

`OneWriterCorrect` and `CaughtUpCorrect` hold for any number of tabs and messages, by
way of `PresenceUsesHub`; `HInv` ties the holder of `hub.mu` to who is writing.
`StopAnnounced` relates the sequence on the wire, the publishes without
acknowledgement and the retained topic (`Announced`): after an undisturbed stop the
last message of the three is OFFLINE. `PresenceTyped` is not routine either: the
number of goroutines about to publish is bounded above by the connections that
could have called for them (`Counted`).

### What stays with TLC

Liveness and ENABLED are out of this prover's reach, so the seven liveness properties
(`WaitingActionStarts`, `DrivingResumes`, `DrivesToTheEnd`, `ReachesDecisionPoint`,
`RequestIsAnswered`, `GoneIsSeen`, `ServingIsSeen`) are only model-checked. Every
invariant and action property that a passing run checks has a theorem. What `SingleTrip`
and `OneJourney` exclude is not proved: journeys of several orders, and places that
are visited twice; the lookups by `nodeId` go wrong there, see above. `order_validation`
keeps its run beside the theorem because it shows that the orders with slips reach
every test of the validator.

## 5. Not modelled, and the plan

Left out for good: the page of the viewer, which keeps no state the programs
depend on; the JSON, MQTT and WebSocket libraries, but for what is listed as
external; geometry; log output; the names of topics and the counters of headers,
which are written and read by none of the programs; the visualization messages,
which nothing depends on; `instantActionHandler`, which forwards what `Robot` takes
from `InstantTypes`. Errors of a publish are only logged by the code and are lost
messages here. Two `onConnect` of the fleet at once, which it takes a second
broken connection within the first subscription to have, are not modelled.
`releaseWindow` is 3; with less, `newBaseRequest`, which asks for two released
nodes ahead, would never fall, and `Start` would be the end of the route.

Next, in this order: the time that `actionDurations` and the tickers leave between
two reports, with a bounded clock, for the outcomes that a report may miss; `latest`
of the hub by topic.

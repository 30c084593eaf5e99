------------------------------ MODULE Presence ------------------------------
(***************************************************************************)
(* Whether a robot is there: the connection topic, from the robot process  *)
(* (robot/main.go: main, onConnect, shutdown) over the broker to the tabs  *)
(* of the viewer.  The topic is retained and has QoS 1; what the broker and *)
(* the client library do with it is external:                              *)
(*                                                                         *)
(*   - a publish is repeated on the next connection until acknowledged,    *)
(*     and one that is made without a connection waits for it;             *)
(*   - a subscription fails with the connection it was made on;            *)
(*   - a session that ends otherwise than with a DISCONNECT, or is taken   *)
(*     over by a client of the same name, leaves the will;                 *)
(*   - client and broker notice a failed network each in its own time.     *)
(***************************************************************************)
EXTENDS Hub, Integers, Sequences

CONSTANTS
    MaxStarts,        \* bound: how often the robot process is started
    MaxDisturbances   \* bound: networks that fail, kills and reconnections of
                      \* the viewer, all together

ASSUME PresenceAssumption == {"ONLINE", "OFFLINE", "CONNECTION_BROKEN"} \subseteq Messages

VARIABLES
    main,          \* where main is
    linkUp,        \* the client believes to be connected
    subscribing,   \* the onConnect of this connection waits for SUBACK
    publishing,    \* how many onConnect are about to publish
    unacked,       \* the publishes without PUBACK
    wire,          \* what the robot sent and the broker has not read
    tcp,           \* whether more can get through
    session,       \* the broker has a session, and its will
    retained,      \* the retained message
    inbox,         \* on its way to the viewer
    starts, disturbed,
    late           \* ONLINE was published after OFFLINE

robotVars == <<main, linkUp, subscribing, publishing, unacked>>
linkVars == <<wire, tcp, session, retained, inbox>>
historyVars == <<starts, disturbed, late>>
vars == <<hubVars, robotVars, linkVars, historyVars>>

PInit ==
    /\ HInit
    /\ main = "off" /\ linkUp = FALSE
    /\ subscribing = FALSE /\ publishing = 0 /\ unacked = <<>>
    /\ wire = <<>> /\ tcp = FALSE /\ session = FALSE
    /\ retained = Nothing /\ inbox = <<>>
    /\ starts = 0 /\ disturbed = 0 /\ late = FALSE

Disturb == disturbed < MaxDisturbances /\ disturbed' = disturbed + 1

-----------------------------------------------------------------------------
(* The broker.                                                             *)

\* It keeps the message and passes it on.
Keep(msg) == retained' = msg /\ inbox' = Append(inbox, msg)

\* A client connects under the name "robot", with a will.  If there was one,
\* its session is taken over.
TakeSession ==
    /\ session' = TRUE /\ tcp' = TRUE
    /\ IF session THEN Keep("CONNECTION_BROKEN") ELSE UNCHANGED <<retained, inbox>>

BrokerReads ==
    /\ wire # <<>> /\ wire' = Tail(wire)
    /\ IF Head(wire) = "DISCONNECT"
       THEN session' = FALSE /\ UNCHANGED <<retained, inbox>>
       ELSE UNCHANGED session /\ Keep(Head(wire))
    /\ UNCHANGED <<hubVars, robotVars, tcp, historyVars>>

BrokerNotices ==
    /\ session /\ ~tcp /\ wire = <<>>
    /\ session' = FALSE
    /\ Keep("CONNECTION_BROKEN")
    /\ UNCHANGED <<hubVars, robotVars, wire, tcp, historyVars>>

NetworkFails ==
    /\ tcp /\ main # "off" /\ Disturb
    /\ tcp' = FALSE /\ wire' = <<>>
    /\ UNCHANGED <<hubVars, robotVars, session, retained, inbox, starts, late>>

-----------------------------------------------------------------------------
(* The robot process.                                                      *)

\* main, until it waits for a signal.
Start ==
    /\ main = "off" /\ starts < MaxStarts /\ starts' = starts + 1
    /\ main' = "serving" /\ linkUp' = TRUE
    /\ subscribing' = TRUE /\ publishing' = 0 /\ unacked' = <<>>
    /\ wire' = <<>> /\ TakeSession
    /\ late' = FALSE
    /\ UNCHANGED <<hubVars, disturbed>>

\* Mutant of Reconnect: onConnect is called for the first connection only.
ReconnectSilently ==
    /\ main # "off" /\ ~linkUp
    /\ linkUp' = TRUE /\ UNCHANGED subscribing
    /\ wire' = unacked /\ TakeSession
    /\ UNCHANGED <<hubVars, main, publishing, unacked, historyVars>>

\* The library reconnects, sends again what was not acknowledged and calls
\* onConnect once more.
Reconnect ==
    /\ main # "off" /\ ~linkUp
    /\ linkUp' = TRUE /\ subscribing' = TRUE
    /\ wire' = unacked /\ TakeSession
    /\ UNCHANGED <<hubVars, main, publishing, unacked, historyVars>>

\* An onConnect that waits for a SUBACK logs the error and returns.
ClientNotices ==
    /\ linkUp /\ ~tcp
    /\ linkUp' = FALSE /\ subscribing' = FALSE
    /\ UNCHANGED <<hubVars, main, publishing, unacked, linkVars, historyVars>>

Publish(msg) ==
    /\ unacked' = Append(unacked, msg)
    /\ wire' = IF linkUp /\ tcp THEN Append(wire, msg) ELSE wire
    /\ UNCHANGED <<tcp, session, retained, inbox>>

\* onConnect up to its second SUBACK.
Subscribed ==
    /\ subscribing /\ tcp
    /\ subscribing' = FALSE /\ publishing' = publishing + 1
    /\ UNCHANGED <<hubVars, main, linkUp, unacked, linkVars, historyVars>>

PublishOnline ==
    /\ publishing > 0 /\ publishing' = publishing - 1
    /\ Publish("ONLINE")
    /\ late' = (late \/ main = "stopping")
    /\ UNCHANGED <<hubVars, main, linkUp, subscribing, starts, disturbed>>

\* PUBACK: of what is not acknowledged, the broker has read all that is not
\* on the wire.
Acknowledged ==
    /\ linkUp /\ tcp /\ Len(unacked) > Len(wire)
    /\ unacked' = Tail(unacked)
    /\ UNCHANGED <<hubVars, main, linkUp, subscribing, publishing, linkVars,
                   historyVars>>

\* Mutant of Stop: shutdown disconnects first.
StopAtOnce ==
    /\ main = "serving" /\ main' = "stopping"
    /\ UNCHANGED <<hubVars, linkUp, subscribing, publishing, unacked, linkVars,
                   historyVars>>

\* SIGTERM: shutdown publishes OFFLINE and waits for the token.
Stop ==
    /\ main = "serving" /\ main' = "stopping"
    /\ Publish("OFFLINE")
    /\ UNCHANGED <<hubVars, linkUp, subscribing, publishing, historyVars>>

NoProcess ==
    /\ main' = "off" /\ linkUp' = FALSE
    /\ subscribing' = FALSE /\ publishing' = 0 /\ unacked' = <<>>
    /\ tcp' = FALSE

\* Disconnect, and the end of main.
Leave ==
    /\ main = "stopping" /\ ~\E i \in DOMAIN unacked : unacked[i] = "OFFLINE"
    /\ NoProcess
    /\ wire' = IF linkUp /\ tcp THEN Append(wire, "DISCONNECT") ELSE wire
    /\ UNCHANGED <<hubVars, session, retained, inbox, historyVars>>

\* kill -9.  What was written still gets through.
Kill ==
    /\ main # "off" /\ Disturb
    /\ NoProcess
    /\ UNCHANGED <<hubVars, wire, session, retained, inbox, starts, late>>

-----------------------------------------------------------------------------
(* The viewer.                                                             *)

\* Mutant of OnMessage: what comes while the hub is busy is dropped.
OnMessageUnlessBusy ==
    /\ inbox # <<>> /\ inbox' = Tail(inbox)
    /\ \/ Broadcast(Head(inbox))
       \/ mu # "free" /\ UNCHANGED hubVars
    /\ UNCHANGED <<robotVars, wire, tcp, session, retained, historyVars>>

\* onMessage.
OnMessage ==
    /\ inbox # <<>> /\ inbox' = Tail(inbox)
    /\ Broadcast(Head(inbox))
    /\ UNCHANGED <<robotVars, wire, tcp, session, retained, historyVars>>

\* The connection of the viewer was lost, and with it what was under way;
\* onConnect subscribes again and gets what is retained.
ViewerReconnects ==
    /\ Disturb
    /\ inbox' = IF retained = Nothing THEN <<>> ELSE <<retained>>
    /\ UNCHANGED <<hubVars, robotVars, wire, tcp, session, retained, starts, late>>

Tab(t) ==
    /\ HubStep(t) \/ Register(t) \/ CloseTab(t)
    /\ UNCHANGED <<robotVars, linkVars, historyVars>>

-----------------------------------------------------------------------------

Connection == \/ BrokerReads \/ BrokerNotices \/ Reconnect \/ ClientNotices
              \/ Subscribed \/ PublishOnline \/ Acknowledged \/ Leave

PNext ==
    \/ Connection \/ NetworkFails
    \/ Start \/ Stop \/ Kill
    \/ OnMessage \/ ViewerReconnects
    \/ \E t \in Tabs : Tab(t)

PSpec == PInit /\ [][PNext]_vars

\* Everything goes on by itself, except that nobody has to start or to end the
\* robot, or to open or close a tab.
FairPSpec ==
    /\ PSpec
    /\ WF_vars(BrokerReads) /\ WF_vars(BrokerNotices) /\ WF_vars(Reconnect)
    /\ WF_vars(ClientNotices) /\ WF_vars(Subscribed) /\ WF_vars(PublishOnline)
    /\ WF_vars(Acknowledged) /\ WF_vars(Leave) /\ WF_vars(OnMessage)
    /\ \A t \in Tabs : WF_vars(HubStep(t) /\ UNCHANGED <<robotVars, linkVars, historyVars>>)

-----------------------------------------------------------------------------

PTypeOK ==
    /\ HTypeOK
    /\ main \in {"off", "serving", "stopping"}
    /\ linkUp \in BOOLEAN /\ tcp \in BOOLEAN /\ session \in BOOLEAN
    /\ subscribing => linkUp
    /\ publishing \in 0..starts + disturbed
    /\ unacked \in Seq({"ONLINE", "OFFLINE"})
    /\ wire \in Seq({"ONLINE", "OFFLINE", "DISCONNECT"})
    /\ retained \in Messages \cup {Nothing} /\ inbox \in Seq(Messages)
    /\ late \in BOOLEAN

\* A stop that nothing disturbs ends with OFFLINE, also for who looks later
\* (topics.go:47).  Not so if an onConnect was under way: its ONLINE comes
\* after OFFLINE, and stays.
StopIsAnnounced ==
    /\ starts > 0 /\ main = "off" /\ ~session
    /\ disturbed = 0 /\ ~late
    => retained = "OFFLINE"

Shows(states) == \A t \in Tabs : tabs[t] = "open" => shown[t] \in states

\* vda5050_teaching_plan.md:291: who watches sees the robot go, however it went
\* and whatever happened to the connections on the way.
GoneIsSeen ==
    <>[](main = "off" /\ starts > 0 /\ ~late)
        => <>[]Shows({"OFFLINE", "CONNECTION_BROKEN"})

\* And a robot that serves is seen ONLINE, however often it was broken off, and
\* although the broker may learn of that after the robot is back.
ServingIsSeen == <>[](main = "serving") => <>[]Shows({"ONLINE"})

=============================================================================

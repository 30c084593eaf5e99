-------------------------------- MODULE Hub --------------------------------
(***************************************************************************)
(* common/hub.go and wsHandler of viewer/main.go: what arrives on one topic *)
(* is passed on to the browser tabs.  hub.mu is held while Register replays *)
(* and while Broadcast writes, tab by tab; the handlers of the tabs and the *)
(* router of the MQTT client run on goroutines of their own.  A tab stands  *)
(* for its connection; one that is opened again has another:               *)
(*                                                                         *)
(*   none      not connected yet                                           *)
(*   replay    registered, Register has still to replay                    *)
(*   open      wsHandler waits in ReadMessage                              *)
(*   closing   the browser has gone and wsHandler does not know yet        *)
(*   ended     wsHandler has returned                                      *)
(***************************************************************************)
EXTENDS FiniteSets

CONSTANTS
    Tabs,       \* the browser tabs
    Messages,   \* what may arrive on the topic
    Nothing     \* no message yet

ASSUME HubAssumption == /\ "free" \notin Tabs /\ "router" \notin Tabs
                        /\ Nothing \notin Messages

VARIABLES
    latest,      \* hub.latest of the topic
    conns,       \* hub.conns
    mu,          \* who holds hub.mu
    remaining,   \* the tabs Broadcast has still to write to
    tabs,        \* where the connection of each tab is
    shown        \* what each tab was sent last

hubVars == <<latest, conns, mu, remaining, tabs, shown>>

HInit ==
    /\ latest = Nothing /\ conns = {}
    /\ mu = "free" /\ remaining = {}
    /\ tabs = [t \in Tabs |-> "none"] /\ shown = [t \in Tabs |-> Nothing]

\* Broadcast takes the mutex; without connections it is done.
Broadcast(msg) ==
    /\ mu = "free"
    /\ latest' = msg
    /\ remaining' = conns
    /\ mu' = IF conns = {} THEN "free" ELSE "router"
    /\ UNCHANGED <<conns, tabs, shown>>

Written(t) ==
    /\ mu = "router" /\ t \in remaining
    /\ remaining' = remaining \ {t}
    /\ mu' = IF remaining' = {} THEN "free" ELSE mu

\* Mutant of WriteFails: the first error ends the broadcast.
WriteFailsForAll(t) ==
    /\ mu = "router" /\ t \in remaining /\ tabs[t] = "closing"
    /\ conns' = conns \ {t}
    /\ remaining' = {} /\ mu' = "free"
    /\ UNCHANGED <<latest, tabs, shown>>

\* WriteMessage of Broadcast.  The browser's end may be gone without an error.
WriteTo(t) ==
    /\ Written(t)
    /\ shown' = [shown EXCEPT ![t] = latest]
    /\ UNCHANGED <<latest, conns, tabs>>

\* The connection is dead, and leaves conns.
WriteFails(t) ==
    /\ Written(t) /\ tabs[t] = "closing"
    /\ conns' = conns \ {t}
    /\ UNCHANGED <<latest, tabs, shown>>

\* Mutant of Register: the mutex is given back before the replay.
RegisterOnly(t) ==
    /\ tabs[t] = "none" /\ mu = "free"
    /\ conns' = conns \cup {t}
    /\ tabs' = [tabs EXCEPT ![t] = "replay"]
    /\ UNCHANGED <<latest, mu, remaining, shown>>

\* wsHandler: a browser connects, and Register appends it.
Register(t) ==
    /\ tabs[t] = "none" /\ mu = "free"
    /\ mu' = t
    /\ conns' = conns \cup {t}
    /\ tabs' = [tabs EXCEPT ![t] = "replay"]
    /\ UNCHANGED <<latest, remaining, shown>>

\* The replay of Register, and the end of it.
Replay(t) ==
    /\ tabs[t] = "replay"
    /\ mu' = IF mu = t THEN "free" ELSE mu
    /\ tabs' = [tabs EXCEPT ![t] = "open"]
    /\ shown' = [shown EXCEPT ![t] = latest]
    /\ UNCHANGED <<latest, conns, remaining>>

CloseTab(t) ==
    /\ tabs[t] = "open" /\ tabs' = [tabs EXCEPT ![t] = "closing"]
    /\ UNCHANGED <<latest, conns, mu, remaining, shown>>

\* Mutant of Unregister: the mutex is not taken.
UnregisterAtOnce(t) ==
    /\ tabs[t] = "closing"
    /\ conns' = conns \ {t}
    /\ tabs' = [tabs EXCEPT ![t] = "ended"]
    /\ UNCHANGED <<latest, mu, remaining, shown>>

\* ReadMessage fails; the deferred Unregister and Close.
Unregister(t) ==
    /\ tabs[t] = "closing" /\ mu = "free"
    /\ conns' = conns \ {t}
    /\ tabs' = [tabs EXCEPT ![t] = "ended"]
    /\ UNCHANGED <<latest, mu, remaining, shown>>

\* What the process does of itself once a message or a browser is there.
HubStep(t) == WriteTo(t) \/ WriteFails(t) \/ Replay(t) \/ Unregister(t)

HNext ==
    \/ \E msg \in Messages : Broadcast(msg)
    \/ \E t \in Tabs : HubStep(t) \/ Register(t) \/ CloseTab(t)

HSpec == HInit /\ [][HNext]_hubVars

-----------------------------------------------------------------------------

HTypeOK ==
    /\ latest \in Messages \cup {Nothing}
    /\ shown \in [Tabs -> Messages \cup {Nothing}]
    /\ tabs \in [Tabs -> {"none", "replay", "open", "closing", "ended"}]
    /\ conns \subseteq Tabs /\ remaining \subseteq conns
    /\ mu \in Tabs \cup {"free", "router"}

\* A websocket connection takes one writer at a time, and panics at a second:
\* what Broadcast has still to write to is not being replayed to.
OneWriter == \A t \in Tabs : ~(tabs[t] = "replay" /\ t \in remaining)

\* hub.go:12: a tab starts caught up, and stays so.  What it was sent last is
\* behind only while a broadcast is under way that has still to reach it.
CaughtUp ==
    \A t \in Tabs : tabs[t] = "open" /\ t \notin remaining => shown[t] = latest

=============================================================================

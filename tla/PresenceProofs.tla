--------------------------- MODULE PresenceProofs ---------------------------
(***************************************************************************)
(* Theorems about Hub, for every set of tabs and messages, and about its   *)
(* use in Presence.                                                        *)
(***************************************************************************)
EXTENDS Presence, SequenceTheorems, TLAPS

\* The inductive invariant: who replays holds the mutex, as does the router
\* while it has to write, and who is open or about to be is in conns.
HInv ==
    /\ HTypeOK /\ CaughtUp
    /\ \A t \in Tabs : tabs[t] = "replay" => mu = t
    /\ remaining # {} => mu = "router"
    /\ \A t \in Tabs : tabs[t] \in {"replay", "open"} => t \in conns

LEMMA HInitInv == HInit => HInv
  BY DEF HInit, HInv, HTypeOK, CaughtUp

LEMMA BroadcastInv ==
    ASSUME HInv, NEW msg \in Messages, Broadcast(msg) PROVE HInv'
  <1>1. mu = "free" /\ \A t \in Tabs : tabs[t] # "replay"
    BY HubAssumption DEF HInv, Broadcast, HubAssumption
  <1>2. mu' \in {"free", "router"} /\ (remaining' # {} => mu' = "router")
    BY DEF Broadcast
  <1> QED
    BY <1>1, <1>2 DEF HInv, HTypeOK, CaughtUp, Broadcast

LEMMA WriteToInv ==
    ASSUME HInv, NEW t \in Tabs, WriteTo(t) PROVE HInv'
  <1>1. /\ mu = "router" /\ remaining' = remaining \ {t}
        /\ mu' = IF remaining' = {} THEN "free" ELSE "router"
        /\ shown' = [shown EXCEPT ![t] = latest]
        /\ UNCHANGED <<latest, conns, tabs>>
    BY DEF WriteTo, Written
  <1>2. \A u \in Tabs : tabs[u] # "replay"
    BY <1>1, HubAssumption DEF HInv, HubAssumption
  <1> QED
    BY <1>1, <1>2 DEF HInv, HTypeOK, CaughtUp

LEMMA WriteFailsInv ==
    ASSUME HInv, NEW t \in Tabs, WriteFails(t) PROVE HInv'
  <1>1. /\ mu = "router" /\ remaining' = remaining \ {t}
        /\ mu' = IF remaining' = {} THEN "free" ELSE "router"
        /\ tabs[t] = "closing" /\ conns' = conns \ {t}
        /\ UNCHANGED <<latest, tabs, shown>>
    BY DEF WriteFails, Written
  <1>2. \A u \in Tabs : tabs[u] # "replay"
    BY <1>1, HubAssumption DEF HInv, HubAssumption
  <1> QED
    BY <1>1, <1>2 DEF HInv, HTypeOK, CaughtUp

LEMMA RegisterInv ==
    ASSUME HInv, NEW t \in Tabs, Register(t) PROVE HInv'
  <1>1. mu = "free" /\ remaining = {} /\ \A u \in Tabs : tabs[u] # "replay"
    BY HubAssumption DEF HInv, Register, HubAssumption
  <1> QED
    BY <1>1 DEF HInv, HTypeOK, CaughtUp, Register

LEMMA ReplayInv ==
    ASSUME HInv, NEW t \in Tabs, Replay(t) PROVE HInv'
  <1>1. mu = t /\ remaining = {} /\ mu' = "free"
    BY HubAssumption DEF HInv, Replay, HubAssumption
  <1>2. \A u \in Tabs : u # t => tabs[u] # "replay"
    BY <1>1 DEF HInv
  <1> QED
    BY <1>1, <1>2 DEF HInv, HTypeOK, CaughtUp, Replay

LEMMA CloseTabInv ==
    ASSUME HInv, NEW t \in Tabs, CloseTab(t) PROVE HInv'
  BY DEF HInv, HTypeOK, CaughtUp, CloseTab

LEMMA UnregisterInv ==
    ASSUME HInv, NEW t \in Tabs, Unregister(t) PROVE HInv'
  <1>1. mu = "free" /\ remaining = {}
    BY DEF HInv, Unregister
  <1> QED
    BY <1>1 DEF HInv, HTypeOK, CaughtUp, Unregister

LEMMA HStepInv == HInv /\ [HNext]_hubVars => HInv'
  <1> SUFFICES ASSUME HInv, [HNext]_hubVars PROVE HInv'
    OBVIOUS
  <1>1. ASSUME NEW msg \in Messages, Broadcast(msg) PROVE HInv'
    BY <1>1, BroadcastInv
  <1>2. ASSUME NEW t \in Tabs, HubStep(t) PROVE HInv'
    BY <1>2, WriteToInv, WriteFailsInv, ReplayInv, UnregisterInv DEF HubStep
  <1>3. ASSUME NEW t \in Tabs, Register(t) \/ CloseTab(t) PROVE HInv'
    BY <1>3, RegisterInv, CloseTabInv
  <1>4. CASE UNCHANGED hubVars
    BY <1>4 DEF hubVars, HInv, HTypeOK, CaughtUp
  <1> QED
    BY <1>1, <1>2, <1>3, <1>4 DEF HNext

LEMMA HInvCorrect == HSpec => []HInv
  BY HInitInv, HStepInv, PTL DEF HSpec

\* Who replays holds the mutex, so the router has nothing to write.
LEMMA InvOneWriter == HInv => OneWriter
  <1> SUFFICES ASSUME HInv, NEW t \in Tabs, tabs[t] = "replay"
               PROVE  t \notin remaining
    BY DEF OneWriter
  <1>1. mu = t /\ mu # "router"
    BY HubAssumption DEF HInv, HubAssumption
  <1> QED
    BY <1>1 DEF HInv

-----------------------------------------------------------------------------

\* What is on its way consists of messages.
Messaged ==
    /\ retained \in Messages \cup {Nothing} /\ inbox \in Seq(Messages)
    /\ unacked \in Seq({"ONLINE", "OFFLINE"})
    /\ wire \in Seq({"ONLINE", "OFFLINE", "DISCONNECT"})

LEMMA MessagedInit == PInit => Messaged
  BY DEF PInit, Messaged

\* Every step passes on messages only, and moves the hub by its own steps.
LEMMA PresenceStep ==
    ASSUME Messaged, [PNext]_vars
    PROVE  Messaged' /\ [HNext]_hubVars
  <1>1. {"ONLINE", "OFFLINE", "CONNECTION_BROKEN"} \subseteq Messages
    BY PresenceAssumption DEF PresenceAssumption
  <1>2. ASSUME NEW msg \in Messages, Keep(msg)
        PROVE  retained' \in Messages \cup {Nothing} /\ inbox' \in Seq(Messages)
    BY <1>2 DEF Keep, Messaged
  <1>3. ASSUME TakeSession
        PROVE  retained' \in Messages \cup {Nothing} /\ inbox' \in Seq(Messages)
    BY <1>1, <1>2, <1>3 DEF TakeSession, Messaged
  <1>4. ASSUME NEW msg \in {"ONLINE", "OFFLINE"}, Publish(msg) PROVE Messaged'
    BY <1>4 DEF Publish, Messaged
  <1>5. CASE BrokerReads
    <2>1. /\ wire' \in Seq({"ONLINE", "OFFLINE", "DISCONNECT"})
          /\ Head(wire) \in {"ONLINE", "OFFLINE", "DISCONNECT"}
      BY <1>5 DEF BrokerReads, Messaged
    <2>2. retained' \in Messages \cup {Nothing} /\ inbox' \in Seq(Messages)
      BY <1>1, <1>2, <1>5, <2>1 DEF BrokerReads, Messaged
    <2> QED
      BY <1>5, <2>1, <2>2 DEF BrokerReads, Messaged, robotVars
  <1>6. CASE BrokerNotices
    BY <1>1, <1>2, <1>6 DEF BrokerNotices, Messaged, robotVars
  <1>7. CASE NetworkFails
    BY <1>7 DEF NetworkFails, Messaged, robotVars
  <1>8. CASE Start
    BY <1>3, <1>8 DEF Start, Messaged
  <1>9. CASE Reconnect
    <2>1. wire' \in Seq({"ONLINE", "OFFLINE", "DISCONNECT"})
      BY <1>9 DEF Reconnect, Messaged
    <2> QED
      BY <1>3, <1>9, <2>1 DEF Reconnect, Messaged
  <1>10. CASE ClientNotices
    BY <1>10 DEF ClientNotices, Messaged, linkVars
  <1>11. CASE Subscribed
    BY <1>11 DEF Subscribed, Messaged, linkVars
  <1>12. CASE PublishOnline
    BY <1>4, <1>12 DEF PublishOnline
  <1>13. CASE Acknowledged
    <2>1. unacked' \in Seq({"ONLINE", "OFFLINE"})
      BY <1>13 DEF Acknowledged, Messaged
    <2> QED
      BY <1>13, <2>1 DEF Acknowledged, Messaged, linkVars
  <1>14. CASE Stop
    BY <1>4, <1>14 DEF Stop
  <1>15. CASE Leave
    BY <1>15 DEF Leave, NoProcess, Messaged
  <1>16. CASE Kill
    BY <1>16 DEF Kill, NoProcess, Messaged
  <1>17. CASE OnMessage
    BY <1>17 DEF OnMessage, HNext, Messaged, robotVars
  <1>18. CASE ViewerReconnects
    BY <1>18 DEF ViewerReconnects, Messaged, robotVars
  <1>19. ASSUME NEW t \in Tabs, Tab(t) PROVE Messaged' /\ [HNext]_hubVars
    BY <1>19 DEF Tab, HNext, Messaged, robotVars, linkVars
  <1>20. CASE UNCHANGED vars
    BY <1>20 DEF vars, Messaged, robotVars, linkVars
  <1>21. CASE \/ BrokerReads \/ BrokerNotices \/ NetworkFails \/ Start
              \/ Reconnect \/ ClientNotices \/ Subscribed \/ PublishOnline
              \/ Acknowledged \/ Stop \/ Leave \/ Kill \/ ViewerReconnects
    <2>1. UNCHANGED hubVars
      BY <1>21 DEF BrokerReads, BrokerNotices, NetworkFails, Start, Reconnect,
         ClientNotices, Subscribed, PublishOnline, Acknowledged, Stop, Leave,
         Kill, ViewerReconnects
    <2> QED
      BY <1>21, <2>1, <1>5, <1>6, <1>7, <1>8, <1>9, <1>10, <1>11, <1>12,
         <1>13, <1>14, <1>15, <1>16, <1>18
  <1> QED
    BY <1>17, <1>19, <1>20, <1>21 DEF PNext, Connection, vars

\* The viewer in its surroundings behaves as the hub by itself.
THEOREM PresenceUsesHub == PSpec => HSpec
  <1>1. PInit => HInit
    BY DEF PInit
  <1> QED
    BY <1>1, MessagedInit, PresenceStep, PTL DEF PSpec, HSpec

\* No connection ever has two writers, for every set of tabs.
THEOREM OneWriterCorrect == PSpec => []OneWriter
  BY PresenceUsesHub, HInvCorrect, InvOneWriter, PTL

\* A tab that is behind is one that the broadcast under way has still to reach.
THEOREM CaughtUpCorrect == PSpec => []CaughtUp
  <1>1. HInv => CaughtUp
    BY DEF HInv
  <1> QED
    BY <1>1, PresenceUsesHub, HInvCorrect, PTL

-----------------------------------------------------------------------------
(* The type of the connection.                                             *)

\* An onConnect that waits for its SUBACK, or will be called again because the
\* network is gone.
Due == IF main # "off" /\ (subscribing \/ ~tcp) THEN 1 ELSE 0

\* The inductive invariant of the bound on publishing: a call of onConnect is
\* owed to a start or to a network that failed.
Counted ==
    /\ main \in {"off", "serving", "stopping"}
    /\ linkUp \in BOOLEAN /\ tcp \in BOOLEAN /\ session \in BOOLEAN
    /\ subscribing \in BOOLEAN /\ late \in BOOLEAN
    /\ publishing \in Nat /\ starts \in Nat /\ disturbed \in Nat
    /\ subscribing => linkUp
    /\ ~linkUp => ~tcp
    /\ main = "off" => ~linkUp /\ publishing = 0
    /\ publishing + Due <= starts + disturbed

LEMMA CountedInit == PInit => Counted
  <1> SUFFICES ASSUME PInit PROVE Counted
    OBVIOUS
  <1>1. /\ linkUp = FALSE /\ tcp = FALSE /\ session = FALSE
        /\ subscribing = FALSE /\ late = FALSE
    BY DEF PInit
  <1>2. main = "off" /\ publishing = 0 /\ starts = 0 /\ disturbed = 0
    BY DEF PInit
  <1>3. Due = 0
    BY <1>2 DEF Due
  <1>4. /\ publishing \in Nat /\ starts \in Nat /\ disturbed \in Nat
        /\ publishing + Due <= starts + disturbed
    BY <1>2, <1>3
  <1> QED
    BY <1>1, <1>2, <1>4, Zenon DEF Counted

\* Nothing is owed to a process that ended.
LEMMA EndCounted ==
    ASSUME Counted, NoProcess, session' = session, late' = late,
           starts' = starts, disturbed' \in Nat
    PROVE  Counted'
  <1>1. /\ main' = "off" /\ linkUp' = FALSE /\ subscribing' = FALSE
        /\ publishing' = 0 /\ tcp' = FALSE
    BY DEF NoProcess
  <1>2. Due' = 0
    BY <1>1 DEF Due
  <1>3. starts' \in Nat /\ disturbed' \in Nat
    BY DEF Counted
  <1>4. publishing' \in Nat /\ publishing' + Due' <= starts' + disturbed'
    <2>1. \A a, b \in Nat : 0 <= a + b
      OBVIOUS
    <2>2. 0 <= starts' + disturbed'
      BY <1>3, <2>1
    <2>3. publishing' = 0 /\ publishing' + Due' = 0
      BY <1>1, <1>2
    <2> QED
      BY <2>2, <2>3
  <1>5. session' \in BOOLEAN /\ late' \in BOOLEAN
    BY DEF Counted
  <1> QED
    BY <1>1, <1>3, <1>4, <1>5, Zenon DEF Counted

LEMMA CountedStep == ASSUME Counted, [PNext]_vars PROVE Counted'
  <1>1. CASE BrokerReads
    <2>1. session' \in BOOLEAN /\ UNCHANGED <<robotVars, tcp, historyVars>>
      BY <1>1 DEF BrokerReads, Counted
    <2> QED
      BY <2>1 DEF Counted, Due, robotVars, historyVars
  <1>2. CASE BrokerNotices
    BY <1>2 DEF BrokerNotices, Counted, Due, robotVars, historyVars
  <1>3. CASE NetworkFails
    <2>1. /\ main # "off" /\ tcp' = FALSE /\ disturbed' = disturbed + 1
          /\ UNCHANGED <<robotVars, session, starts, late>>
      BY <1>3 DEF NetworkFails, Disturb
    <2>2. Due' = 1 /\ Due \in {0, 1}
      BY <2>1 DEF Due, robotVars
    <2>3. /\ starts' \in Nat /\ disturbed' \in Nat /\ publishing' \in Nat
          /\ publishing' + Due' <= starts' + disturbed'
      BY <2>1, <2>2 DEF Counted, robotVars
    <2> QED
      BY <2>1, <2>3, Zenon DEF Counted, robotVars
  <1>4. CASE Start
    <2>1. /\ main' = "serving" /\ linkUp' = TRUE /\ subscribing' = TRUE
          /\ publishing' = 0 /\ starts' = starts + 1 /\ disturbed' = disturbed
          /\ session' = TRUE /\ tcp' = TRUE /\ late' = FALSE
      BY <1>4 DEF Start, TakeSession
    <2>2. Due' = 1
      BY <2>1 DEF Due
    <2>3. /\ starts' \in Nat /\ disturbed' \in Nat /\ publishing' \in Nat
          /\ publishing' + Due' <= starts' + disturbed'
      BY <2>1, <2>2 DEF Counted
    <2> QED
      BY <2>1, <2>3, Zenon DEF Counted
  <1>5. CASE Reconnect
    BY <1>5 DEF Reconnect, TakeSession, Counted, Due, historyVars
  <1>6. CASE ClientNotices
    BY <1>6 DEF ClientNotices, Counted, Due, linkVars, historyVars
  <1>7. CASE Subscribed
    <2>1. /\ subscribing /\ tcp /\ publishing' = publishing + 1
          /\ subscribing' = FALSE
          /\ UNCHANGED <<main, linkUp, tcp, session, starts, disturbed, late>>
      BY <1>7 DEF Subscribed, linkVars, historyVars
    <2>2. main # "off" /\ Due = 1
      BY <2>1 DEF Due, Counted
    <2>3. Due' = 0
      BY <2>1 DEF Due
    <2>4. /\ starts' \in Nat /\ disturbed' \in Nat /\ publishing' \in Nat
          /\ publishing' + Due' <= starts' + disturbed'
      BY <2>1, <2>2, <2>3 DEF Counted
    <2> QED
      BY <2>1, <2>2, <2>4, Zenon DEF Counted
  <1>8. CASE PublishOnline
    BY <1>8 DEF PublishOnline, Publish, Counted, Due
  <1>9. CASE Acknowledged
    BY <1>9 DEF Acknowledged, Counted, Due, linkVars, historyVars
  <1>10. CASE Stop
    BY <1>10 DEF Stop, Publish, Counted, Due, historyVars
  <1>11. CASE Leave
    BY <1>11, EndCounted DEF Leave, historyVars, Counted
  <1>12. CASE Kill
    BY <1>12, EndCounted DEF Kill, Disturb, Counted
  <1>13. CASE OnMessage
    BY <1>13 DEF OnMessage, Counted, Due, robotVars, historyVars
  <1>14. CASE ViewerReconnects
    BY <1>14 DEF ViewerReconnects, Disturb, Counted, Due, robotVars
  <1>15. ASSUME NEW t \in Tabs, Tab(t) PROVE Counted'
    BY <1>15 DEF Tab, Counted, Due, robotVars, linkVars, historyVars
  <1>16. CASE UNCHANGED vars
    BY <1>16 DEF vars, Counted, Due, robotVars, linkVars, historyVars
  <1> QED
    BY <1>1, <1>2, <1>3, <1>4, <1>5, <1>6, <1>7, <1>8, <1>9, <1>10, <1>11,
       <1>12, <1>13, <1>14, <1>15, <1>16 DEF PNext, Connection

\* The type of the connection, for every set of tabs and messages and however
\* often the robot starts and the network fails: above all, no onConnect is
\* about to publish that no connection called.
THEOREM PresenceTyped == PSpec => []PTypeOK
  <1> DEFINE TInv == Messaged /\ HInv /\ Counted
  <1>1. PInit => TInv
    BY MessagedInit, HInitInv, CountedInit DEF PInit
  <1>2. TInv /\ [PNext]_vars => TInv'
    BY PresenceStep, HStepInv, CountedStep
  <1>3. TInv => PTypeOK
    <2> SUFFICES ASSUME TInv PROVE PTypeOK
      OBVIOUS
    <2>1. Due \in {0, 1}
      BY DEF Due
    <2>2. publishing \in 0..starts + disturbed
      BY <2>1 DEF Counted
    <2> QED
      BY <2>2 DEF PTypeOK, HInv, Messaged, Counted
  <1> QED
    BY <1>1, <1>2, <1>3, PTL DEF PSpec

-----------------------------------------------------------------------------
(* What a stop leaves behind.                                              *)

\* The last message that the broker keeps, or will keep when it has read what
\* is on the wire, of which a DISCONNECT is the last.
Said ==
    IF wire = <<>> THEN retained
    ELSE IF wire[Len(wire)] # "DISCONNECT" THEN wire[Len(wire)]
    ELSE IF Len(wire) = 1 THEN retained ELSE wire[Len(wire) - 1]

\* As long as nothing is disturbed: a process has its session, and says goodbye
\* once, at the end; one that has gone has its session until that is read.
Orderly ==
    /\ main # "off" =>
          /\ linkUp /\ tcp /\ session
          /\ \A i \in 1..Len(wire) : wire[i] # "DISCONNECT"
    /\ main = "off" /\ wire = <<>> => ~session
    /\ main = "off" /\ wire # <<>> =>
          /\ session /\ wire[Len(wire)] = "DISCONNECT"
          /\ \A i \in 1..Len(wire)-1 : wire[i] # "DISCONNECT"

\* The inductive invariant: who stopped, and was not late, said OFFLINE last.
Announced ==
    disturbed = 0 =>
       /\ Orderly
       /\ starts > 0 /\ main # "serving" /\ ~late => Said = "OFFLINE"

\* Reading the wire does not change what is said in the end.
LEMMA ReadKeepsSaid ==
    ASSUME Messaged, Orderly, BrokerReads
    PROVE  Orderly' /\ Said' = Said
  <1>1. /\ wire # <<>> /\ wire' = Tail(wire) /\ main' = main
        /\ linkUp' = linkUp /\ tcp' = tcp
    BY DEF BrokerReads, robotVars
  <1>2. PICK n \in Nat \ {0} : n = Len(wire) /\ wire \in Seq({"ONLINE", "OFFLINE", "DISCONNECT"})
    BY <1>1 DEF Messaged
  <1>3. /\ Head(wire) = wire[1] /\ Len(wire') = n - 1
        /\ \A i \in 1..n-1 : wire'[i] = wire[i+1]
        /\ (wire' = <<>> <=> n = 1)
    <2>1. /\ Head(wire) = wire[1] /\ Len(wire') = n - 1
          /\ wire' \in Seq({"ONLINE", "OFFLINE", "DISCONNECT"})
          /\ \A i \in 1..n-1 : wire'[i] = wire[i+1]
      BY <1>1, <1>2, HeadTailProperties
    <2>2. wire' = <<>> <=> Len(wire') = 0
      BY <2>1, EmptySeq
    <2> QED
      BY <1>2, <2>1, <2>2
  <1>4. wire[1] = "DISCONNECT" => n = 1 /\ main = "off"
    BY <1>1, <1>2 DEF Orderly
  <1>5. CASE n = 1
    <2>1. wire' = <<>> /\ wire # <<>> /\ wire[n] = wire[1] /\ Len(wire') = 0
      BY <1>1, <1>3, <1>5
    <2>2. CASE wire[1] = "DISCONNECT"
      <3>1. session' = FALSE /\ retained' = retained /\ main = "off"
        BY <1>3, <1>4, <2>2 DEF BrokerReads
      <3> QED
        BY <1>1, <1>2, <1>5, <2>1, <2>2, <3>1 DEF Orderly, Said
    <2>3. CASE wire[1] # "DISCONNECT"
      <3>1. session' = session /\ retained' = wire[1]
        BY <1>3, <2>3 DEF BrokerReads, Keep
      <3>2. main # "off"
        BY <1>1, <1>2, <1>5, <2>3 DEF Orderly
      <3>3. Said = wire[1] /\ Said' = wire[1]
        BY <1>1, <1>2, <1>5, <2>1, <2>3, <3>1 DEF Said
      <3>4. linkUp' /\ tcp' /\ session' /\ main' # "off"
        BY <1>1, <3>1, <3>2 DEF Orderly
      <3> QED
        BY <2>1, <3>3, <3>4 DEF Orderly
    <2> QED
      BY <2>2, <2>3
  <1>6. CASE n > 1
    <2>1. session' = session /\ retained' = wire[1] /\ wire[1] # "DISCONNECT"
      BY <1>3, <1>4, <1>6 DEF BrokerReads, Keep
    <2>2. wire' # <<>> /\ n - 1 \in 1..n-1 /\ wire'[n-1] = wire[n]
      BY <1>2, <1>3, <1>6
    <2>3. Orderly'
      <3>1. ASSUME NEW i \in 1..n-2, \A j \in 1..n-1 : wire[j] # "DISCONNECT"
            PROVE  wire'[i] # "DISCONNECT"
        <4>1. i \in 1..n-1 /\ i + 1 \in 1..n-1
          BY <1>2
        <4> QED
          BY <1>3, <3>1, <4>1
      <3>2. ASSUME NEW i \in 1..n-1, \A j \in 1..n : wire[j] # "DISCONNECT"
            PROVE  wire'[i] # "DISCONNECT"
        <4>1. i + 1 \in 1..n
          BY <1>2
        <4> QED
          BY <1>3, <3>2, <4>1
      <3>3. n - 1 - 1 = n - 2
        BY <1>2
      <3> QED
        BY <1>1, <1>2, <1>3, <2>1, <2>2, <3>1, <3>2, <3>3 DEF Orderly
    <2>4. Said' = Said
      <3>1. CASE n = 2
        BY <1>1, <1>2, <1>3, <2>1, <2>2, <3>1 DEF Said
      <3>2. CASE n > 2
        <4>1. n - 2 \in 1..n-1 /\ n - 2 + 1 = n - 1 /\ n - 1 - 1 = n - 2 /\ n - 1 # 1
          BY <1>2, <3>2
        <4>2. wire'[n-2] = wire[n-1]
          BY <1>3, <4>1
        <4> QED
          BY <1>1, <1>2, <1>3, <1>6, <2>2, <4>1, <4>2 DEF Said
      <3> QED
        BY <1>2, <1>6, <3>1, <3>2
    <2> QED
      BY <2>3, <2>4
  <1> QED
    BY <1>2, <1>5, <1>6

LEMMA AnnouncedInit == PInit => Announced
  BY DEF PInit, Announced, Orderly

\* What is published goes to the end of the wire.
LEMMA PublishSaid ==
    ASSUME Messaged, Orderly, main # "off", NEW msg \in {"ONLINE", "OFFLINE"},
           Publish(msg), linkUp' = linkUp, main' # "off"
    PROVE  Orderly' /\ Said' = msg
  <1>1. linkUp /\ tcp /\ session /\ \A i \in 1..Len(wire) : wire[i] # "DISCONNECT"
    BY DEF Orderly
  <1>2. wire' = Append(wire, msg) /\ session' = session /\ tcp' = tcp
    BY <1>1 DEF Publish
  <1>3. PICK n \in Nat : n = Len(wire) /\ wire \in Seq({"ONLINE", "OFFLINE", "DISCONNECT"})
    BY DEF Messaged
  <1>4. /\ wire' # <<>> /\ Len(wire') = n + 1 /\ wire'[n+1] = msg
        /\ \A i \in 1..n : wire'[i] = wire[i]
    BY <1>2, <1>3, AppendProperties
  <1>5. \A i \in 1..n+1 : wire'[i] # "DISCONNECT"
    BY <1>1, <1>3, <1>4
  <1> QED
    BY <1>1, <1>2, <1>4, <1>5 DEF Orderly, Said

\* So does the DISCONNECT of a process that leaves.
LEMMA LeaveSaid ==
    ASSUME Messaged, Orderly, Leave
    PROVE  Orderly' /\ Said' = Said
  <1>1. linkUp /\ tcp /\ session /\ \A i \in 1..Len(wire) : wire[i] # "DISCONNECT"
    BY DEF Orderly, Leave
  <1>2. /\ wire' = Append(wire, "DISCONNECT") /\ session' = session
        /\ retained' = retained /\ main' = "off"
    BY <1>1 DEF Leave, NoProcess
  <1>3. PICK n \in Nat : n = Len(wire) /\ wire \in Seq({"ONLINE", "OFFLINE", "DISCONNECT"})
    BY DEF Messaged
  <1>4. /\ wire' # <<>> /\ Len(wire') = n + 1 /\ wire'[n+1] = "DISCONNECT"
        /\ \A i \in 1..n : wire'[i] = wire[i]
    BY <1>2, <1>3, AppendProperties
  <1>5. n + 1 - 1 = n /\ \A i \in 1..n : wire'[i] # "DISCONNECT"
    BY <1>1, <1>3, <1>4
  <1>6. Orderly'
    BY <1>1, <1>2, <1>4, <1>5 DEF Orderly
  <1>7. Said' = Said
    <2>1. CASE n = 0
      <3>1. wire = <<>>
        BY <1>3, <2>1, EmptySeq
      <3> QED
        BY <1>2, <1>4, <2>1, <3>1 DEF Said
    <2>2. CASE n > 0
      <3>1. wire # <<>> /\ n \in 1..n /\ n + 1 # 1
        BY <1>3, <2>2
      <3>2. Said = wire[n]
        BY <1>1, <1>3, <3>1 DEF Said
      <3>3. Said' = wire'[n]
        BY <1>4, <1>5, <3>1 DEF Said
      <3> QED
        BY <1>4, <3>1, <3>2, <3>3
    <2> QED
      BY <1>3, <2>1, <2>2
  <1> QED
    BY <1>6, <1>7

LEMMA AnnouncedStep ==
    ASSUME Messaged, Counted, Announced, [PNext]_vars PROVE Announced'
  <1> SUFFICES ASSUME disturbed' = 0
               PROVE  /\ Orderly'
                      /\ starts' > 0 /\ main' # "serving" /\ ~late' => Said' = "OFFLINE"
    BY DEF Announced
  <1>1. ASSUME disturbed' = disturbed
        PROVE  /\ Orderly
               /\ starts > 0 /\ main # "serving" /\ ~late => Said = "OFFLINE"
    BY <1>1 DEF Announced
  <1>2. ASSUME Disturb PROVE FALSE
    BY <1>2 DEF Disturb, Counted
  <1>3. CASE NetworkFails \/ Kill \/ ViewerReconnects
    BY <1>2, <1>3 DEF NetworkFails, Kill, ViewerReconnects
  <1>4. CASE BrokerReads
    <2>1. UNCHANGED <<main, starts, disturbed, late>>
      BY <1>4 DEF BrokerReads, robotVars, historyVars
    <2> QED
      BY <1>1, <1>4, <2>1, ReadKeepsSaid
  <1>5. CASE BrokerNotices
    <2>1. session /\ ~tcp /\ wire = <<>> /\ disturbed' = disturbed
      BY <1>5 DEF BrokerNotices, historyVars
    <2> QED
      BY <1>1, <2>1 DEF Orderly
  <1>6. CASE Start
    <2>1. /\ main' = "serving" /\ linkUp' = TRUE /\ wire' = <<>>
          /\ session' = TRUE /\ tcp' = TRUE
      BY <1>6 DEF Start, TakeSession
    <2> QED
      BY <2>1 DEF Orderly
  <1>7. CASE Reconnect
    <2>1. main # "off" /\ ~linkUp /\ disturbed' = disturbed
      BY <1>7 DEF Reconnect, historyVars
    <2> QED
      BY <1>1, <2>1 DEF Orderly
  <1>8. CASE ClientNotices
    <2>1. linkUp /\ ~tcp /\ disturbed' = disturbed
      BY <1>8 DEF ClientNotices, historyVars
    <2>2. main # "off"
      BY <2>1 DEF Counted
    <2> QED
      BY <1>1, <2>1, <2>2 DEF Orderly
  <1>9. CASE \/ Subscribed \/ Acknowledged \/ OnMessage \/ UNCHANGED vars
             \/ \E t \in Tabs : Tab(t)
    <2>1. UNCHANGED <<main, linkUp, tcp, session, wire, retained, starts,
                      disturbed, late>>
      BY <1>9 DEF Subscribed, Acknowledged, OnMessage, Tab, vars, robotVars,
                  linkVars, historyVars
    <2> QED
      BY <1>1, <2>1 DEF Orderly, Said
  <1>10. CASE PublishOnline
    <2>1. /\ publishing > 0 /\ Publish("ONLINE")
          /\ late' = (late \/ main = "stopping")
          /\ UNCHANGED <<main, linkUp, starts, disturbed>>
      BY <1>10 DEF PublishOnline
    <2>2. main \in {"serving", "stopping"}
      BY <2>1 DEF Counted
    <2>3. Orderly'
      BY <1>1, <2>1, <2>2, PublishSaid
    <2>4. main' # "serving" => late'
      BY <2>1, <2>2
    <2> QED
      BY <2>3, <2>4
  <1>11. CASE Stop
    <2>1. /\ main = "serving" /\ main' = "stopping" /\ Publish("OFFLINE")
          /\ UNCHANGED <<linkUp, disturbed>>
      BY <1>11 DEF Stop, historyVars
    <2> QED
      BY <1>1, <2>1, PublishSaid
  <1>12. CASE Leave
    <2>1. main = "stopping" /\ UNCHANGED <<starts, disturbed, late>>
      BY <1>12 DEF Leave, historyVars
    <2> QED
      BY <1>1, <1>12, <2>1, LeaveSaid
  <1> QED
    BY <1>3, <1>4, <1>5, <1>6, <1>7, <1>8, <1>9, <1>10, <1>11, <1>12
       DEF PNext, Connection

\* A stop that nothing disturbs and no onConnect overtakes leaves OFFLINE on
\* the retained topic (robot/main.go:244-253), however often the robot starts.
THEOREM StopAnnounced == PSpec => []StopIsAnnounced
  <1> DEFINE SInv == Messaged /\ Counted /\ Announced
  <1>1. PInit => SInv
    BY MessagedInit, CountedInit, AnnouncedInit
  <1>2. SInv /\ [PNext]_vars => SInv'
    BY PresenceStep, CountedStep, AnnouncedStep
  <1>3. SInv => StopIsAnnounced
    BY DEF Announced, Orderly, Said, StopIsAnnounced
  <1> QED
    BY <1>1, <1>2, <1>3, PTL DEF PSpec

=============================================================================

----------------------------- MODULE MqttSession -----------------------------
(***************************************************************************)
(* The life of the MQTT connection: mqtt_client_thread (mqtt.c), the       *)
(* status callback it calls (user_mqtt.c), the broker with its session and *)
(* its will, and Home Assistant behind the broker.                         *)
(*                                                                         *)
(* The client library is external: a call sends at most one packet, which  *)
(* may get lost also over a session that stays up, and may fail whether or *)
(* not the broker got it.  Time is counted in ticks, and only where the    *)
(* thread may spend a tick: in the heartbeat and MQTTYield of one turn of  *)
(* the inner loop.                                                         *)
(***************************************************************************)
EXTENDS Integers

CONSTANTS
    NComponents,    \* _component_num
    PingAfter,      \* keepAliveInterval - 10, in ticks
    TurnMax,        \* ticks one turn of the inner loop may take
    BrokerLimit     \* silence after which the broker drops a session:
                    \* one and a half times keepAliveInterval, in ticks

ASSUME SessionAssumption ==
    /\ NComponents \in Nat \ {0}
    /\ PingAfter \in Nat
    /\ TurnMax \in Nat
    /\ BrokerLimit \in Nat
    /\ PingAfter + TurnMax <= BrokerLimit

Component == 0 .. NComponents - 1

VARIABLES
    wifi,       \* the station is connected
    pc,         \* next step of the MQTT thread
    ci,         \* loop counter over the components
    sincePing,  \* ticks since ping_time
    turn,       \* ticks this turn of the inner loop has taken
    link,       \* the TCP connection: "none", "up", "broken" (and not yet noticed)
    session,    \* the broker's session of this client: "none", "live", or
                \* "stale" when its connection is gone and the broker has not noticed
    sub,        \* that session is subscribed to the command topic
    silence,    \* ticks since the broker's last packet from it
    avail,      \* what Home Assistant heard last on the availability topic
    known,      \* components whose discovery message it has
    forgot,     \* history: it restarted since the strip's last MQTT connection
    unsent,     \* history: components whose last announcement got lost
    unheard,    \* history: the "online" of the last connection got lost
    pingLost    \* history: a ping got lost since the broker last heard anything

network == <<link, session>>
shown == <<avail, known, forgot>>
losses == <<unsent, unheard>>
broker == <<sub, silence, pingLost>>
vars == <<wifi, pc, ci, sincePing, turn, network, broker, shown, losses>>

Loop == {"heartbeat", "yield", "check"}

Init ==
    /\ wifi \in BOOLEAN
    /\ pc = "wifi"
    /\ ci = 0 /\ sincePing = 0 /\ turn = 0
    /\ link = "none" /\ session = "none"
    /\ sub = FALSE /\ silence = 0
    /\ avail = "unknown"
    /\ known = {}
    /\ forgot = FALSE /\ unheard = FALSE /\ pingLost = FALSE
    /\ unsent = {}

(* A packet that is sent and not lost reaches the broker over a live       *)
(* session, and resets its clock.                                          *)
Reaches == session = "live"
Hear(sent) ==
    /\ silence' = IF sent /\ Reaches THEN 0 ELSE silence
    /\ pingLost' = (pingLost /\ ~(sent /\ Reaches))

(* A connection that is closed, broken or forgotten leaves its session.    *)
Orphaned == IF session = "live" THEN "stale" ELSE session

NoWill(a) == a
(* What the availability topic says once a session ends without a          *)
(* DISCONNECT: willFlag is set, with "offline" and not retained.           *)
Will(a) == "offline"

-----------------------------------------------------------------------------
(* The thread: connecting                                                  *)

(* while (!hfwifi_sta_is_connected()) msleep(1000).                        *)
WifiReady ==
    /\ pc = "wifi"
    /\ wifi
    /\ pc' = "net"
    /\ UNCHANGED <<wifi, ci, sincePing, turn, network, broker, shown, losses>>

ConnectNetwork(ok) ==
    /\ pc = "net"
    /\ (ok => wifi)
    /\ link' = IF ok THEN "up" ELSE "none"
    /\ pc' = IF ok THEN "connect" ELSE "end"
    /\ UNCHANGED <<wifi, ci, sincePing, turn, session, broker, shown, losses>>

(* MQTTConnect.  accepted: the broker opens a clean session, after sending *)
(* the will of one this client left behind.  ok: the client learns of it.  *)
MqttConnect(accepted, ok) ==
    /\ pc = "connect"
    /\ (accepted => link = "up") /\ (ok => accepted)
    /\ IF accepted
       THEN /\ session' = "live"
            /\ sub' = FALSE
            /\ silence' = 0
            /\ avail' = IF session = "none" THEN avail ELSE Will(avail)
            /\ forgot' = FALSE /\ unheard' = FALSE /\ pingLost' = FALSE
       ELSE UNCHANGED <<session, broker, avail, forgot, unheard>>
    /\ pc' = IF ok THEN "subscribe" ELSE "end"
    /\ UNCHANGED <<wifi, ci, sincePing, turn, link, known, unsent>>

AfterSubscribeAlways(ok) == "config"
(* MQTT_CONNECT_SUCCESS goes on to the discovery messages only when        *)
(* subscribed; otherwise it returns to the thread, which goes on anyway.   *)
AfterSubscribe(ok) == IF ok THEN "config" ELSE "heartbeat"

Subscribe(accepted, ok) ==
    /\ pc = "subscribe"
    /\ (accepted => Reaches) /\ (ok => accepted)
    /\ sub' = (sub \/ accepted)
    /\ Hear(accepted)
    /\ pc' = AfterSubscribe(ok)
    /\ ci' = 0
    /\ sincePing' = 0
    /\ turn' = 0
    /\ UNCHANGED <<wifi, network, shown, losses>>

ConfigsDoneEarly == ci = NComponents - 1
ConfigsDone == ci = NComponents

(* One discovery message; its failure is only logged.                      *)
PublishConfig(sent) ==
    /\ pc = "config"
    /\ ~ConfigsDone
    /\ known' = IF sent /\ Reaches THEN known \cup {ci} ELSE known
    /\ unsent' = IF sent /\ Reaches THEN unsent \ {ci} ELSE unsent \cup {ci}
    /\ Hear(sent)
    /\ ci' = ci + 1
    /\ UNCHANGED <<wifi, pc, sincePing, turn, network, sub, avail, forgot, unheard>>

(* "online" on the availability topic; its failure is only logged, and     *)
(* nothing sends it again on this connection.                              *)
PublishOnline(sent) ==
    /\ pc = "config"
    /\ ConfigsDone
    /\ avail' = IF sent /\ Reaches THEN "online" ELSE avail
    /\ unheard' = ~(sent /\ Reaches)
    /\ Hear(sent)
    /\ pc' = "heartbeat"
    /\ UNCHANGED <<wifi, ci, sincePing, turn, network, sub, known, forgot, unsent>>

-----------------------------------------------------------------------------
(* The thread: connected                                                   *)

(* MQTT_EARTBEAT: a sweep of state messages, or nothing.                   *)
Heartbeat(sweep) ==
    /\ pc = "heartbeat"
    /\ Hear(sweep)
    /\ pc' = "yield"
    /\ UNCHANGED <<wifi, ci, sincePing, turn, network, sub, shown, losses>>

(* Time passes in this turn; the broker's clock stops mattering once it    *)
(* has passed its limit.                                                   *)
Tick ==
    /\ pc = "yield"
    /\ turn < TurnMax
    /\ turn' = turn + 1
    /\ sincePing' = sincePing + 1
    /\ silence' = IF silence > BrokerLimit THEN silence ELSE silence + 1
    /\ UNCHANGED <<wifi, pc, ci, network, sub, pingLost, shown, losses>>

(* MQTTYield returns, having echoed a command or not.                      *)
Yield(echo) ==
    /\ pc = "yield"
    /\ Hear(echo)
    /\ pc' = "check"
    /\ UNCHANGED <<wifi, ci, sincePing, turn, network, sub, shown, losses>>

(* It returns FAILURE: a broken connection at last, or anything else.      *)
YieldFails ==
    /\ pc = "yield"
    /\ pc' = "end"
    /\ UNCHANGED <<wifi, ci, sincePing, turn, network, broker, shown, losses>>

WifiGone ==
    /\ pc = "check"
    /\ ~wifi
    /\ pc' = "end"
    /\ UNCHANGED <<wifi, ci, sincePing, turn, network, broker, shown, losses>>

PingDueLate == sincePing > PingAfter + TurnMax
PingDue == sincePing > PingAfter

(* The end of a turn without a ping ...                                    *)
NoPing ==
    /\ pc = "check"
    /\ wifi
    /\ ~PingDue
    /\ turn' = 0
    /\ pc' = "heartbeat"
    /\ UNCHANGED <<wifi, ci, sincePing, network, broker, shown, losses>>

(* ... and with one: ping_time is set first, the result of the write is    *)
(* ignored.                                                                *)
Ping(sent) ==
    /\ pc = "check"
    /\ wifi
    /\ PingDue
    /\ sincePing' = 0
    /\ silence' = IF sent /\ Reaches THEN 0 ELSE silence
    /\ pingLost' = ~(sent /\ Reaches)
    /\ turn' = 0
    /\ pc' = "heartbeat"
    /\ UNCHANGED <<wifi, ci, network, sub, shown, losses>>

EndGivesUp ==
    /\ pc = "end"
    /\ link' = "none"
    /\ session' = Orphaned
    /\ pc' = "end"
    /\ UNCHANGED <<wifi, ci, sincePing, turn, broker, shown, losses>>

(* MQTT_END: close the socket without a DISCONNECT packet, sleep, retry.   *)
End ==
    /\ pc = "end"
    /\ link' = "none"
    /\ session' = Orphaned
    /\ pc' = "wifi"
    /\ UNCHANGED <<wifi, ci, sincePing, turn, broker, shown, losses>>

-----------------------------------------------------------------------------
(* Everything else                                                         *)

WifiUp ==
    /\ ~wifi
    /\ wifi' = TRUE
    /\ UNCHANGED <<pc, ci, sincePing, turn, network, broker, shown, losses>>

(* The connection breaks, of its own or with the WiFi.                     *)
LinkBreaks ==
    /\ link' = IF link = "up" THEN "broken" ELSE link
    /\ session' = Orphaned
    /\ wifi' \in {wifi, FALSE}
    /\ <<link', wifi'>> # <<link, wifi>>
    /\ UNCHANGED <<pc, ci, sincePing, turn, broker, shown, losses>>

(* The broker drops a session whose connection is gone or that has been    *)
(* silent for too long, and sends its will.                                *)
BrokerDrops ==
    /\ session # "none"
    /\ session = "live" => silence > BrokerLimit
    /\ session' = "none"
    /\ sub' = FALSE
    /\ avail' = Will(avail)
    /\ link' = IF session = "live" THEN "broken" ELSE link
    /\ UNCHANGED <<wifi, pc, ci, sincePing, turn, silence, pingLost, known, forgot, losses>>

(* Home Assistant restarts: nothing the strip sends is retained.           *)
HaRestart ==
    /\ avail' = "unknown"
    /\ known' = {}
    /\ forgot' = TRUE
    /\ UNCHANGED <<wifi, pc, ci, sincePing, turn, network, broker, losses>>

(* The strip restarts.                                                     *)
Restart ==
    /\ wifi' = FALSE
    /\ pc' = "wifi"
    /\ ci' = 0 /\ sincePing' = 0 /\ turn' = 0
    /\ link' = "none"
    /\ session' = Orphaned
    /\ UNCHANGED <<broker, shown, losses>>

Thread ==
    \/ WifiReady
    \/ \E ok \in BOOLEAN : ConnectNetwork(ok)
    \/ \E accepted, ok \in BOOLEAN : MqttConnect(accepted, ok) \/ Subscribe(accepted, ok)
    \/ \E sent \in BOOLEAN : \/ PublishConfig(sent) \/ PublishOnline(sent)
                            \/ Heartbeat(sent) \/ Yield(sent) \/ Ping(sent)
    \/ NoPing \/ YieldFails \/ WifiGone \/ End

Next ==
    \/ Thread \/ Tick
    \/ WifiUp \/ LinkBreaks \/ BrokerDrops \/ HaRestart \/ Restart

Spec == Init /\ [][Next]_vars

(* The thread runs; a dead session is noticed in the end; the WiFi comes   *)
(* back; of endless attempts to connect and to subscribe one gets through; *)
(* MQTTYield cannot miss a broken connection for ever.                     *)
Fairness ==
    /\ WF_vars(Thread)
    /\ WF_vars(BrokerDrops)
    /\ WF_vars(WifiUp)
    /\ SF_vars(ConnectNetwork(TRUE))
    /\ SF_vars(MqttConnect(TRUE, TRUE))
    /\ SF_vars(Subscribe(TRUE, TRUE))
    /\ SF_vars(link = "broken" /\ YieldFails)

FairSpec == Spec /\ Fairness

-----------------------------------------------------------------------------
TypeOK ==
    /\ wifi \in BOOLEAN
    /\ pc \in {"wifi", "net", "connect", "subscribe", "config", "end"} \cup Loop
    /\ ci \in 0 .. NComponents
    /\ turn \in 0 .. TurnMax
    /\ sincePing \in 0 .. PingAfter + TurnMax
    /\ link \in {"none", "up", "broken"}
    /\ session \in {"none", "live", "stale"}
    /\ sub \in BOOLEAN
    /\ silence \in 0 .. BrokerLimit + 1
    /\ avail \in {"unknown", "offline", "online"}
    /\ known \subseteq Component
    /\ forgot \in BOOLEAN
    /\ unsent \subseteq Component
    /\ unheard \in BOOLEAN
    /\ pingLost \in BOOLEAN

(* While Home Assistant shows the strip as online, the broker has a        *)
(* session of it, with the will that will say otherwise, and this session  *)
(* receives the commands (user_mqtt.c:117-126).                            *)
OnlineMeansReachable == avail = "online" => session # "none" /\ sub

(* A strip shown as online has been announced, component by component,     *)
(* before it said so on the same connection.  Home Assistant knows each,   *)
(* but for those whose announcement got lost, which is only logged, or     *)
(* unless it restarted since that connection began (user_mqtt.c:119-126).  *)
OnlineMeansDiscovered == avail = "online" /\ ~forgot => known \cup unsent = Component

(* A strip whose thread is in the loop over an unbroken connection still   *)
(* has its session: the pings, sent on a clock of their own and checked    *)
(* once a turn, come before the broker's limit.  But there is no room for  *)
(* a second attempt: a lost ping, whose failure is ignored, may cost the   *)
(* session unless another packet gets through (mqtt.c:144-150).            *)
KeepAliveKept ==
    pc \in Loop /\ link = "up" =>
        session = "live" /\ (silence <= BrokerLimit \/ pingLost)

(* A strip that lost its session is not shown as online for ever.          *)
OfflineShown == (session = "stale") ~> (avail # "online")

(* With WiFi and connections that stay, the strip is shown as online again *)
(* and again, but for three cases, none of which is retried while the      *)
(* connection lasts: it sits in the loop after a subscription that failed  *)
(* (only then was no component announced), its "online" got lost, or Home  *)
(* Assistant restarted (mqtt.c:94-158, user_mqtt.c:117-129).               *)
Recovers ==
    <>[](wifi /\ link # "broken" /\ (pc \in Loop => ci = NComponents))
        => []<>(avail = "online" \/ forgot \/ unheard)

(* To Home Assistant the connection is Presence: it never takes an         *)
(* "online" back but for a lost session, never loses one without taking it *)
(* back, and describes components only over a session that takes commands  *)
(* (user_mqtt.c:110-126, mqtt.c:94-160).                                   *)
E == INSTANCE Presence WITH
    shown <- avail, described <- known, lost <- unsent, fresh <- ~forgot,
    reachable <- (session # "none" /\ sub)
ImplementsPresence == E!PresenceSpec
=============================================================================

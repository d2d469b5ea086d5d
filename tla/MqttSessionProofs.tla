------------------------- MODULE MqttSessionProofs -------------------------
(***************************************************************************)
(* Proofs about MqttSession: its types, the keep-alive, and what "online"  *)
(* means, for any number of components and any timing that satisfies       *)
(* SessionAssumption.                                                      *)
(***************************************************************************)
EXTENDS MqttSession, TLAPS

(* Where the thread is and what it knows of its connection.                *)
LinkInv ==
    /\ session = "live" => link = "up"
    /\ pc \in {"wifi", "net"} => link = "none"
    /\ pc \in Loop \cup {"subscribe", "config"} /\ link = "up" => session = "live"

(* The thread's clock runs ahead of the broker's, unless a ping got lost,  *)
(* and is checked in time.                                                 *)
ClockInv ==
    /\ pc \in {"subscribe", "config"} /\ session = "live" => silence = 0
    /\ pc \in Loop /\ session = "live" /\ ~pingLost => silence <= sincePing
    /\ pc = "config" => turn = 0 /\ sincePing = 0
    /\ pc = "heartbeat" => turn = 0
    /\ pc \in Loop => sincePing <= PingAfter + turn

(* On its way to "online" the strip is subscribed, and has announced the   *)
(* components before ci, heard or not.                                     *)
AnnounceInv ==
    pc = "config" /\ session = "live" =>
        /\ sub
        /\ ~forgot => \A c \in Component : c < ci => c \in known \cup unsent

SessionInv ==
    /\ TypeOK
    /\ LinkInv
    /\ ClockInv
    /\ AnnounceInv
    /\ OnlineMeansReachable
    /\ OnlineMeansDiscovered

-----------------------------------------------------------------------------
(* One lemma per conjunct that takes an argument of its own.               *)

(* The loop counters, clocks and enumerations stay in their ranges; the    *)
(* pings bound sincePing.                                                  *)
LEMMA TypeStep == SessionInv /\ [Next]_vars => TypeOK'
<1> SUFFICES ASSUME SessionInv, [Next]_vars PROVE TypeOK'
  OBVIOUS
<1> USE SessionAssumption DEF SessionInv, TypeOK, Loop, network, shown, losses, broker
<1>1. CASE Thread
  <2>1. CASE WifiReady \/ WifiGone \/ YieldFails
    BY <2>1 DEF WifiReady, WifiGone, YieldFails
  <2>2. ASSUME NEW ok \in BOOLEAN, ConnectNetwork(ok) PROVE TypeOK'
    BY <2>2 DEF ConnectNetwork
  <2>3. ASSUME NEW accepted \in BOOLEAN, NEW ok \in BOOLEAN, MqttConnect(accepted, ok)
        PROVE TypeOK'
    <3>1. /\ sub' \in BOOLEAN /\ forgot' \in BOOLEAN
          /\ unheard' \in BOOLEAN /\ pingLost' \in BOOLEAN
      BY <2>3, Zenon DEF MqttConnect
    <3>2. QED
      BY <2>3, <3>1 DEF MqttConnect, Will
  <2>4. ASSUME NEW accepted \in BOOLEAN, NEW ok \in BOOLEAN, Subscribe(accepted, ok)
        PROVE TypeOK'
    BY <2>4 DEF Subscribe, Hear, AfterSubscribe
  <2>5. ASSUME NEW sent \in BOOLEAN, PublishConfig(sent) PROVE TypeOK'
    BY <2>5 DEF PublishConfig, ConfigsDone, Hear, Component
  <2>6. ASSUME NEW sent \in BOOLEAN, PublishOnline(sent) PROVE TypeOK'
    BY <2>6 DEF PublishOnline, Hear
  <2>7. ASSUME NEW sends \in BOOLEAN, Heartbeat(sends) \/ Yield(sends) PROVE TypeOK'
    <3>1. pingLost' \in BOOLEAN
      BY <2>7, Zenon DEF Heartbeat, Yield, Hear
    <3>2. QED
      BY <2>7, <3>1 DEF Heartbeat, Yield, Hear
  <2>8. ASSUME NEW sent \in BOOLEAN, NoPing \/ Ping(sent) PROVE TypeOK'
    <3>1. pingLost' \in BOOLEAN
      BY <2>8, Zenon DEF NoPing, Ping
    <3>2. QED
      BY <2>8, <3>1 DEF NoPing, Ping, PingDue
  <2>9. CASE End
    BY <2>9 DEF End, Orphaned
  <2>10. QED
    BY <1>1, <2>1, <2>2, <2>3, <2>4, <2>5, <2>6, <2>7, <2>8, <2>9 DEF Thread
<1>2. CASE Tick
  BY <1>2 DEF Tick, ClockInv
<1>3. CASE WifiUp \/ LinkBreaks \/ BrokerDrops
  <2>1. CASE WifiUp
    BY <2>1 DEF WifiUp
  <2>2. CASE LinkBreaks
    <3>1. wifi' \in BOOLEAN /\ link' \in {"none", "up", "broken"} /\ session' \in {"none", "live", "stale"}
      BY <2>2 DEF LinkBreaks, Orphaned
    <3>2. QED
      BY <2>2, <3>1 DEF LinkBreaks
  <2>3. CASE BrokerDrops
    BY <2>3 DEF BrokerDrops, Will
  <2>4. QED
    BY <1>3, <2>1, <2>2, <2>3
<1>4. CASE HaRestart \/ Restart
  <2>1. wifi' \in BOOLEAN /\ forgot' \in BOOLEAN
    BY <1>4, Zenon DEF HaRestart, Restart
  <2>2. QED
    BY <1>4, <2>1 DEF HaRestart, Restart, Orphaned
<1>5. CASE UNCHANGED vars
  BY <1>5 DEF vars
<1>6. QED
  BY <1>1, <1>2, <1>3, <1>4, <1>5 DEF Next

(* A session lives over an unbroken connection, and the thread only goes   *)
(* past MQTTConnect with one.                                              *)
LEMMA LinkStep == SessionInv /\ [Next]_vars => LinkInv'
<1> SUFFICES ASSUME SessionInv, [Next]_vars PROVE LinkInv'
  OBVIOUS
<1> USE DEF SessionInv, TypeOK, LinkInv, Loop, network, shown, losses, broker
<1>1. CASE Thread
  <2>1. ASSUME NEW accepted \in BOOLEAN, NEW ok \in BOOLEAN,
               ConnectNetwork(ok) \/ MqttConnect(accepted, ok)
        PROVE  LinkInv'
    BY <2>1 DEF ConnectNetwork, MqttConnect
  <2>2. ASSUME NEW accepted \in BOOLEAN, NEW ok \in BOOLEAN, Subscribe(accepted, ok)
        PROVE  LinkInv'
    BY <2>2 DEF Subscribe, AfterSubscribe
  <2>3. ASSUME NEW sends \in BOOLEAN, Heartbeat(sends) \/ Yield(sends) PROVE LinkInv'
    BY <2>3 DEF Heartbeat, Yield
  <2>4. ASSUME NEW sent \in BOOLEAN, PublishConfig(sent) \/ PublishOnline(sent) \/ Ping(sent)
        PROVE  LinkInv'
    BY <2>4 DEF PublishConfig, PublishOnline, Ping
  <2>5. CASE WifiReady \/ YieldFails \/ WifiGone \/ NoPing \/ End
    BY <2>5 DEF WifiReady, YieldFails, WifiGone, NoPing, End, Orphaned
  <2>6. QED
    BY <1>1, <2>1, <2>2, <2>3, <2>4, <2>5 DEF Thread
<1>2. CASE Tick \/ WifiUp \/ LinkBreaks \/ BrokerDrops \/ HaRestart \/ Restart
  BY <1>2 DEF Tick, WifiUp, LinkBreaks, BrokerDrops, HaRestart, Restart, Orphaned
<1>3. CASE UNCHANGED vars
  BY <1>3 DEF vars
<1>4. QED
  BY <1>1, <1>2, <1>3 DEF Next

(* A packet resets the broker's clock at least when a ping resets the      *)
(* thread's, so the broker's never runs ahead.                             *)
LEMMA ClockStep == SessionInv /\ [Next]_vars => ClockInv'
<1> SUFFICES ASSUME SessionInv, [Next]_vars PROVE ClockInv'
  OBVIOUS
<1> USE SessionAssumption DEF SessionInv, TypeOK, ClockInv, Loop, network, shown, losses, broker
<1>1. CASE Thread
  <2>1. CASE WifiReady \/ WifiGone \/ YieldFails \/ End
    BY <2>1 DEF WifiReady, WifiGone, YieldFails, End
  <2>2. ASSUME NEW ok \in BOOLEAN, ConnectNetwork(ok) PROVE ClockInv'
    BY <2>2 DEF ConnectNetwork
  <2>3. ASSUME NEW accepted \in BOOLEAN, NEW ok \in BOOLEAN, MqttConnect(accepted, ok)
        PROVE ClockInv'
    BY <2>3 DEF MqttConnect
  <2>4. ASSUME NEW accepted \in BOOLEAN, NEW ok \in BOOLEAN, Subscribe(accepted, ok)
        PROVE ClockInv'
    BY <2>4 DEF Subscribe, Hear, Reaches, AfterSubscribe
  <2>5. ASSUME NEW sent \in BOOLEAN, PublishConfig(sent) PROVE ClockInv'
    BY <2>5 DEF PublishConfig, Hear, Reaches
  <2>6. ASSUME NEW sent \in BOOLEAN, PublishOnline(sent) PROVE ClockInv'
    BY <2>6 DEF PublishOnline, Hear, Reaches
  <2>7. ASSUME NEW sends \in BOOLEAN, Heartbeat(sends) \/ Yield(sends) PROVE ClockInv'
    BY <2>7 DEF Heartbeat, Yield, Hear, Reaches
  <2>8. ASSUME NEW sent \in BOOLEAN, NoPing \/ Ping(sent) PROVE ClockInv'
    BY <2>8 DEF NoPing, Ping, PingDue, Reaches
  <2>9. QED
    BY <1>1, <2>1, <2>2, <2>3, <2>4, <2>5, <2>6, <2>7, <2>8 DEF Thread
<1>2. CASE Tick
  BY <1>2 DEF Tick
<1>3. CASE WifiUp \/ LinkBreaks \/ BrokerDrops \/ HaRestart \/ Restart
  BY <1>3 DEF WifiUp, LinkBreaks, BrokerDrops, HaRestart, Restart, Orphaned
<1>4. CASE UNCHANGED vars
  BY <1>4 DEF vars
<1>5. QED
  BY <1>1, <1>2, <1>3, <1>4 DEF Next

(* The discovery messages follow one another over one session.             *)
LEMMA AnnounceStep == SessionInv /\ [Next]_vars => AnnounceInv'
<1> SUFFICES ASSUME SessionInv, [Next]_vars PROVE AnnounceInv'
  OBVIOUS
<1> USE SessionAssumption DEF SessionInv, TypeOK, AnnounceInv, Loop, network, shown, losses, broker, Component
<1>1. CASE Thread
  <2>1. ASSUME NEW accepted \in BOOLEAN, NEW ok \in BOOLEAN, Subscribe(accepted, ok)
        PROVE AnnounceInv'
    BY <2>1 DEF Subscribe, Reaches, AfterSubscribe
  <2>2. ASSUME NEW sent \in BOOLEAN, PublishConfig(sent) PROVE AnnounceInv'
    BY <2>2 DEF PublishConfig, Reaches
  <2>3. ASSUME NEW accepted \in BOOLEAN, NEW ok \in BOOLEAN,
               ConnectNetwork(ok) \/ MqttConnect(accepted, ok)
        PROVE AnnounceInv'
    BY <2>3 DEF ConnectNetwork, MqttConnect
  <2>4. ASSUME NEW sends \in BOOLEAN, Heartbeat(sends) \/ Yield(sends) PROVE AnnounceInv'
    BY <2>4 DEF Heartbeat, Yield
  <2>5. ASSUME NEW sent \in BOOLEAN, PublishOnline(sent) \/ Ping(sent) PROVE AnnounceInv'
    BY <2>5 DEF PublishOnline, Ping
  <2>6. CASE WifiReady \/ YieldFails \/ WifiGone \/ NoPing \/ End
    BY <2>6 DEF WifiReady, YieldFails, WifiGone, NoPing, End
  <2>7. QED
    BY <1>1, <2>1, <2>2, <2>3, <2>4, <2>5, <2>6 DEF Thread
<1>2. CASE Tick \/ WifiUp \/ LinkBreaks \/ BrokerDrops \/ HaRestart \/ Restart
  BY <1>2 DEF Tick, WifiUp, LinkBreaks, BrokerDrops, HaRestart, Restart, Orphaned
<1>3. CASE UNCHANGED vars
  BY <1>3 DEF vars
<1>4. QED
  BY <1>1, <1>2, <1>3 DEF Next

(* "online" is said over a subscribed session after every announcement,    *)
(* and the end of that session unsays it.                                  *)
LEMMA OnlineStep ==
    SessionInv /\ [Next]_vars => OnlineMeansReachable' /\ OnlineMeansDiscovered'
<1> SUFFICES ASSUME SessionInv, [Next]_vars
             PROVE OnlineMeansReachable' /\ OnlineMeansDiscovered'
  OBVIOUS
<1> USE SessionAssumption DEF SessionInv, TypeOK, OnlineMeansReachable, OnlineMeansDiscovered,
        network, shown, losses, broker
<1>1. CASE Thread
  <2>1. ASSUME NEW sent \in BOOLEAN, PublishOnline(sent)
        PROVE OnlineMeansReachable' /\ OnlineMeansDiscovered'
    <3>1. CASE sent /\ session = "live"
      <4>1. ~forgot => Component \subseteq known \cup unsent
        BY <2>1, <3>1 DEF PublishOnline, ConfigsDone, AnnounceInv, Component
      <4>2. ~forgot => known \cup unsent = Component
        BY <4>1
      <4>3. sub
        BY <2>1, <3>1 DEF PublishOnline, AnnounceInv
      <4>4. QED
        BY <2>1, <3>1, <4>2, <4>3 DEF PublishOnline, Hear
    <3>2. CASE ~(sent /\ session = "live")
      BY <2>1, <3>2 DEF PublishOnline, Reaches, Hear
    <3>3. QED
      BY <3>1, <3>2
  <2>2. ASSUME NEW sent \in BOOLEAN, PublishConfig(sent)
        PROVE OnlineMeansReachable' /\ OnlineMeansDiscovered'
    <3>1. ci \in Component
      BY <2>2 DEF PublishConfig, ConfigsDone, Component
    <3>2. known \cup unsent = Component => known' \cup unsent' = Component
      BY <2>2, <3>1 DEF PublishConfig
    <3>3. QED
      BY <2>2, <3>2 DEF PublishConfig
  <2>3. ASSUME NEW accepted \in BOOLEAN, NEW ok \in BOOLEAN,
               ConnectNetwork(ok) \/ MqttConnect(accepted, ok) \/ Subscribe(accepted, ok)
        PROVE OnlineMeansReachable' /\ OnlineMeansDiscovered'
    BY <2>3 DEF ConnectNetwork, MqttConnect, Subscribe, Will
  <2>4. ASSUME NEW sends \in BOOLEAN, Heartbeat(sends) \/ Yield(sends)
        PROVE OnlineMeansReachable' /\ OnlineMeansDiscovered'
    BY <2>4 DEF Heartbeat, Yield
  <2>5. ASSUME NEW sent \in BOOLEAN, Ping(sent)
        PROVE OnlineMeansReachable' /\ OnlineMeansDiscovered'
    BY <2>5 DEF Ping
  <2>6. CASE WifiReady \/ YieldFails \/ WifiGone \/ NoPing \/ End
    BY <2>6 DEF WifiReady, YieldFails, WifiGone, NoPing, End, Orphaned
  <2>7. QED
    BY <1>1, <2>1, <2>2, <2>3, <2>4, <2>5, <2>6 DEF Thread
<1>2. CASE Tick \/ WifiUp \/ LinkBreaks \/ BrokerDrops \/ HaRestart \/ Restart
  BY <1>2 DEF Tick, WifiUp, LinkBreaks, BrokerDrops, HaRestart, Restart, Orphaned, Will
<1>3. CASE UNCHANGED vars
  BY <1>3 DEF vars
<1>4. QED
  BY <1>1, <1>2, <1>3 DEF Next

LEMMA SessionInvariant == Spec => []SessionInv
<1>1. Init => SessionInv
  <2> SUFFICES ASSUME Init PROVE SessionInv
    OBVIOUS
  <2> USE SessionAssumption DEF Init
  <2>1. TypeOK
    <3>1. sub \in BOOLEAN /\ forgot \in BOOLEAN /\ unheard \in BOOLEAN /\ pingLost \in BOOLEAN
      BY Zenon
    <3>2. QED
      BY <3>1 DEF TypeOK
  <2>2. LinkInv /\ ClockInv /\ AnnounceInv
    BY DEF LinkInv, ClockInv, AnnounceInv, Loop
  <2>3. OnlineMeansReachable /\ OnlineMeansDiscovered
    BY DEF OnlineMeansReachable, OnlineMeansDiscovered
  <2>4. QED
    BY <2>1, <2>2, <2>3 DEF SessionInv
<1>2. SessionInv /\ [Next]_vars => SessionInv'
  BY TypeStep, LinkStep, ClockStep, AnnounceStep, OnlineStep DEF SessionInv
<1>3. QED
  BY <1>1, <1>2, PTL DEF Spec

-----------------------------------------------------------------------------
(* Every variable keeps its type; in particular no turn of the loop lets   *)
(* the time since the last ping outgrow its bound (mqtt.c:144-150).        *)
THEOREM SessionTypeCorrect == Spec => []TypeOK
<1>1. SessionInv => TypeOK
  BY DEF SessionInv
<1>2. QED
  BY <1>1, SessionInvariant, PTL

(* While Home Assistant shows the strip as online, the broker has a        *)
(* subscribed session of it with its will (user_mqtt.c:117-126).           *)
THEOREM OnlineIsReachable == Spec => []OnlineMeansReachable
<1>1. SessionInv => OnlineMeansReachable
  BY DEF SessionInv
<1>2. QED
  BY <1>1, SessionInvariant, PTL

(* A strip shown as online has been announced with all its components, and *)
(* Home Assistant knows those whose announcement got through, until it     *)
(* restarts (user_mqtt.c:119-126).                                         *)
THEOREM OnlineIsDiscovered == Spec => []OnlineMeansDiscovered
<1>1. SessionInv => OnlineMeansDiscovered
  BY DEF SessionInv
<1>2. QED
  BY <1>1, SessionInvariant, PTL

(* The thread loses its session to its own silence only by a lost ping,    *)
(* whatever the intervals, as long as one turn of the loop and the ping    *)
(* interval fit into the broker's limit (mqtt.c:144-150).                  *)
THEOREM KeepsAlive == Spec => []KeepAliveKept
<1>1. SessionInv => KeepAliveKept
  BY SessionAssumption DEF SessionInv, TypeOK, LinkInv, ClockInv, KeepAliveKept, Loop
<1>2. QED
  BY <1>1, SessionInvariant, PTL

-----------------------------------------------------------------------------
(* The refinement of Presence.                                             *)

LEMMA PresenceStep == SessionInv /\ [Next]_vars => [E!ENext]_(E!evars)
<1> SUFFICES ASSUME SessionInv, [Next]_vars PROVE E!ENext \/ UNCHANGED E!evars
  OBVIOUS
<1> USE DEF network, shown, losses, broker
<1>1. ASSUME UNCHANGED <<avail, known, unsent, forgot, sub>>,
             (session' # "none") <=> (session # "none")
      PROVE  UNCHANGED E!evars
  <2>1. (session' # "none" /\ sub') = (session # "none" /\ sub)
    BY <1>1, Zenon
  <2>2. (~forgot') = (~forgot)
    BY <1>1, Zenon
  <2> QED
    BY <1>1, <2>1, <2>2, Zenon DEF E!evars
<1>2. (session # "none" /\ sub) \in BOOLEAN
  OBVIOUS
<1>3. ASSUME NEW accepted \in BOOLEAN, NEW ok \in BOOLEAN, MqttConnect(accepted, ok)
      PROVE  E!ENext \/ UNCHANGED E!evars
  <2>1. CASE accepted
    <3>1. (session' # "none" /\ sub') = FALSE
      BY <1>3, <2>1, Zenon DEF MqttConnect
    <3>2. /\ known' = known /\ unsent' = unsent /\ (~forgot') = TRUE
          /\ avail' = "offline" \/ (session = "none" /\ avail' = avail)
      BY <1>3, <2>1, Zenon DEF MqttConnect, Will
    <3>3. E!Vanish
      BY <3>1, <3>2, Zenon DEF E!Vanish
    <3> QED
      BY <3>3 DEF E!ENext
  <2>2. CASE ~accepted
    BY <1>1, <1>3, <2>2, Zenon DEF MqttConnect
  <2> QED
    BY <2>1, <2>2
<1>4. ASSUME NEW accepted \in BOOLEAN, NEW ok \in BOOLEAN, Subscribe(accepted, ok)
      PROVE  E!ENext \/ UNCHANGED E!evars
  <2>1. CASE accepted /\ ~sub
    <3>1. (session # "none" /\ sub) = FALSE /\ (session' # "none" /\ sub') = TRUE
      BY <1>4, <2>1 DEF Subscribe, Reaches
    <3>2. UNCHANGED <<avail, known, unsent>> /\ (~forgot') = (~forgot)
      BY <1>4, Zenon DEF Subscribe
    <3>3. E!Reach
      BY <3>1, <3>2, Zenon DEF E!Reach
    <3> QED
      BY <3>3 DEF E!ENext
  <2>2. CASE ~accepted \/ sub
    <3>1. sub' = sub
      BY <1>4, <2>2, Zenon DEF Subscribe, SessionInv, TypeOK
    <3> QED
      BY <1>1, <1>4, <3>1, Zenon DEF Subscribe
  <2> QED
    BY <2>1, <2>2
<1>5. ASSUME NEW sent \in BOOLEAN, PublishConfig(sent)
      PROVE  E!ENext \/ UNCHANGED E!evars
  <2>1. ci \in Component
    BY <1>5, SessionAssumption DEF PublishConfig, ConfigsDone, Component, SessionInv, TypeOK
  <2>2. /\ avail' = avail /\ (~forgot') = (~forgot)
        /\ (session' # "none" /\ sub') = (session # "none" /\ sub)
    BY <1>5, Zenon DEF PublishConfig
  <2>3. CASE sent /\ Reaches
    <3>1. session # "none" /\ sub
      BY <1>5, <2>3 DEF PublishConfig, Reaches, SessionInv, AnnounceInv
    <3>2. known' = known \cup {ci} /\ unsent' = unsent \ {ci}
      BY <1>5, <2>3, Zenon DEF PublishConfig
    <3>3. E!Describe(ci)
      BY <2>2, <3>1, <3>2, Zenon DEF E!Describe
    <3> QED
      BY <2>1, <3>3 DEF E!ENext
  <2>4. CASE ~(sent /\ Reaches)
    <3>1. known' = known /\ unsent' = unsent \cup {ci}
      BY <1>5, <2>4, Zenon DEF PublishConfig
    <3>2. E!Lose(ci)
      BY <2>2, <3>1, Zenon DEF E!Lose
    <3> QED
      BY <2>1, <3>2 DEF E!ENext
  <2> QED
    BY <2>3, <2>4
<1>6. ASSUME NEW sent \in BOOLEAN, PublishOnline(sent)
      PROVE  E!ENext \/ UNCHANGED E!evars
  <2>1. CASE sent /\ Reaches
    <3>1. session # "none" /\ sub
      BY <1>6, <2>1 DEF PublishOnline, Reaches, SessionInv, AnnounceInv
    <3>2. ~forgot => known \cup unsent = Component
      <4>1. ~forgot => Component \subseteq known \cup unsent
        BY <1>6, <2>1, SessionAssumption
        DEF PublishOnline, ConfigsDone, Reaches, SessionInv, AnnounceInv, Component
      <4> QED
        BY <4>1 DEF SessionInv, TypeOK
    <3>3. /\ avail' = "online" /\ known' = known /\ unsent' = unsent /\ (~forgot') = (~forgot)
          /\ (session' # "none" /\ sub') = (session # "none" /\ sub)
      BY <1>6, <2>1, Zenon DEF PublishOnline
    <3>4. E!Appear
      BY <3>1, <3>2, <3>3, Zenon DEF E!Appear
    <3> QED
      BY <3>4 DEF E!ENext
  <2>2. CASE ~(sent /\ Reaches)
    BY <1>1, <1>6, <2>2, Zenon DEF PublishOnline
  <2> QED
    BY <2>1, <2>2
<1>7. CASE BrokerDrops
  <2>1. /\ (session' # "none" /\ sub') = FALSE /\ avail' = "offline"
        /\ known' = known /\ unsent' = unsent /\ (~forgot') = (~forgot)
    BY <1>7, Zenon DEF BrokerDrops, Will
  <2>2. E!Vanish
    BY <2>1, Zenon DEF E!Vanish
  <2> QED
    BY <2>2 DEF E!ENext
<1>8. CASE HaRestart
  <2>1. /\ avail' = "unknown" /\ known' = {} /\ unsent' = unsent /\ (~forgot') = FALSE
        /\ (session' # "none" /\ sub') = (session # "none" /\ sub)
    BY <1>8, Zenon DEF HaRestart
  <2>2. E!Forget
    BY <2>1, Zenon DEF E!Forget
  <2> QED
    BY <2>2 DEF E!ENext
<1>9. CASE End \/ LinkBreaks \/ Restart
  BY <1>1, <1>9 DEF End, LinkBreaks, Restart, Orphaned
<1>10. ASSUME NEW b \in BOOLEAN, ConnectNetwork(b) \/ Heartbeat(b) \/ Yield(b) \/ Ping(b)
       PROVE  UNCHANGED E!evars
  BY <1>1, <1>10, Zenon DEF ConnectNetwork, Heartbeat, Yield, Ping
<1>11. CASE WifiReady \/ YieldFails \/ WifiGone \/ NoPing \/ Tick \/ WifiUp
  BY <1>1, <1>11, Zenon DEF WifiReady, YieldFails, WifiGone, NoPing, Tick, WifiUp
<1>12. CASE UNCHANGED vars
  BY <1>1, <1>12, Zenon DEF vars
<1> QED
  BY <1>3, <1>4, <1>5, <1>6, <1>7, <1>8, <1>9, <1>10, <1>11, <1>12 DEF Next, Thread

(* The connection implements Presence: however connections, sessions and   *)
(* restarts follow one another, Home Assistant sees the strip appear only  *)
(* described and subscribed, and vanish exactly when its session does.     *)
THEOREM SessionImplementsPresence == Spec => ImplementsPresence
<1>1. Init => E!EInit
  <2> SUFFICES ASSUME Init PROVE E!EInit
    OBVIOUS
  <2>1. (session # "none" /\ sub) = FALSE /\ (~forgot) = TRUE
    BY Zenon DEF Init
  <2> QED
    BY <2>1, Zenon DEF Init, E!EInit
<1> QED
  BY <1>1, SessionInvariant, PresenceStep, PTL DEF Spec, ImplementsPresence, E!PresenceSpec
=============================================================================

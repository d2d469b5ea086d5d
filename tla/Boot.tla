-------------------------------- MODULE Boot --------------------------------
(***************************************************************************)
(* The start of the firmware (app_main.c, user_init.c, user_mqtt.c): one   *)
(* thread creates the devices, the topics and the MQTT client in a fixed   *)
(* order, while the key interrupt is enabled before the devices it uses    *)
(* exist, the IP address comes when DHCP is done, and the MQTT thread runs *)
(* before the handle it publishes with has been stored.                    *)
(*                                                                         *)
(* What a call through a handle that is still NULL does is undefined: it   *)
(* has no effect here, or it is the end of the behaviour, as the strip     *)
(* restarts from Init.  The LED, created after the key interrupt, is left  *)
(* out, and commands are RelayBoard's.  The key interrupt may fall between *)
(* any two steps of either thread, a sweep's included.                     *)
(***************************************************************************)
EXTENDS Integers

CONSTANTS
    NRelays,      \* number of sockets; 6 in the code
    FaultyRelays, \* relays whose GPIO call may return something else than HF_SUCCESS
    Address,      \* IP addresses DHCP may give
    NoAddress     \* the empty string

ASSUME BootAssumption ==
    /\ NRelays \in Nat \ {0}
    /\ FaultyRelays \subseteq 0 .. NRelays - 1
    /\ NoAddress \notin Address

Relay == 0 .. NRelays - 1
CLOSE == 0
OPEN == 1
Status == {CLOSE, OPEN}

VARIABLES
    main,       \* next step of app_main, user_init and user_mqtt_init
    made,       \* relays created so far: 0 .. made - 1
    status,     \* their status
    keyOn,      \* the key interrupt is enabled
    allStatus,  \* _relay_all_status
    updateFlg,  \* relay_update_flg
    ip,         \* the address user_ip_set was given last
    deviceIp,   \* its copy in the device that announcements describe
    client,     \* _mqtt_clien has been stored
    thread,     \* next step of the MQTT thread
    idx,        \* loop counter of its sweep
    topics,     \* the components have their state topics
    announced,  \* the address in the last announcement
    told,       \* what the state topics were told last
    reached,    \* history: how many relays there were at the last press
    spared,     \* history: those of them whose GPIO call failed then
    moved,      \* history: DHCP gave an address after the device was made
    subscribed, \* history: a subscription has succeeded
    doubtful    \* history: relays whose last state message got lost, came
                \* before any subscription, or was overtaken by a press

panel == <<made, status, keyOn, allStatus, reached, spared>>
addresses == <<ip, deviceIp, moved>>
session == <<client, thread, topics, announced, subscribed>>
reports == <<idx, told, doubtful>>
vars == <<main, panel, updateFlg, addresses, session, reports>>

Init ==
    /\ main = "blink"
    /\ made = 0
    /\ status = [r \in Relay |-> CLOSE]
    /\ keyOn = FALSE
    /\ allStatus = CLOSE
    /\ updateFlg = FALSE
    /\ ip = NoAddress
    /\ deviceIp = NoAddress
    /\ client = FALSE
    /\ thread = "none"
    /\ topics = FALSE
    /\ announced = NoAddress
    /\ told = status
    /\ idx = 0
    /\ reached = 0
    /\ spared = {}
    /\ moved = FALSE
    /\ subscribed = FALSE
    /\ doubtful = {}

Made == {r \in Relay : r < made}

(* user_relay_aLL_set, as far as there are relays: each whose GPIO call    *)
(* succeeds takes the status.                                              *)
AllSet(s, failed) ==
    /\ status' = [r \in Relay |-> IF r \in Made \ failed THEN s ELSE status[r]]
    /\ updateFlg' = TRUE

-----------------------------------------------------------------------------
(* The starting thread                                                     *)

(* Smartlink and the WiFi driver are waited for, with the LED, not yet     *)
(* created, told to blink.                                                 *)
Blink ==
    /\ main = "blink"
    /\ main' = "allset"
    /\ UNCHANGED <<panel, updateFlg, addresses, session, reports>>

(* app_main switches everything on, before anything exists.                *)
AllOpen ==
    /\ main = "allset"
    /\ AllSet(OPEN, {})
    /\ main' = "key"
    /\ UNCHANGED <<made, keyOn, allStatus, reached, spared, addresses, session, reports>>

KeyInit ==
    /\ main = "key"
    /\ keyOn' = TRUE
    /\ main' = "relays"
    /\ UNCHANGED <<made, status, allStatus, reached, spared, updateFlg, addresses, session, reports>>

CreatedOpen == OPEN
(* The status relay_create gives a relay.                                  *)
Created == CLOSE

OneTooMany == made <= NRelays
(* The loop condition of user_relay_init.                                  *)
RelaysMissing == made < NRelays

(* user_relay_init, one relay.                                             *)
RelayCreate ==
    /\ main = "relays"
    /\ RelaysMissing
    /\ made' = made + 1
    /\ status' = [status EXCEPT ![made] = Created]
    /\ UNCHANGED <<main, keyOn, allStatus, reached, spared, updateFlg, addresses, session, reports>>

(* Without a configuration the start is over, and there will be no MQTT.   *)
ReadConfigure ==
    /\ main = "relays"
    /\ ~RelaysMissing
    /\ main' \in {"device", "run"}
    /\ UNCHANGED <<panel, updateFlg, addresses, session, reports>>

DeviceAddressDefault == NoAddress
(* hass_device_create copies the address of the moment.                    *)
DeviceAddress == ip

(* The device, the components and their topics, but for the state topics.  *)
DeviceCreate ==
    /\ main = "device"
    /\ deviceIp' = DeviceAddress
    /\ main' = "mqtt"
    /\ UNCHANGED <<panel, updateFlg, ip, moved, session, reports>>

(* mqtt_create starts the thread ...                                       *)
MqttCreate ==
    /\ main = "mqtt"
    /\ thread' = "connect"
    /\ main' = "store"
    /\ UNCHANGED <<panel, updateFlg, addresses, client, topics, announced, subscribed, reports>>

(* ... and its result is stored when it has returned.                      *)
StoreClient ==
    /\ main = "store"
    /\ client' = TRUE
    /\ main' = "run"
    /\ UNCHANGED <<panel, updateFlg, addresses, thread, topics, announced, subscribed, reports>>

-----------------------------------------------------------------------------
(* The key and DHCP                                                        *)

(* Relays the sweep under way has already published.                       *)
Swept == IF thread = "sweep" THEN 0 .. idx - 1 ELSE {}

KeyShortPress(failed) ==
    /\ keyOn
    /\ allStatus' = IF allStatus = CLOSE THEN OPEN ELSE CLOSE
    /\ AllSet(IF allStatus = CLOSE THEN OPEN ELSE CLOSE, failed)
    /\ reached' = made
    /\ spared' = failed
    /\ doubtful' = doubtful \cup {r \in Swept : status'[r] # status[r]}
    /\ UNCHANGED <<main, made, keyOn, addresses, session, idx, told>>

DhcpOk(a) ==
    /\ ip' = a
    /\ moved' = (moved \/ main \in {"mqtt", "store", "run"})
    /\ UNCHANGED <<main, panel, updateFlg, deviceIp, session, reports>>

-----------------------------------------------------------------------------
(* The MQTT thread                                                         *)

AnnounceNoTopic(ok) == topics
(* Announcing a component gives it its state topic.                        *)
Announce(ok) == topics \/ ok

(* Connected, the thread subscribes and, if that succeeds, announces.      *)
(* Both need the handle.                                                   *)
Connect(ok) ==
    /\ thread = "connect"
    /\ ip # NoAddress
    /\ ok => client
    /\ topics' = Announce(ok)
    /\ announced' = IF ok THEN deviceIp ELSE announced
    /\ subscribed' = (subscribed \/ ok)
    /\ thread' = "loop"
    /\ UNCHANGED <<main, panel, updateFlg, addresses, client, reports>>

(* MQTT_EARTBEAT with the flag up.                                         *)
SweepStart ==
    /\ thread = "loop"
    /\ updateFlg
    /\ thread' = "sweep"
    /\ idx' = 0
    /\ UNCHANGED <<main, panel, updateFlg, addresses, client, topics, announced, subscribed,
                   told, doubtful>>

(* One turn of the sweep, to the state topic as it is, the result ignored. *)
SweepPublish(delivered) ==
    /\ thread = "sweep"
    /\ idx < NRelays
    /\ told' = IF topics /\ client /\ delivered THEN [told EXCEPT ![idx] = status[idx]] ELSE told
    /\ doubtful' = IF subscribed /\ delivered THEN doubtful \ {idx} ELSE doubtful \cup {idx}
    /\ idx' = idx + 1
    /\ UNCHANGED <<main, panel, updateFlg, addresses, session>>

(* The flag goes down, whoever raised it.                                  *)
SweepClear ==
    /\ thread = "sweep"
    /\ idx = NRelays
    /\ updateFlg' = FALSE
    /\ thread' = "loop"
    /\ UNCHANGED <<main, panel, addresses, client, topics, announced, subscribed, reports>>

Disconnect ==
    /\ thread = "loop"
    /\ thread' = "connect"
    /\ UNCHANGED <<main, panel, updateFlg, addresses, client, topics, announced, subscribed, reports>>

Starting ==
    \/ Blink \/ AllOpen \/ KeyInit \/ RelayCreate \/ ReadConfigure
    \/ DeviceCreate \/ MqttCreate \/ StoreClient

MqttThread ==
    \/ SweepStart \/ SweepClear \/ Disconnect
    \/ \E ok \in BOOLEAN : Connect(ok) \/ SweepPublish(ok)

KeyPress == \E failed \in SUBSET (FaultyRelays \cap Made) : KeyShortPress(failed)

Next ==
    \/ Starting
    \/ MqttThread
    \/ KeyPress
    \/ \E a \in Address : DhcpOk(a)

Spec == Init /\ [][Next]_vars

-----------------------------------------------------------------------------
Maybe == Address \cup {NoAddress}

(* The variables keep their types; relays are created at most once each.   *)
TypeOK ==
    /\ main \in {"blink", "allset", "key", "relays", "device", "mqtt", "store", "run"}
    /\ made \in 0 .. NRelays
    /\ status \in [Relay -> Status]
    /\ keyOn \in BOOLEAN
    /\ allStatus \in Status
    /\ updateFlg \in BOOLEAN
    /\ ip \in Maybe
    /\ deviceIp \in Maybe
    /\ client \in BOOLEAN
    /\ thread \in {"none", "connect", "loop", "sweep"}
    /\ idx \in 0 .. NRelays
    /\ topics \in BOOLEAN
    /\ announced \in Maybe
    /\ told \in [Relay -> Status]
    /\ reached \in 0 .. made
    /\ spared \subseteq Relay
    /\ moved \in BOOLEAN
    /\ subscribed \in BOOLEAN
    /\ doubtful \subseteq Relay

(* The key remembers what the relays are (user_key.c:40) only for those    *)
(* that existed when it was pressed last (user_init.c:117 enables it       *)
(* before :119 creates them) and whose GPIO call succeeded then, which the *)
(* key does not ask (relay.c:51-55): the others that have come since are   *)
(* closed, whatever it remembers, and the "open" of app_main.c:350 has     *)
(* reached none.                                                           *)
KeyReachedMade ==
    \A r \in Made \ spared : status[r] = IF r < reached THEN allStatus ELSE CLOSE

(* Whatever happened to the relays during the start is reported: once      *)
(* app_main has set the flag (app_main.c:350), a lowered flag means that   *)
(* the broker has every status, except of a relay whose last message got   *)
(* lost, was sent with no state topic to send it to, for no subscription   *)
(* had succeeded yet (hass_mqtt_discovery.c:95), or was overtaken by a     *)
(* press whose flag the same sweep took down (user_mqtt.c:140-144).        *)
StartReported ==
    main \notin {"blink", "allset"} /\ ~updateFlg /\ thread # "sweep" =>
        \A r \in Relay \ doubtful : told[r] = status[r]

(* An announcement names the address the strip has, unless DHCP came after *)
(* hass_device_create had made its copy (hass_device.c:56), which no later *)
(* user_ip_set reaches (user_init.c:35).                                   *)
AddressAnnounced ==
    subscribed /\ ~moved => announced = ip

(* Seen from outside the start is Panel with nobody asking: sockets not    *)
(* yet created are closed and out of the key's reach, creating one         *)
(* switches nothing, and app_main's "all open" (app_main.c:350) opens none *)
(* (user_key.c:39-47, relay.c:23-30).                                      *)
P == INSTANCE Panel WITH Socket <- Relay, Off <- CLOSE, On <- OPEN,
                         outlet <- status, mode <- allStatus, request <- {}
ImplementsPanel == P!PanelSpec
=============================================================================

--------------------------- MODULE RelayBoardPanel ---------------------------
(***************************************************************************)
(* The relay board implements Panel.  A socket is on when its pin drives   *)
(* the relay, whatever the status field says; the mode is                  *)
(* _relay_all_status; a command is a request until relay_states_set has    *)
(* called the GPIO.                                                        *)
(***************************************************************************)
EXTENDS RelayBoard

Outlet == [r \in Relay |-> IF pin[r] = RelayLevel(OPEN) THEN OPEN ELSE CLOSE]

Request == IF pc = "gpio" THEN {<<cmd.id, Wanted(cmd.state)>>} ELSE {}

P == INSTANCE Panel WITH Socket <- Relay, Off <- CLOSE, On <- OPEN,
                         outlet <- Outlet, mode <- allStatus, request <- Request

(* relay.c, user_relay.c and user_key.c switch the pins as Panel promises: *)
(* a pin changes only for a command for that relay or for the key, and     *)
(* presses alternate.                                                      *)
ImplementsPanel == P!PanelSpec

(* The same, and mqtt_cmd_topic_Msg_cb answers each command it took.       *)
ImplementsFairPanel == P!PanelFairSpec

(* A callback that has started ends: the scan and both drivers finish      *)
(* however many presses interrupt them (user_mqtt.c:70-110).               *)
CallbackEnds == (pc \notin {"offline", "loop", "sweep", "yield"}) ~> (pc = "yield")

(* A raised flag leads to the end of a sweep over all relays, whatever the *)
(* key and the broker do meanwhile; it may be one that had begun before    *)
(* and has passed the relay concerned (user_mqtt.c:137-146).               *)
FlagServed == updateFlg ~> (pc = "sweep" /\ idx = NRelays)

(* How many steps the MQTT thread takes at most until it waits again, in   *)
(* MQTTYield or for a connection.                                          *)
StepsLeft ==
    [offline |-> 0, yield |-> 0,
     loop |-> NRelays + 2, sweep |-> NRelays - idx + 1,
     gpio |-> NRelays + 7, status |-> NRelays + 6, scan |-> NRelays - idx + 5,
     ledtest |-> 4, ledgpio |-> 3, ledstatus |-> 2, echo |-> 1][pc]

(* A sweep and a callback come to their end in that many steps of their    *)
(* own: each brings it nearer, also when a call fails, and a press between *)
(* two of them, which writes all they read, does not put it off            *)
(* (user_mqtt.c:70-110, 137-146, user_relay.c:30-39).                      *)
ThreadProgress ==
    [][StepsLeft > 0 =>
         \/ StepsLeft' < StepsLeft
         \/ StepsLeft' = StepsLeft /\ allStatus' # allStatus]_vars
=============================================================================

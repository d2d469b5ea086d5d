----------------------------- MODULE RelayBoard -----------------------------
(***************************************************************************)
(* The switching core of the TC1 power strip: the relay and LED drivers    *)
(* (relay.c, led.c, gpio.c), the panel helpers (user_relay.c, user_led.c), *)
(* the short press of the key (user_key.c) and the part of the MQTT        *)
(* thread that reads and writes them (user_mqtt.c).                        *)
(*                                                                         *)
(* Two actors share the state.  The key interrupt runs to completion on    *)
(* the only core: one atomic action.  The MQTT thread is preempted between *)
(* any two accesses, so each access that an interrupt can tell apart is a  *)
(* step of its own, and pc says which step comes next.  Publishing a       *)
(* status reads it and hands it to the transport at once: an interrupt     *)
(* between the two is the interrupt after both.                            *)
(***************************************************************************)
EXTENDS Integers

CONSTANTS
    NRelays,       \* number of sockets; 6 in the code
    FaultyRelays,  \* relays whose GPIO call may return something else than HF_SUCCESS
    FaultyLed,     \* whether the LED's GPIO call may
    MayLose        \* whether a state message may fail to reach the broker

ASSUME BoardAssumption ==
    /\ NRelays \in Nat \ {0}
    /\ FaultyRelays \subseteq 0 .. NRelays - 1
    /\ FaultyLed \in BOOLEAN
    /\ MayLose \in BOOLEAN

Relay == 0 .. NRelays - 1

CLOSE == 0          \* RELAY_STATUS_CLOSE, LED_STATUS_OFF
OPEN  == 1          \* RELAY_STATUS_OPEN,  LED_STATUS_ON
Status == {CLOSE, OPEN}

LOW  == 0
HIGH == 1
UNDRIVEN == 2       \* not written since reset: the pull resistor decides
Pin == {LOW, HIGH, UNDRIVEN}

(* The fates of a state message: true when it reaches the broker.          *)
Delivery == {TRUE, ~MayLose}

(* What a set message or a state message says.  "other" is any payload     *)
(* that is neither ON nor OFF.                                             *)
Payload == {"ON", "OFF", "other"}

VARIABLES
    pin,        \* level of each relay's GPIO
    status,     \* relay_device_t.status of each relay
    ledPin,     \* level of the LED's GPIO
    ledStatus,  \* led_device_t.status
    allStatus,  \* _relay_all_status
    updateFlg,  \* relay_update_flg
    pc,         \* next step of the MQTT thread
    cmd,        \* the message mqtt_cmd_topic_Msg_cb is handling
    idx,        \* loop counter of the heartbeat sweep and of the LED scan
    ledArg,     \* argument of the led_status_set call under way
    view        \* last state of each relay that reached the broker

panel  == <<pin, status, ledPin, ledStatus, allStatus>>
thread == <<pc, cmd, idx, ledArg>>
vars   == <<pin, status, ledPin, ledStatus, allStatus, updateFlg,
            pc, cmd, idx, ledArg, view>>

(***************************************************************************)
(* relay_states_set and led_status_set drive (1 & status) ^ !trigger: high *)
(* exactly when status and trigger are the same bit.  Relays trigger on    *)
(* LOW (user_relay_init), the LED on HIGH (user_led_init).                 *)
(***************************************************************************)
Level(s, trigger) == IF s = trigger THEN HIGH ELSE LOW
RelayLevel(s) == Level(s, LOW)
LedLevel(s)   == Level(s, HIGH)

(* hassRelayState[]: what a sweep publishes for a status.                  *)
Name(s) == IF s = OPEN THEN "ON" ELSE "OFF"

(* The status a set message asks for.                                      *)
Wanted(payload) == IF payload = "ON" THEN OPEN ELSE CLOSE

BootState ==
    /\ pin = [r \in Relay |-> UNDRIVEN]
    /\ status = [r \in Relay |-> CLOSE]
    /\ ledPin = UNDRIVEN
    /\ ledStatus = CLOSE
    /\ allStatus = CLOSE
    /\ updateFlg = TRUE        \* app_main has called user_relay_aLL_set
    /\ pc = "offline"
    /\ cmd = [id |-> 0, state |-> "other"]
    /\ idx = 0
    /\ ledArg = CLOSE

(* The strip has booted; the broker may remember anything about it.        *)
Init == BootState /\ view \in [Relay -> Payload]

-----------------------------------------------------------------------------
(* The key interrupt                                                       *)

AllSetNoStatus(s, failed) ==
    /\ pin' = [r \in Relay |-> IF r \in failed THEN pin[r] ELSE RelayLevel(s)]
    /\ status' = status
    /\ updateFlg' = TRUE

AllSetNoFlag(s, failed) ==
    /\ pin' = [r \in Relay |-> IF r \in failed THEN pin[r] ELSE RelayLevel(s)]
    /\ status' = [r \in Relay |-> IF r \in failed THEN status[r] ELSE s]
    /\ updateFlg' = updateFlg

(* user_relay_aLL_set: each relay whose GPIO call succeeds takes status s, *)
(* and the flag goes up.  (The two definitions above, like every operator  *)
(* of this module that no other uses, are faulty variants: each property   *)
(* is known to fail for one of them.)                                      *)
AllSet(s, failed) ==
    /\ pin' = [r \in Relay |-> IF r \in failed THEN pin[r] ELSE RelayLevel(s)]
    /\ status' = [r \in Relay |-> IF r \in failed THEN status[r] ELSE s]
    /\ updateFlg' = TRUE

(* led_status_set run in one go, by the interrupt.                         *)
LedSet(s, ok) ==
    /\ ledPin' = IF ok THEN LedLevel(s) ELSE ledPin
    /\ ledStatus' = IF ok THEN s ELSE ledStatus

(* The status the next press gives every relay.                            *)
NextAllIncrement == allStatus + 1
NextAllOpen == OPEN
NextAll == IF allStatus = CLOSE THEN OPEN ELSE CLOSE

KeyShortPressShares(failed, ledOk) ==
    /\ AllSet(NextAll, failed)
    /\ LedSet(NextAll, ledOk)
    /\ allStatus' = NextAll
    /\ idx' = 0
    /\ UNCHANGED <<pc, cmd, ledArg, view>>

(* interrupt_handler, release edge after 30..999 ms.                       *)
KeyShortPress(failed, ledOk) ==
    /\ AllSet(NextAll, failed)
    /\ LedSet(NextAll, ledOk)
    /\ allStatus' = NextAll
    /\ UNCHANGED <<thread, view>>

-----------------------------------------------------------------------------
(* The MQTT thread: session and heartbeat                                  *)

(* A session is up (mqtt.c reached its inner loop).                        *)
Connected ==
    /\ pc = "offline"
    /\ pc' = "loop"
    /\ UNCHANGED <<panel, updateFlg, cmd, idx, ledArg, view>>

HeartbeatInverted ==
    /\ pc = "loop"
    /\ pc' = IF updateFlg THEN "yield" ELSE "sweep"
    /\ idx' = 0
    /\ UNCHANGED <<panel, updateFlg, cmd, ledArg, view>>

(* MQTT_EARTBEAT: start a sweep when the flag is up.                       *)
Heartbeat ==
    /\ pc = "loop"
    /\ pc' = IF updateFlg THEN "sweep" ELSE "yield"
    /\ idx' = 0
    /\ UNCHANGED <<panel, updateFlg, cmd, ledArg, view>>

(* One turn of the sweep.  The result of mqtt_state_publish is ignored,    *)
(* and a QoS 0 message that was accepted may still get lost.               *)
SweepPublish(delivered) ==
    /\ pc = "sweep"
    /\ idx < NRelays
    /\ view' = IF delivered THEN [view EXCEPT ![idx] = Name(status[idx])] ELSE view
    /\ idx' = idx + 1
    /\ UNCHANGED <<panel, updateFlg, pc, cmd, ledArg>>

(* relay_update_flg = false, whatever happened since it was read.          *)
SweepClear ==
    /\ pc = "sweep"
    /\ idx = NRelays
    /\ updateFlg' = FALSE
    /\ pc' = "yield"
    /\ UNCHANGED <<panel, cmd, idx, ledArg, view>>

(* MQTTYield returns; the loop goes on or the session ends.                *)
YieldReturns ==
    /\ pc = "yield"
    /\ pc' = "loop"
    /\ UNCHANGED <<panel, updateFlg, cmd, idx, ledArg, view>>

Disconnected ==
    /\ pc = "yield"
    /\ pc' = "offline"
    /\ UNCHANGED <<panel, updateFlg, cmd, idx, ledArg, view>>

-----------------------------------------------------------------------------
(* The MQTT thread: mqtt_cmd_topic_Msg_cb, called from MQTTYield.          *)

(* A message for relay r; messages for other ids leave this state alone.   *)
CmdReceive(r, payload) ==
    /\ pc = "yield"
    /\ cmd' = [id |-> r, state |-> payload]
    /\ pc' = IF payload = "other" THEN "echo" ELSE "gpio"
    /\ UNCHANGED <<panel, updateFlg, idx, ledArg, view>>

AfterRelaySetNoScan == IF cmd.state = "ON" THEN "ledtest" ELSE "echo"

(* Where the callback goes on after user_relay_states_set.                 *)
AfterRelaySet == IF cmd.state = "ON" THEN "ledtest" ELSE "scan"

CmdGpioWaits ==
    /\ pc = "gpio"
    /\ pin[cmd.id] # RelayLevel(Wanted(cmd.state))
    /\ pin' = [pin EXCEPT ![cmd.id] = RelayLevel(Wanted(cmd.state))]
    /\ pc' = "status"
    /\ UNCHANGED <<status, ledPin, ledStatus, allStatus, updateFlg,
                   cmd, idx, ledArg, view>>

(* relay_states_set, the GPIO call and its failure.                        *)
CmdGpio ==
    /\ pc = "gpio"
    /\ pin' = [pin EXCEPT ![cmd.id] = RelayLevel(Wanted(cmd.state))]
    /\ pc' = "status"
    /\ UNCHANGED <<status, ledPin, ledStatus, allStatus, updateFlg,
                   cmd, idx, ledArg, view>>

CmdGpioFails ==
    /\ pc = "gpio"
    /\ cmd.id \in FaultyRelays
    /\ pc' = AfterRelaySet
    /\ idx' = 0
    /\ ledArg' = OPEN
    /\ UNCHANGED <<panel, updateFlg, cmd, view>>

(* relay->status = status.                                                 *)
CmdStatus ==
    /\ pc = "status"
    /\ status' = [status EXCEPT ![cmd.id] = Wanted(cmd.state)]
    /\ pc' = AfterRelaySet
    /\ idx' = 0
    /\ ledArg' = OPEN
    /\ UNCHANGED <<pin, ledPin, ledStatus, allStatus, updateFlg, cmd, view>>

CmdScanStuck ==
    /\ pc = "scan"
    /\ idx < NRelays
    /\ IF status[idx] = OPEN
       THEN pc' = "ledtest" /\ idx' = idx
       ELSE pc' = pc /\ idx' = idx
    /\ UNCHANGED <<panel, updateFlg, cmd, ledArg, view>>

(* user_relay_led_state: one relay per step, then LED off.                 *)
CmdScan ==
    /\ pc = "scan"
    /\ idx < NRelays
    /\ IF status[idx] = OPEN
       THEN pc' = "ledtest" /\ idx' = idx
       ELSE pc' = pc /\ idx' = idx + 1
    /\ UNCHANGED <<panel, updateFlg, cmd, ledArg, view>>

CmdScanEnds ==
    /\ pc = "scan"
    /\ idx = NRelays
    /\ pc' = "ledgpio"
    /\ ledArg' = CLOSE
    /\ UNCHANGED <<panel, updateFlg, cmd, idx, view>>

(* if (user_led_states_get() == LED_STATUS_OFF) user_led_on().             *)
CmdLedTest ==
    /\ pc = "ledtest"
    /\ pc' = IF ledStatus = CLOSE THEN "ledgpio" ELSE "echo"
    /\ UNCHANGED <<panel, updateFlg, cmd, idx, ledArg, view>>

(* led_status_set, the GPIO call, its failure, and led->status = status.   *)
CmdLedGpio ==
    /\ pc = "ledgpio"
    /\ ledPin' = LedLevel(ledArg)
    /\ pc' = "ledstatus"
    /\ UNCHANGED <<pin, status, ledStatus, allStatus, updateFlg,
                   cmd, idx, ledArg, view>>

CmdLedGpioFails ==
    /\ pc = "ledgpio"
    /\ FaultyLed
    /\ pc' = "echo"
    /\ UNCHANGED <<panel, updateFlg, cmd, idx, ledArg, view>>

CmdLedStatus ==
    /\ pc = "ledstatus"
    /\ ledStatus' = ledArg
    /\ pc' = "echo"
    /\ UNCHANGED <<pin, status, ledPin, allStatus, updateFlg,
                   cmd, idx, ledArg, view>>

(* mqtt_state_publish(id, state): the payload itself is echoed.            *)
CmdEcho(delivered) ==
    /\ pc = "echo"
    /\ view' = IF delivered THEN [view EXCEPT ![cmd.id] = cmd.state] ELSE view
    /\ pc' = "yield"
    /\ UNCHANGED <<panel, updateFlg, cmd, idx, ledArg>>

-----------------------------------------------------------------------------
(* Power loss, or the soft restart of hfsmtlk_start after a long press.    *)
Restart ==
    /\ pin' = [r \in Relay |-> UNDRIVEN]
    /\ status' = [r \in Relay |-> CLOSE]
    /\ ledPin' = UNDRIVEN
    /\ ledStatus' = CLOSE
    /\ allStatus' = CLOSE
    /\ updateFlg' = TRUE
    /\ pc' = "offline"
    /\ cmd' = [id |-> 0, state |-> "other"]
    /\ idx' = 0
    /\ ledArg' = CLOSE
    /\ UNCHANGED view

KeyPress == \E failed \in SUBSET FaultyRelays, ledOk \in {TRUE, ~FaultyLed} :
                KeyShortPress(failed, ledOk)

(* The steps the MQTT thread takes on its own: they call nothing that      *)
(* blocks longer than a command timeout.                                   *)
Callback ==
    \/ CmdGpio \/ CmdGpioFails \/ CmdStatus
    \/ CmdScan \/ CmdScanEnds \/ CmdLedTest
    \/ CmdLedGpio \/ CmdLedGpioFails \/ CmdLedStatus
    \/ \E delivered \in Delivery : CmdEcho(delivered)

Sweep ==
    \/ Heartbeat
    \/ \E delivered \in Delivery : SweepPublish(delivered)
    \/ SweepClear

Receive == \E r \in Relay, payload \in Payload : CmdReceive(r, payload)

MqttThread ==
    \/ Connected \/ Disconnected \/ YieldReturns
    \/ Receive \/ Sweep \/ Callback

(* Steps at which the callback still has to decide on or set the LED.      *)
LedWork == {"gpio", "status", "ledtest", "scan", "ledgpio", "ledstatus"}

TypeOK ==
    /\ pin \in [Relay -> Pin]
    /\ status \in [Relay -> Status]
    /\ ledPin \in Pin
    /\ ledStatus \in Status
    /\ allStatus \in Status
    /\ updateFlg \in BOOLEAN
    /\ pc \in {"offline", "loop", "sweep", "yield", "echo"} \cup LedWork
    /\ cmd \in [id : Relay, state : Payload]
    /\ idx \in 0 .. NRelays
    /\ ledArg \in Status
    /\ view \in [Relay -> Payload]
    /\ (pc \in LedWork => cmd.state \in {"ON", "OFF"})
    /\ (pc \in {"scan", "ledtest"} => ledArg = OPEN)

Next == KeyPress \/ MqttThread \/ Restart

Spec == Init /\ [][Next]_vars

(***************************************************************************)
(* Fairness.  The thread is scheduled for ever, publishes and GPIO calls   *)
(* return, MQTTYield comes back after 300 ms however many messages it      *)
(* handled (strong: each message takes it out of "yield" for a while), and *)
(* a lost session is eventually set up again.  Nothing is assumed of the   *)
(* key or of messages.  A restart begins the run anew, so what must happen *)
(* is asked of runs without one.                                           *)
(***************************************************************************)
Fairness ==
    /\ WF_vars(Callback)
    /\ WF_vars(Sweep)
    /\ WF_vars(Connected)
    /\ SF_vars(YieldReturns \/ Disconnected)

FairSpec == Init /\ [][KeyPress \/ MqttThread]_vars /\ Fairness
=============================================================================

--------------------------- MODULE RelayBoardHist ---------------------------
(***************************************************************************)
(* RelayBoard with history variables.  The board promises its user three   *)
(* agreements: each driver's status field with its pin, the LED with the   *)
(* relays, the broker's picture with the relays.  None of them holds of    *)
(* every state, because the key interrupt may land inside the MQTT         *)
(* thread's work and calls may fail.  The history variables record the     *)
(* causes, and the invariants say that nothing else can break the          *)
(* agreements.                                                             *)
(***************************************************************************)
EXTENDS RelayBoard

VARIABLES
    torn,       \* relays: a press landed between their pin and status writes
    ledTorn,    \* the same for the LED
    ledStale,   \* the LED was decided upon while a press or a failure intervened
    refused,    \* the GPIO call of the command being handled failed
    doubtful,   \* relays whose state message may be missing or wrong
    commanded   \* relays whose status is not the work of the last press

history == <<torn, ledTorn, ledStale, refused, doubtful, commanded>>
hvars == <<vars, history>>

HInit ==
    /\ Init
    /\ torn = {} /\ ledTorn = FALSE /\ ledStale = FALSE
    /\ refused = FALSE /\ doubtful = {} /\ commanded = {}

(* Relays the sweep under way has already published.                       *)
Swept == IF pc = "sweep" THEN 0 .. idx - 1 ELSE {}

HKeyShortPress(failed, ledOk) ==
    /\ KeyShortPress(failed, ledOk)
    /\ torn' = (torn \cap failed) \cup
               (IF pc = "status" THEN {cmd.id} \ failed ELSE {})
    /\ ledTorn' = IF ledOk THEN pc = "ledstatus" ELSE ledTorn
    /\ ledStale' = (pc \in LedWork \/ failed # {} \/ ~ledOk)
    /\ doubtful' = doubtful \cup {r \in Swept : status'[r] # status[r]}
    /\ commanded' = failed
    /\ UNCHANGED refused

HSweepPublish(delivered) ==
    /\ SweepPublish(delivered)
    /\ doubtful' = IF delivered THEN doubtful \ {idx} ELSE doubtful \cup {idx}
    /\ UNCHANGED <<torn, ledTorn, ledStale, refused, commanded>>

HCmdReceive(r, payload) ==
    /\ CmdReceive(r, payload)
    /\ refused' = FALSE
    /\ ledStale' = (ledStale /\ payload = "other")
    /\ UNCHANGED <<torn, ledTorn, doubtful, commanded>>

HCmdGpio ==
    /\ CmdGpio
    /\ torn' = torn \ {cmd.id}
    /\ UNCHANGED <<ledTorn, ledStale, refused, doubtful, commanded>>

HCmdGpioFails ==
    /\ CmdGpioFails
    /\ refused' = TRUE
    /\ ledStale' = (ledStale \/ cmd.state = "ON")
    /\ UNCHANGED <<torn, ledTorn, doubtful, commanded>>

HCmdStatus ==
    /\ CmdStatus
    /\ commanded' = commanded \cup {cmd.id}
    /\ UNCHANGED <<torn, ledTorn, ledStale, refused, doubtful>>

HCmdLedGpio ==
    /\ CmdLedGpio
    /\ ledTorn' = FALSE
    /\ UNCHANGED <<torn, ledStale, refused, doubtful, commanded>>

HCmdLedGpioFails ==
    /\ CmdLedGpioFails
    /\ ledStale' = TRUE
    /\ UNCHANGED <<torn, ledTorn, refused, doubtful, commanded>>

HCmdEcho(delivered) ==
    /\ CmdEcho(delivered)
    /\ doubtful' = IF delivered /\ ~refused /\ cmd.state # "other"
                   THEN doubtful \ {cmd.id} ELSE doubtful \cup {cmd.id}
    /\ UNCHANGED <<torn, ledTorn, ledStale, refused, commanded>>

HRestart ==
    /\ Restart
    /\ torn' = {} /\ ledTorn' = FALSE /\ ledStale' = FALSE
    /\ refused' = FALSE /\ doubtful' = {} /\ commanded' = {}

(* Steps that leave the history alone.                                     *)
HQuiet ==
    /\ \/ Connected \/ Disconnected \/ YieldReturns
       \/ Heartbeat \/ SweepClear
       \/ CmdScan \/ CmdScanEnds \/ CmdLedTest \/ CmdLedStatus
    /\ UNCHANGED history

HNext ==
    \/ \E failed \in SUBSET FaultyRelays, ledOk \in {TRUE, ~FaultyLed} :
            HKeyShortPress(failed, ledOk)
    \/ \E delivered \in Delivery : HSweepPublish(delivered)
    \/ \E r \in Relay, payload \in Payload : HCmdReceive(r, payload)
    \/ HCmdGpio \/ HCmdGpioFails \/ HCmdStatus
    \/ HCmdLedGpio \/ HCmdLedGpioFails
    \/ \E delivered \in Delivery : HCmdEcho(delivered)
    \/ HQuiet
    \/ HRestart

HSpec == HInit /\ [][HNext]_hvars

-----------------------------------------------------------------------------
(* Properties                                                              *)

HTypeOK ==
    /\ TypeOK
    /\ torn \subseteq Relay /\ doubtful \subseteq Relay /\ commanded \subseteq Relay
    /\ ledTorn \in BOOLEAN /\ ledStale \in BOOLEAN /\ refused \in BOOLEAN

(* Pins and statuses that agree; a pin no one has written yet goes with    *)
(* the status relay_create and led_create start from.                      *)
RelayAgrees(r) == pin[r] = RelayLevel(status[r])
                  \/ (pin[r] = UNDRIVEN /\ status[r] = CLOSE)
LedAgrees == ledPin = LedLevel(ledStatus)
             \/ (ledPin = UNDRIVEN /\ ledStatus = CLOSE)

(* relay_states_get and led_states_get tell what the pins drive, for every *)
(* device whose two writes no press has split (relay.c:51-52, led.c:53-59).*)
StatusFaithful ==
    /\ \A r \in Relay :
          (r \notin torn /\ ~(pc = "status" /\ cmd.id = r)) => RelayAgrees(r)
    /\ (~ledTorn /\ pc # "ledstatus") => LedAgrees

(* Some relay is reported open.                                            *)
SomeOpen == \E r \in Relay : status[r] = OPEN

(* Once the callback is done with the LED, it is on exactly when a relay   *)
(* is open (user_relay_led_state and user_mqtt.c:88-96), unless a press    *)
(* fell into that work or a GPIO call failed.                              *)
LedShowsRelays ==
    (pc \notin LedWork /\ ~ledStale) => (ledStatus = OPEN <=> SomeOpen)

(* With no update pending and no publishing under way, the broker's last   *)
(* state message of every relay is its status, except for the relays whose *)
(* last message was lost, carried a refused or unknown command, or was     *)
(* overtaken by a press during the sweep (user_mqtt.c:97 and 137-146).     *)
BrokerKnows ==
    (pc \in {"offline", "loop", "yield"} /\ ~updateFlg) =>
        \A r \in Relay \ doubtful : view[r] = Name(status[r])

(* The next press acts on _relay_all_status: every relay is in that state  *)
(* unless a command has set it since the last press, or its GPIO call      *)
(* failed then (user_key.c:39-47).                                         *)
PressBaseline ==
    \A r \in Relay \ commanded : status[r] = allStatus

-----------------------------------------------------------------------------
(* Inductive strengthenings.  In the middle of a two-step write the        *)
(* invariants say what the first step has done and the second will do.     *)

FaithfulInv ==
    /\ \A r \in Relay : r \notin torn =>
          IF pc = "status" /\ cmd.id = r
          THEN pin[r] = RelayLevel(Wanted(cmd.state))
          ELSE RelayAgrees(r)
    /\ ~ledTorn => IF pc = "ledstatus" THEN ledPin = LedLevel(ledArg) ELSE LedAgrees

LedInv ==
    ~ledStale =>
        /\ pc \notin LedWork => (ledStatus = OPEN <=> SomeOpen)
        /\ pc = "ledtest" => SomeOpen
        /\ pc = "scan" => \A r \in Relay : r < idx => status[r] = CLOSE
        /\ pc \in {"ledgpio", "ledstatus"} => (ledArg = OPEN <=> SomeOpen)

(* The callback is past relay_states_set: its echo is still to come.       *)
EchoDue == pc \in {"ledtest", "scan", "ledgpio", "ledstatus", "echo"}

BrokerInv ==
    /\ (pc # "sweep" /\ ~updateFlg) =>
          \A r \in Relay \ doubtful :
              (EchoDue /\ r = cmd.id) \/ view[r] = Name(status[r])
    /\ (EchoDue /\ ~updateFlg /\ ~refused /\ cmd.state # "other") =>
          Name(status[cmd.id]) = cmd.state
    /\ pc = "sweep" =>
          \A r \in Relay \ doubtful : r < idx => view[r] = Name(status[r])

=============================================================================

------------------------ MODULE RelayBoardHistProofs ------------------------
(***************************************************************************)
(* The invariants of RelayBoardHist, for every number of relays and every  *)
(* choice of the calls that may fail.  Each is proved inductive on its own *)
(* over HTypeOK: FaithfulInv, LedInv, BrokerInv and PressBaseline share no *)
(* argument but types.                                                     *)
(***************************************************************************)
EXTENDS RelayBoardHist, RelayBoardProofs

USE DEF CLOSE, OPEN, Status, LOW, HIGH, UNDRIVEN, Pin, Payload, LedWork

-----------------------------------------------------------------------------
(* Type correctness: each step with history is a step of the board.        *)

LEMMA HStepIsStep == [HNext]_hvars => [Next]_vars
<1> SUFFICES ASSUME [HNext]_hvars PROVE [Next]_vars
    OBVIOUS
<1>1. ASSUME NEW failed \in SUBSET FaultyRelays, NEW ledOk \in {TRUE, ~FaultyLed},
             HKeyShortPress(failed, ledOk)
      PROVE  Next
    BY <1>1 DEF HKeyShortPress, Next, KeyPress
<1>2. ASSUME NEW delivered \in Delivery, HSweepPublish(delivered)
      PROVE  Next
    BY <1>2 DEF HSweepPublish, Next, MqttThread, Sweep
<1>3. ASSUME NEW r \in Relay, NEW payload \in Payload, HCmdReceive(r, payload)
      PROVE  Next
    BY <1>3 DEF HCmdReceive, Next, MqttThread, Receive
<1>4. CASE HCmdGpio \/ HCmdGpioFails \/ HCmdStatus \/ HCmdLedGpio \/ HCmdLedGpioFails
    BY <1>4 DEF HCmdGpio, HCmdGpioFails, HCmdStatus, HCmdLedGpio, HCmdLedGpioFails,
                Next, MqttThread, Callback
<1>5. ASSUME NEW delivered \in Delivery, HCmdEcho(delivered)
      PROVE  Next
    BY <1>5 DEF HCmdEcho, Next, MqttThread, Callback
<1>6. CASE HQuiet
    BY <1>6 DEF HQuiet, Next, MqttThread, Sweep, Callback
<1>7. CASE HRestart
    BY <1>7 DEF HRestart, Next
<1>8. CASE UNCHANGED hvars
    BY <1>8 DEF hvars
<1> QED
    BY <1>1, <1>2, <1>3, <1>4, <1>5, <1>6, <1>7, <1>8 DEF HNext

LEMMA HTypeInit == HInit => HTypeOK
BY TypeInit DEF HInit, HTypeOK

LEMMA HTypeStep == HTypeOK /\ [HNext]_hvars => HTypeOK'
<1> SUFFICES ASSUME HTypeOK, [HNext]_hvars PROVE HTypeOK'
    OBVIOUS
<1>1. TypeOK'
    BY TypeStep, HStepIsStep DEF HTypeOK
<1> USE <1>1, RelayFacts DEF HTypeOK
<1>2. ASSUME NEW failed \in SUBSET FaultyRelays, NEW ledOk \in {TRUE, ~FaultyLed},
             HKeyShortPress(failed, ledOk)
      PROVE  HTypeOK'
    <2>1. cmd.id \in Relay
        BY DEF TypeOK
    <2>2. Swept \subseteq Relay
        BY DEF Swept, TypeOK
    <2>3. torn' \subseteq Relay /\ doubtful' \subseteq Relay /\ commanded' \subseteq Relay
        BY <1>2, <2>1, <2>2 DEF HKeyShortPress
    <2> QED
        BY <1>2, <2>3 DEF HKeyShortPress
<1>3. ASSUME NEW delivered \in Delivery, HSweepPublish(delivered) \/ HCmdEcho(delivered)
      PROVE  HTypeOK'
    <2>1. HSweepPublish(delivered) => idx \in Relay
        BY DEF HSweepPublish, SweepPublish, TypeOK
    <2>2. cmd.id \in Relay
        BY DEF TypeOK
    <2> QED
        BY <1>3, <2>1, <2>2 DEF HSweepPublish, HCmdEcho
<1>4. ASSUME NEW r \in Relay, NEW payload \in Payload, HCmdReceive(r, payload)
      PROVE  HTypeOK'
    BY <1>4 DEF HCmdReceive
<1>5. CASE HCmdGpio \/ HCmdGpioFails \/ HCmdLedGpio \/ HCmdLedGpioFails
    BY <1>5 DEF HCmdGpio, HCmdGpioFails, HCmdLedGpio, HCmdLedGpioFails
<1>6. CASE HCmdStatus
    <2>1. cmd.id \in Relay
        BY DEF TypeOK
    <2> QED
        BY <1>6, <2>1 DEF HCmdStatus
<1>7. CASE HQuiet
    BY <1>7 DEF HQuiet, history
<1>8. CASE HRestart
    BY <1>8 DEF HRestart
<1>9. CASE UNCHANGED hvars
    BY <1>9 DEF hvars, history
<1> HIDE <1>1, RelayFacts DEF HTypeOK
<1> QED
    BY <1>2, <1>3, <1>4, <1>5, <1>6, <1>7, <1>8, <1>9 DEF HNext

(* The history variables and the board keep their types.                   *)
THEOREM HTypeCorrect == HSpec => []HTypeOK
BY HTypeInit, HTypeStep, PTL DEF HSpec

-----------------------------------------------------------------------------
(* Pins and statuses.  Only six actions touch what FaithfulInv speaks of.  *)

LEMMA FaithfulInit == HInit => FaithfulInv
BY DEF HInit, Init, BootState, FaithfulInv, RelayAgrees, LedAgrees

LEMMA FaithfulStep == HTypeOK /\ FaithfulInv /\ [HNext]_hvars => FaithfulInv'
<1> SUFFICES ASSUME HTypeOK, FaithfulInv, [HNext]_hvars PROVE FaithfulInv'
    OBVIOUS
<1> USE DEF FaithfulInv, RelayAgrees, LedAgrees
<1>1. ASSUME NEW failed \in SUBSET FaultyRelays, NEW ledOk \in {TRUE, ~FaultyLed},
             HKeyShortPress(failed, ledOk)
      PROVE  FaithfulInv'
    <2>1. ASSUME NEW r \in Relay, r \notin torn'
          PROVE  IF pc' = "status" /\ cmd'.id = r
                 THEN pin'[r] = RelayLevel(Wanted(cmd'.state))
                 ELSE RelayAgrees(r)'
        <3>1. CASE r \in failed
            BY <1>1, <2>1, <3>1 DEF HKeyShortPress, KeyShortPress, AllSet, thread
        <3>2. CASE r \notin failed
            BY <1>1, <2>1, <3>2 DEF HKeyShortPress, KeyShortPress, AllSet, thread
        <3> QED
            BY <3>1, <3>2
    <2>2. ~ledTorn' => IF pc' = "ledstatus" THEN ledPin' = LedLevel(ledArg') ELSE LedAgrees'
        BY <1>1 DEF HKeyShortPress, KeyShortPress, LedSet, thread
    <2> QED
        BY <2>1, <2>2
<1>2. ASSUME NEW delivered \in Delivery, HSweepPublish(delivered)
      PROVE  FaithfulInv'
    BY <1>2 DEF HSweepPublish, SweepPublish, panel
<1>3. ASSUME NEW r \in Relay, NEW payload \in Payload, HCmdReceive(r, payload)
      PROVE  FaithfulInv'
    BY <1>3 DEF HCmdReceive, CmdReceive, panel
<1>4. CASE HCmdGpio
    BY <1>4 DEF HCmdGpio, CmdGpio, HTypeOK, TypeOK
<1>5. CASE HCmdGpioFails
    BY <1>5 DEF HCmdGpioFails, CmdGpioFails, AfterRelaySet, panel
<1>6. CASE HCmdStatus
    BY <1>6 DEF HCmdStatus, CmdStatus, AfterRelaySet, HTypeOK, TypeOK
<1>7. CASE HCmdLedGpio
    BY <1>7 DEF HCmdLedGpio, CmdLedGpio
<1>8. CASE HCmdLedGpioFails
    BY <1>8 DEF HCmdLedGpioFails, CmdLedGpioFails, panel
<1>9. ASSUME NEW delivered \in Delivery, HCmdEcho(delivered)
      PROVE  FaithfulInv'
    BY <1>9 DEF HCmdEcho, CmdEcho, panel
<1>10. CASE HQuiet
    <2>1. CASE Connected \/ Disconnected \/ YieldReturns
        BY <1>10, <2>1 DEF HQuiet, Connected, Disconnected, YieldReturns, panel, history
    <2>2. CASE Heartbeat \/ SweepClear
        BY <1>10, <2>2 DEF HQuiet, Heartbeat, SweepClear, panel, history
    <2>3. CASE CmdScan
        BY <1>10, <2>3 DEF HQuiet, CmdScan, panel, history
    <2>4. CASE CmdScanEnds \/ CmdLedTest
        BY <1>10, <2>4 DEF HQuiet, CmdScanEnds, CmdLedTest, panel, history
    <2>5. CASE CmdLedStatus
        BY <1>10, <2>5 DEF HQuiet, CmdLedStatus, history
    <2> QED
        BY <1>10, <2>1, <2>2, <2>3, <2>4, <2>5 DEF HQuiet
<1>11. CASE HRestart
    BY <1>11 DEF HRestart, Restart
<1>12. CASE UNCHANGED hvars
    BY <1>12 DEF hvars, vars, history
<1> HIDE DEF FaithfulInv, RelayAgrees, LedAgrees
<1> QED
    BY <1>1, <1>2, <1>3, <1>4, <1>5, <1>6, <1>7, <1>8, <1>9, <1>10, <1>11, <1>12 DEF HNext

(* relay_states_get and led_states_get are right about every device whose  *)
(* two writes no press has split, for every number of relays.              *)
THEOREM StatusesFaithful == HSpec => []StatusFaithful
<1>1. FaithfulInv => StatusFaithful
    BY DEF FaithfulInv, StatusFaithful
<1> QED
    BY <1>1, HTypeCorrect, FaithfulInit, FaithfulStep, PTL DEF HSpec

-----------------------------------------------------------------------------
(* The toggle.                                                             *)

LEMMA BaselineStep == HTypeOK /\ PressBaseline /\ [HNext]_hvars => PressBaseline'
<1> SUFFICES ASSUME HTypeOK, PressBaseline, [HNext]_hvars PROVE PressBaseline'
    OBVIOUS
<1> USE DEF PressBaseline
<1>1. ASSUME NEW failed \in SUBSET FaultyRelays, NEW ledOk \in {TRUE, ~FaultyLed},
             HKeyShortPress(failed, ledOk)
      PROVE  PressBaseline'
    BY <1>1 DEF HKeyShortPress, KeyShortPress, AllSet
<1>2. CASE HCmdStatus
    BY <1>2 DEF HCmdStatus, CmdStatus, HTypeOK, TypeOK
<1>3. CASE HRestart
    BY <1>3 DEF HRestart, Restart
<1>4. ASSUME UNCHANGED <<status, allStatus, commanded>>
      PROVE  PressBaseline'
    BY <1>4
<1>5. ASSUME NEW delivered \in Delivery, HSweepPublish(delivered) \/ HCmdEcho(delivered)
      PROVE  PressBaseline'
    BY <1>4, <1>5 DEF HSweepPublish, SweepPublish, HCmdEcho, CmdEcho, panel
<1>6. ASSUME NEW r \in Relay, NEW payload \in Payload, HCmdReceive(r, payload)
      PROVE  PressBaseline'
    BY <1>4, <1>6 DEF HCmdReceive, CmdReceive, panel
<1>7. CASE HCmdGpio \/ HCmdGpioFails \/ HCmdLedGpio \/ HCmdLedGpioFails
    BY <1>4, <1>7 DEF HCmdGpio, CmdGpio, HCmdGpioFails, CmdGpioFails,
                      HCmdLedGpio, CmdLedGpio, HCmdLedGpioFails, CmdLedGpioFails, panel
<1>8. CASE HQuiet
    BY <1>4, <1>8 DEF HQuiet, Connected, Disconnected, YieldReturns, Heartbeat, SweepClear,
                      CmdScan, CmdScanEnds, CmdLedTest, CmdLedStatus, panel, history
<1>9. CASE UNCHANGED hvars
    BY <1>4, <1>9 DEF hvars, vars, history
<1> HIDE DEF PressBaseline
<1> QED
    BY <1>1, <1>2, <1>3, <1>5, <1>6, <1>7, <1>8, <1>9 DEF HNext

(* What the next press will do is known for every relay that no command    *)
(* has set, and no failing call has missed, since the last one.            *)
THEOREM PressBaselineHolds == HSpec => []PressBaseline
<1>1. HInit => PressBaseline
    BY DEF HInit, Init, BootState, PressBaseline
<1> QED
    BY <1>1, HTypeCorrect, BaselineStep, PTL DEF HSpec

-----------------------------------------------------------------------------
(* The LED.                                                                *)

LEMMA LedInit == HInit => LedInv
BY DEF HInit, Init, BootState, LedInv, SomeOpen

LEMMA LedStep == HTypeOK /\ LedInv /\ [HNext]_hvars => LedInv'
<1> SUFFICES ASSUME HTypeOK, LedInv, [HNext]_hvars PROVE LedInv'
    OBVIOUS
<1> USE DEF LedInv, SomeOpen
<1>1. ASSUME NEW failed \in SUBSET FaultyRelays, NEW ledOk \in {TRUE, ~FaultyLed},
             HKeyShortPress(failed, ledOk)
      PROVE  LedInv'
    <2> SUFFICES ASSUME ~ledStale' PROVE LedInv'
        OBVIOUS
    <2>1. pc' \notin LedWork /\ failed = {} /\ ledOk
        BY <1>1 DEF HKeyShortPress, KeyShortPress, thread
    <2>2. ledStatus' = NextAll /\ \A r \in Relay : status'[r] = NextAll
        BY <1>1, <2>1 DEF HKeyShortPress, KeyShortPress, AllSet, LedSet
    <2> QED
        BY <2>1, <2>2, RelayFacts
<1>2. ASSUME NEW delivered \in Delivery, HSweepPublish(delivered)
      PROVE  LedInv'
    BY <1>2 DEF HSweepPublish, SweepPublish, panel
<1>3. ASSUME NEW r \in Relay, NEW payload \in Payload, HCmdReceive(r, payload)
      PROVE  LedInv'
    BY <1>3 DEF HCmdReceive, CmdReceive, panel
<1>4. CASE HCmdGpio
    BY <1>4 DEF HCmdGpio, CmdGpio
<1>5. CASE HCmdGpioFails
    <2>1. CASE cmd.state = "ON"
        BY <1>5, <2>1 DEF HCmdGpioFails
    <2>2. CASE cmd.state # "ON"
        <3>1. pc' = "scan" /\ idx' = 0
            BY <1>5, <2>2 DEF HCmdGpioFails, CmdGpioFails, AfterRelaySet
        <3> QED
            BY <3>1, RelayFacts
    <2> QED
        BY <2>1, <2>2
<1>6. CASE HCmdStatus
    <2>1. CASE cmd.state = "ON"
        <3>1. pc' = "ledtest" /\ cmd.id \in Relay /\ status'[cmd.id] = OPEN
            BY <1>6, <2>1 DEF HCmdStatus, CmdStatus, AfterRelaySet, Wanted, HTypeOK, TypeOK
        <3> QED
            BY <3>1
    <2>2. CASE cmd.state # "ON"
        <3>1. pc' = "scan" /\ idx' = 0
            BY <1>6, <2>2 DEF HCmdStatus, CmdStatus, AfterRelaySet
        <3> QED
            BY <3>1, RelayFacts
    <2> QED
        BY <2>1, <2>2
<1>7. CASE HCmdLedGpio
    BY <1>7 DEF HCmdLedGpio, CmdLedGpio
<1>8. CASE HCmdLedGpioFails
    BY <1>8 DEF HCmdLedGpioFails, CmdLedGpioFails
<1>9. ASSUME NEW delivered \in Delivery, HCmdEcho(delivered)
      PROVE  LedInv'
    BY <1>9 DEF HCmdEcho, CmdEcho, panel
<1>10. CASE HQuiet
    <2>1. CASE Connected \/ Disconnected \/ YieldReturns
        BY <1>10, <2>1 DEF HQuiet, Connected, Disconnected, YieldReturns, panel, history
    <2>2. CASE Heartbeat \/ SweepClear
        BY <1>10, <2>2 DEF HQuiet, Heartbeat, SweepClear, panel, history
    <2>3. CASE CmdScan
        <3>1. CASE status[idx] = OPEN
            <4>1. pc' = "ledtest" /\ idx \in Relay /\ status' = status
                BY <2>3, <3>1, RelayFacts DEF CmdScan, panel, HTypeOK, TypeOK
            <4> QED
                BY <3>1, <4>1
        <3>2. CASE status[idx] # OPEN
            <4>1. pc' = "scan" /\ idx' = idx + 1 /\ status' = status /\ pc = "scan"
                BY <2>3, <3>2 DEF CmdScan, panel
            <4>2. status[idx] = CLOSE
                BY <2>3, <3>2, RelayFacts DEF CmdScan, HTypeOK, TypeOK
            <4>3. ASSUME NEW r \in Relay, r < idx + 1 PROVE r < idx \/ r = idx
                BY <4>3, RelayFacts DEF HTypeOK, TypeOK
            <4>4. ledStale' = ledStale
                BY <1>10 DEF HQuiet, history
            <4> QED
                BY <4>1, <4>2, <4>3, <4>4
        <3> QED
            BY <3>1, <3>2
    <2>4. CASE CmdScanEnds
        <3>1. pc = "scan" /\ idx = NRelays /\ pc' = "ledgpio" /\ ledArg' = CLOSE
              /\ status' = status /\ ledStale' = ledStale
            BY <1>10, <2>4 DEF HQuiet, CmdScanEnds, panel, history
        <3> QED
            BY <3>1, RelayFacts
    <2>5. CASE CmdLedTest
        <3>1. pc = "ledtest" /\ ledArg = OPEN /\ ledStatus \in Status
            BY <2>5 DEF CmdLedTest, HTypeOK, TypeOK
        <3> QED
            BY <1>10, <2>5, <3>1 DEF HQuiet, CmdLedTest, panel, history
    <2>6. CASE CmdLedStatus
        BY <1>10, <2>6 DEF HQuiet, CmdLedStatus, history
    <2> QED
        BY <1>10, <2>1, <2>2, <2>3, <2>4, <2>5, <2>6 DEF HQuiet
<1>11. CASE HRestart
    BY <1>11 DEF HRestart, Restart
<1>12. CASE UNCHANGED hvars
    BY <1>12 DEF hvars, vars, history
<1> HIDE DEF LedInv, SomeOpen
<1> QED
    BY <1>1, <1>2, <1>3, <1>4, <1>5, <1>6, <1>7, <1>8, <1>9, <1>10, <1>11, <1>12 DEF HNext

(* The LED shows whether a relay is open, unless a press fell into the     *)
(* callback's work on it or a GPIO call failed.                            *)
THEOREM LedShows == HSpec => []LedShowsRelays
<1>1. LedInv => LedShowsRelays
    BY DEF LedInv, LedShowsRelays
<1> QED
    BY <1>1, HTypeCorrect, LedInit, LedStep, PTL DEF HSpec

-----------------------------------------------------------------------------
(* The broker's picture.                                                   *)

LEMMA BrokerInit == HInit => BrokerInv
BY DEF HInit, Init, BootState, BrokerInv, EchoDue

LEMMA BrokerStep == HTypeOK /\ BrokerInv /\ [HNext]_hvars => BrokerInv'
<1> SUFFICES ASSUME HTypeOK, BrokerInv, [HNext]_hvars PROVE BrokerInv'
    OBVIOUS
<1> USE DEF BrokerInv, EchoDue
<1>1. ASSUME NEW failed \in SUBSET FaultyRelays, NEW ledOk \in {TRUE, ~FaultyLed},
             HKeyShortPress(failed, ledOk)
      PROVE  BrokerInv'
    <2>1. updateFlg' = TRUE /\ pc' = pc /\ idx' = idx /\ view' = view
        BY <1>1 DEF HKeyShortPress, KeyShortPress, AllSet, thread
    <2>2. ASSUME pc = "sweep", NEW r \in Relay \ doubtful', r < idx
          PROVE  view[r] = Name(status'[r])
        <3>1. r \in Swept
            BY <2>2, RelayFacts DEF Swept, HTypeOK, TypeOK
        <3>2. r \notin doubtful /\ status'[r] = status[r]
            BY <1>1, <2>2, <3>1 DEF HKeyShortPress
        <3> QED
            BY <2>2, <3>2
    <2> QED
        BY <2>1, <2>2
<1>2. ASSUME NEW delivered \in Delivery, HSweepPublish(delivered)
      PROVE  BrokerInv'
    <2>1. pc = "sweep" /\ pc' = "sweep" /\ idx' = idx + 1 /\ status' = status /\ idx \in Relay
        BY <1>2, RelayFacts DEF HSweepPublish, SweepPublish, panel, HTypeOK, TypeOK
    <2>2. ASSUME NEW r \in Relay \ doubtful', r < idx + 1
          PROVE  view'[r] = Name(status[r])
        <3>1. CASE r = idx
            <4>1. delivered
                BY <1>2, <2>2, <3>1 DEF HSweepPublish
            <4> QED
                BY <1>2, <3>1, <4>1 DEF HSweepPublish, SweepPublish, HTypeOK, TypeOK
        <3>2. CASE r # idx
            <4>1. r < idx
                BY <2>2, <3>2, RelayFacts DEF HTypeOK, TypeOK
            <4>2. r \notin doubtful /\ view'[r] = view[r]
                BY <1>2, <2>2, <3>2 DEF HSweepPublish, SweepPublish, HTypeOK, TypeOK
            <4> QED
                BY <2>1, <2>2, <4>1, <4>2
        <3> QED
            BY <3>1, <3>2
    <2> QED
        BY <2>1, <2>2
<1>3. ASSUME NEW r \in Relay, NEW payload \in Payload, HCmdReceive(r, payload)
      PROVE  BrokerInv'
    <2>1. pc = "yield" /\ pc' \in {"gpio", "echo"} /\ (pc' = "echo" => cmd'.state = "other")
          /\ status' = status /\ view' = view /\ updateFlg' = updateFlg /\ doubtful' = doubtful
        BY <1>3 DEF HCmdReceive, CmdReceive, panel
    <2> QED
        BY <2>1
<1>4. CASE HCmdGpio
    BY <1>4 DEF HCmdGpio, CmdGpio
<1>5. CASE HCmdGpioFails
    BY <1>5 DEF HCmdGpioFails, CmdGpioFails, AfterRelaySet, panel
<1>6. CASE HCmdStatus
    <2>1. pc' \in {"ledtest", "scan"} /\ pc = "status" /\ cmd.state \in {"ON", "OFF"}
          /\ cmd' = cmd /\ view' = view /\ updateFlg' = updateFlg /\ doubtful' = doubtful
        BY <1>6 DEF HCmdStatus, CmdStatus, AfterRelaySet, HTypeOK, TypeOK
    <2>2. Name(status'[cmd.id]) = cmd.state
        BY <1>6, <2>1 DEF HCmdStatus, CmdStatus, Name, Wanted, HTypeOK, TypeOK
    <2>3. \A r \in Relay : r # cmd.id => status'[r] = status[r]
        BY <1>6 DEF HCmdStatus, CmdStatus, HTypeOK, TypeOK
    <2> QED
        BY <2>1, <2>2, <2>3
<1>7. CASE HCmdLedGpio
    BY <1>7 DEF HCmdLedGpio, CmdLedGpio
<1>8. CASE HCmdLedGpioFails
    BY <1>8 DEF HCmdLedGpioFails, CmdLedGpioFails, panel
<1>9. ASSUME NEW delivered \in Delivery, HCmdEcho(delivered)
      PROVE  BrokerInv'
    <2>1. pc = "echo" /\ pc' = "yield" /\ status' = status /\ updateFlg' = updateFlg /\ cmd' = cmd
        BY <1>9 DEF HCmdEcho, CmdEcho, panel
    <2>2. ASSUME ~updateFlg, NEW r \in Relay \ doubtful'
          PROVE  view'[r] = Name(status[r])
        <3>1. CASE r = cmd.id
            <4>1. delivered /\ ~refused /\ cmd.state # "other"
                BY <1>9, <2>2, <3>1 DEF HCmdEcho
            <4>2. view'[r] = cmd.state
                BY <1>9, <3>1, <4>1 DEF HCmdEcho, CmdEcho, HTypeOK, TypeOK
            <4> QED
                BY <2>1, <2>2, <3>1, <4>1, <4>2
        <3>2. CASE r # cmd.id
            BY <1>9, <2>1, <2>2, <3>2 DEF HCmdEcho, CmdEcho, HTypeOK, TypeOK
        <3> QED
            BY <3>1, <3>2
    <2> QED
        BY <2>1, <2>2
<1>10. CASE HQuiet
    <2>1. CASE Connected \/ Disconnected \/ YieldReturns
        BY <1>10, <2>1 DEF HQuiet, Connected, Disconnected, YieldReturns, panel, history
    <2>2. CASE Heartbeat
        <3>1. pc = "loop" /\ idx' = 0 /\ status' = status /\ view' = view
              /\ updateFlg' = updateFlg /\ doubtful' = doubtful
              /\ pc' = IF updateFlg THEN "sweep" ELSE "yield"
            BY <1>10, <2>2 DEF HQuiet, Heartbeat, panel, history
        <3> QED
            BY <3>1, RelayFacts
    <2>3. CASE SweepClear
        <3>1. pc = "sweep" /\ idx = NRelays /\ pc' = "yield" /\ status' = status
              /\ view' = view /\ doubtful' = doubtful
            BY <1>10, <2>3 DEF HQuiet, SweepClear, panel, history
        <3> QED
            BY <3>1, RelayFacts
    <2>4. CASE CmdScan
        BY <1>10, <2>4 DEF HQuiet, CmdScan, panel, history
    <2>5. CASE CmdScanEnds \/ CmdLedTest \/ CmdLedStatus
        BY <1>10, <2>5 DEF HQuiet, CmdScanEnds, CmdLedTest, CmdLedStatus, panel, history
    <2> QED
        BY <1>10, <2>1, <2>2, <2>3, <2>4, <2>5 DEF HQuiet
<1>11. CASE HRestart
    BY <1>11 DEF HRestart, Restart
<1>12. CASE UNCHANGED hvars
    BY <1>12 DEF hvars, vars, history
<1> HIDE DEF BrokerInv, EchoDue
<1> QED
    BY <1>1, <1>2, <1>3, <1>4, <1>5, <1>6, <1>7, <1>8, <1>9, <1>10, <1>11, <1>12 DEF HNext

(* At rest and with the flag down, the broker's last word on a relay is    *)
(* its status, unless that word was lost, refused, unknown or overtaken.   *)
THEOREM BrokerIsTold == HSpec => []BrokerKnows
<1>1. HTypeOK /\ BrokerInv => BrokerKnows
    BY DEF BrokerInv, BrokerKnows, EchoDue
<1> QED
    BY <1>1, HTypeCorrect, BrokerInit, BrokerStep, PTL DEF HSpec

-----------------------------------------------------------------------------
(* The history variables only watch: with them the board still implements  *)
(* the panel, and its thread still comes to the end of its work.           *)
THEOREM HistoryOnlyWatches == HSpec => Spec /\ ImplementsPanel /\ ThreadProgress
<1>1. HInit => Init
    BY DEF HInit
<1> QED
    BY <1>1, HStepIsStep, Refinement, ThreadAdvances, PTL DEF HSpec, Spec
=============================================================================

-------------------------- MODULE RelayBoardProofs --------------------------
(***************************************************************************)
(* Type correctness of RelayBoard and the refinement of Panel, for every   *)
(* number of relays and every choice of the calls that may fail.           *)
(***************************************************************************)
EXTENDS RelayBoardPanel, TLAPS

USE DEF CLOSE, OPEN, Status, LOW, HIGH, UNDRIVEN, Pin, Payload, LedWork

-----------------------------------------------------------------------------
(* Helpers of the model.                                                   *)

LEMMA LevelType == \A s \in Status : /\ RelayLevel(s) \in Pin
                                     /\ LedLevel(s) \in Pin
BY DEF RelayLevel, LedLevel, Level

LEMMA WantedType == \A p \in Payload : Wanted(p) \in Status
BY DEF Wanted

LEMMA NextAllType == allStatus \in Status => NextAll \in Status
BY DEF NextAll

-----------------------------------------------------------------------------
(* Type correctness.                                                       *)

LEMMA BootCmd == [id |-> 0, state |-> "other"] \in [id : Relay, state : Payload]
BY BoardAssumption DEF BoardAssumption, Relay

LEMMA RelayFacts == /\ 0 \in Relay
                    /\ \A r \in Relay : r \in Int /\ 0 <= r /\ r < NRelays
                    /\ \A i \in Int : (0 <= i /\ i < NRelays) => i \in Relay
                    /\ FaultyRelays \subseteq Relay
                    /\ 0 \in 0 .. NRelays
                    /\ NRelays \in Nat
BY BoardAssumption DEF BoardAssumption, Relay

LEMMA TypeInit == Init => TypeOK
<1> SUFFICES ASSUME Init PROVE TypeOK
    OBVIOUS
<1>1. pin \in [Relay -> Pin] /\ status \in [Relay -> Status]
    BY DEF Init, BootState
<1>2. cmd \in [id : Relay, state : Payload]
    BY BootCmd DEF Init, BootState
<1> QED
    BY <1>1, <1>2, RelayFacts DEF Init, BootState, TypeOK

LEMMA TypeStep == TypeOK /\ [Next]_vars => TypeOK'
<1> SUFFICES ASSUME TypeOK, [Next]_vars PROVE TypeOK'
    OBVIOUS
<1> USE RelayFacts DEF TypeOK, panel, thread
<1>1. ASSUME NEW failed \in SUBSET FaultyRelays, NEW ledOk \in {TRUE, ~FaultyLed},
             KeyShortPress(failed, ledOk)
      PROVE  TypeOK'
    <2>1. NextAll \in Status /\ RelayLevel(NextAll) \in Pin /\ LedLevel(NextAll) \in Pin
        BY NextAllType, LevelType
    <2>2. pin' \in [Relay -> Pin] /\ status' \in [Relay -> Status]
        BY <1>1, <2>1 DEF KeyShortPress, AllSet
    <2>3. ledPin' \in Pin /\ ledStatus' \in Status /\ allStatus' \in Status /\ updateFlg' \in BOOLEAN
        BY <1>1, <2>1 DEF KeyShortPress, AllSet, LedSet
    <2> QED
        BY <1>1, <2>2, <2>3 DEF KeyShortPress
<1>2. ASSUME NEW delivered \in Delivery, SweepPublish(delivered)
      PROVE  TypeOK'
    BY <1>2 DEF SweepPublish, Name
<1>3. ASSUME NEW r \in Relay, NEW payload \in Payload, CmdReceive(r, payload)
      PROVE  TypeOK'
    BY <1>3 DEF CmdReceive
<1>4. CASE CmdGpio
    <2>1. RelayLevel(Wanted(cmd.state)) \in Pin
        BY WantedType, LevelType
    <2> QED
        BY <1>4, <2>1 DEF CmdGpio
<1>5. CASE CmdGpioFails
    BY <1>5 DEF CmdGpioFails, AfterRelaySet
<1>6. CASE CmdStatus
    <2>1. Wanted(cmd.state) \in Status
        BY WantedType
    <2>2. status' \in [Relay -> Status]
        BY <1>6, <2>1 DEF CmdStatus
    <2> QED
        BY <1>6, <2>2 DEF CmdStatus, AfterRelaySet
<1>7. CASE CmdScan
    <2>1. pc' \in {"scan", "ledtest"} /\ pc = "scan" /\ idx < NRelays
        BY <1>7 DEF CmdScan
    <2>2. idx' \in {idx, idx + 1}
        BY <1>7 DEF CmdScan
    <2>3. idx' \in 0 .. NRelays /\ ledArg = OPEN
        BY <2>1, <2>2
    <2> QED
        BY <1>7, <2>1, <2>3 DEF CmdScan
<1>8. CASE CmdLedGpio
    <2>1. LedLevel(ledArg) \in Pin
        BY LevelType
    <2> QED
        BY <1>8, <2>1 DEF CmdLedGpio
<1>9. CASE CmdScanEnds \/ CmdLedTest \/ CmdLedGpioFails \/ CmdLedStatus
    BY <1>9 DEF CmdScanEnds, CmdLedTest, CmdLedGpioFails, CmdLedStatus
<1>10. ASSUME NEW delivered \in Delivery, CmdEcho(delivered)
       PROVE  TypeOK'
    BY <1>10 DEF CmdEcho
<1>11. CASE Connected \/ Disconnected \/ YieldReturns
    BY <1>11 DEF Connected, Disconnected, YieldReturns
<1>12. CASE Heartbeat \/ SweepClear
    BY <1>12 DEF Heartbeat, SweepClear
<1>13. CASE Restart
    BY <1>13, BootCmd DEF Restart
<1>14. CASE UNCHANGED vars
    BY <1>14 DEF vars
<1> HIDE RelayFacts DEF TypeOK, panel, thread
<1> QED
    BY <1>1, <1>2, <1>3, <1>4, <1>5, <1>6, <1>7, <1>8, <1>9, <1>10, <1>11, <1>12, <1>13, <1>14
    DEF Next, KeyPress, MqttThread, Receive, Sweep, Callback

(* The board keeps its types: in particular the loops stay within the      *)
(* relays and the LED is set only to a status.                             *)
THEOREM TypeCorrect == Spec => []TypeOK
BY TypeInit, TypeStep, PTL DEF Spec

-----------------------------------------------------------------------------
(* The refinement of Panel.                                                *)

LEMMA PanelInit == Init => P!PInit
BY DEF Init, BootState, P!PInit, Outlet, Request, RelayLevel, Level

(* A step that leaves the pins, the toggle and the request alone is a      *)
(* stutter of the panel.                                                   *)
LEMMA PanelStutter ==
    ASSUME pin' = pin, allStatus' = allStatus, cmd' = cmd,
           pc # "gpio", pc' # "gpio"
    PROVE  UNCHANGED P!pvars
BY DEF P!pvars, Outlet, Request

LEMMA PanelStep == TypeOK /\ [Next]_vars => [P!PNext]_(P!pvars)
<1> SUFFICES ASSUME TypeOK, [Next]_vars PROVE P!PNext \/ UNCHANGED P!pvars
    OBVIOUS
<1>1. ASSUME NEW failed \in SUBSET FaultyRelays, NEW ledOk \in {TRUE, ~FaultyLed},
             KeyShortPress(failed, ledOk)
      PROVE  P!PNext
    <2>1. failed \in SUBSET Relay
        BY RelayFacts
    <2>2. P!Flip = NextAll /\ NextAll \in Status
        BY NextAllType DEF P!Flip, NextAll, TypeOK
    <2>3. ASSUME NEW r \in Relay
          PROVE  Outlet'[r] = IF r \in failed THEN Outlet[r] ELSE NextAll
        BY <1>1, <2>2, <2>3 DEF KeyShortPress, AllSet, Outlet, RelayLevel, Level, TypeOK
    <2>4. Outlet' = [r \in Relay |-> IF r \in failed THEN Outlet[r] ELSE NextAll]
        BY <2>3 DEF Outlet
    <2>5. Request' = Request
        BY <1>1 DEF KeyShortPress, thread, Request
    <2>6. P!Key(failed)
        BY <1>1, <2>2, <2>4, <2>5 DEF P!Key, KeyShortPress
    <2> QED
        BY <2>1, <2>6 DEF P!PNext
<1>2. ASSUME NEW r \in Relay, NEW payload \in Payload, CmdReceive(r, payload)
      PROVE  P!PNext \/ UNCHANGED P!pvars
    <2>1. Outlet' = Outlet /\ allStatus' = allStatus /\ Request = {}
        BY <1>2 DEF CmdReceive, panel, Outlet, Request
    <2>2. CASE payload = "other"
        BY <1>2, <2>1, <2>2 DEF CmdReceive, Request, P!pvars
    <2>3. CASE payload # "other"
        <3>1. Request' = {<<r, Wanted(payload)>>} /\ Wanted(payload) \in {CLOSE, OPEN}
            BY <1>2, <2>3, WantedType DEF CmdReceive, Request
        <3>2. P!Ask(r, Wanted(payload))
            BY <2>1, <3>1 DEF P!Ask
        <3> QED
            BY <3>1, <3>2 DEF P!PNext
    <2> QED
        BY <2>2, <2>3
<1>3. CASE CmdGpio
    <2> DEFINE req == <<cmd.id, Wanted(cmd.state)>>
    <2>1. Request = {req} /\ Request' = {} /\ allStatus' = allStatus
        BY <1>3 DEF CmdGpio, Request
    <2>2. cmd.id \in Relay /\ Wanted(cmd.state) \in Status
        BY WantedType DEF TypeOK
    <2>3. Outlet' = [Outlet EXCEPT ![req[1]] = req[2]]
        BY <1>3, <2>2 DEF CmdGpio, Outlet, RelayLevel, Level, TypeOK
    <2>4. P!Serve
        BY <2>1, <2>3 DEF P!Serve
    <2> QED
        BY <2>4 DEF P!PNext
<1>4. CASE CmdGpioFails
    <2>1. Outlet' = Outlet /\ allStatus' = allStatus /\ Request # {} /\ Request' = {}
        BY <1>4 DEF CmdGpioFails, AfterRelaySet, panel, Outlet, Request
    <2>2. P!Refuse
        BY <2>1 DEF P!Refuse
    <2> QED
        BY <2>2 DEF P!PNext
<1>5. CASE Restart
    <2>1. Outlet' = [r \in Relay |-> CLOSE] /\ allStatus' = CLOSE /\ Request' = {}
        BY <1>5 DEF Restart, Outlet, Request, RelayLevel, Level
    <2>2. P!Reset
        BY <2>1 DEF P!Reset
    <2> QED
        BY <2>2 DEF P!PNext
<1>6. ASSUME NEW delivered \in Delivery, SweepPublish(delivered) \/ CmdEcho(delivered)
      PROVE  UNCHANGED P!pvars
    BY <1>6, PanelStutter DEF SweepPublish, CmdEcho, panel
<1>7. CASE CmdStatus \/ CmdLedGpio \/ CmdLedStatus
    BY <1>7, PanelStutter DEF CmdStatus, AfterRelaySet, CmdLedGpio, CmdLedStatus
<1>8. CASE CmdScan \/ CmdScanEnds \/ CmdLedTest \/ CmdLedGpioFails
    BY <1>8, PanelStutter DEF CmdScan, CmdScanEnds, CmdLedTest, CmdLedGpioFails, panel
<1>9. CASE Connected \/ Disconnected \/ YieldReturns \/ Heartbeat \/ SweepClear
    BY <1>9, PanelStutter DEF Connected, Disconnected, YieldReturns, Heartbeat, SweepClear, panel
<1>10. CASE UNCHANGED vars
    BY <1>10 DEF vars, P!pvars, Outlet, Request
<1> QED
    BY <1>1, <1>2, <1>3, <1>4, <1>5, <1>6, <1>7, <1>8, <1>9, <1>10
    DEF Next, KeyPress, MqttThread, Receive, Sweep, Callback

(* The board implements the panel: sockets switch only on request or by    *)
(* the key, and presses alternate, however the two actors interleave.      *)
THEOREM Refinement == Spec => ImplementsPanel
<1>1. TypeOK /\ [Next]_vars => [P!PNext]_(P!pvars)
    BY PanelStep
<1> QED
    BY <1>1, TypeCorrect, PanelInit, PTL DEF Spec, ImplementsPanel, P!PanelSpec

-----------------------------------------------------------------------------
(* The progress of the MQTT thread.                                        *)

LEMMA StepsLeftIs ==
    ASSUME TypeOK
    PROVE  /\ StepsLeft \in Nat
           /\ pc \in {"offline", "yield"} => StepsLeft = 0
           /\ pc = "loop" => StepsLeft = NRelays + 2
           /\ pc = "sweep" => StepsLeft = NRelays - idx + 1
           /\ pc = "gpio" => StepsLeft = NRelays + 7
           /\ pc = "status" => StepsLeft = NRelays + 6
           /\ pc = "scan" => StepsLeft = NRelays - idx + 5
           /\ pc = "ledtest" => StepsLeft = 4
           /\ pc = "ledgpio" => StepsLeft = 3
           /\ pc = "ledstatus" => StepsLeft = 2
           /\ pc = "echo" => StepsLeft = 1
BY RelayFacts DEF StepsLeft, TypeOK

(* The same of the next state, for a step that says what pc and idx are.   *)
LEMMA StepsLeftNext ==
    ASSUME TypeOK', NEW p, pc' = p, NEW i, idx' = i
    PROVE  /\ p \in {"offline", "yield"} => StepsLeft' = 0
           /\ p = "sweep" => StepsLeft' = NRelays - i + 1
           /\ p = "status" => StepsLeft' = NRelays + 6
           /\ p = "scan" => StepsLeft' = NRelays - i + 5
           /\ p = "ledtest" => StepsLeft' = 4
           /\ p = "ledgpio" => StepsLeft' = 3
           /\ p = "ledstatus" => StepsLeft' = 2
           /\ p = "echo" => StepsLeft' = 1
BY DEF StepsLeft, TypeOK

LEMMA ProgressStep ==
    ASSUME TypeOK, TypeOK', [Next]_vars, StepsLeft > 0
    PROVE  \/ StepsLeft' < StepsLeft
           \/ StepsLeft' = StepsLeft /\ allStatus' # allStatus
           \/ UNCHANGED vars
<1> USE RelayFacts, StepsLeftIs
<1>1. idx \in 0 .. NRelays /\ allStatus \in Status
    BY DEF TypeOK
<1>2. CASE KeyPress
    <2>1. UNCHANGED <<pc, idx>> /\ allStatus' = NextAll
        BY <1>2 DEF KeyPress, KeyShortPress, thread
    <2>2. StepsLeft' = StepsLeft
        BY <2>1 DEF StepsLeft
    <2> QED
        BY <1>1, <2>1, <2>2 DEF NextAll
<1>3. CASE Sweep
    <2>1. CASE Heartbeat
        BY <1>1, <2>1, StepsLeftNext DEF Heartbeat
    <2>2. ASSUME NEW delivered \in Delivery, SweepPublish(delivered)
          PROVE  StepsLeft' < StepsLeft
        BY <1>1, <2>2, StepsLeftNext DEF SweepPublish
    <2>3. CASE SweepClear
        BY <1>1, <2>3, StepsLeftNext DEF SweepClear
    <2> QED
        BY <1>3, <2>1, <2>2, <2>3 DEF Sweep
<1>4. CASE Callback
    <2>1. CASE CmdGpio
        BY <1>1, <2>1, StepsLeftNext DEF CmdGpio
    <2>2. CASE CmdGpioFails \/ CmdStatus
        BY <1>1, <2>2, StepsLeftNext DEF CmdGpioFails, CmdStatus, AfterRelaySet
    <2>3. CASE CmdScan
        BY <1>1, <2>3, StepsLeftNext DEF CmdScan
    <2>4. CASE CmdScanEnds \/ CmdLedTest
        BY <1>1, <2>4, StepsLeftNext DEF CmdScanEnds, CmdLedTest
    <2>5. CASE CmdLedGpio \/ CmdLedGpioFails \/ CmdLedStatus
        BY <1>1, <2>5, StepsLeftNext DEF CmdLedGpio, CmdLedGpioFails, CmdLedStatus
    <2>6. ASSUME NEW delivered \in Delivery, CmdEcho(delivered)
          PROVE  StepsLeft' < StepsLeft
        BY <1>1, <2>6, StepsLeftNext DEF CmdEcho
    <2> QED
        BY <1>4, <2>1, <2>2, <2>3, <2>4, <2>5, <2>6 DEF Callback
<1>5. CASE Restart
    BY <1>1, <1>5, StepsLeftNext DEF Restart
<1>6. CASE Connected \/ Disconnected \/ YieldReturns \/ Receive
    <2>1. pc \in {"offline", "yield"}
        BY <1>6 DEF Connected, Disconnected, YieldReturns, Receive, CmdReceive
    <2> QED
        BY <2>1
<1> QED
    BY <1>2, <1>3, <1>4, <1>5, <1>6 DEF Next, MqttThread

(* A callback takes at most NRelays + 7 steps of the MQTT thread, a sweep  *)
(* NRelays + 2, and no press adds one: with a thread that is scheduled     *)
(* neither can hang.                                                       *)
THEOREM ThreadAdvances == Spec => ThreadProgress
<1>1. TypeOK /\ TypeOK' /\ [Next]_vars =>
          [StepsLeft > 0 =>
             \/ StepsLeft' < StepsLeft
             \/ StepsLeft' = StepsLeft /\ allStatus' # allStatus]_vars
    BY ProgressStep
<1> QED
    BY <1>1, TypeCorrect, PTL DEF Spec, ThreadProgress

(* The fair runs without restarts are runs of the board.                   *)
THEOREM FairBoard == FairSpec => Spec /\ ImplementsPanel /\ ThreadProgress
<1>1. [KeyPress \/ MqttThread]_vars => [Next]_vars
    BY DEF Next
<1> QED
    BY <1>1, Refinement, ThreadAdvances, PTL DEF Spec, FairSpec
=============================================================================

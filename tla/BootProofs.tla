----------------------------- MODULE BootProofs -----------------------------
(***************************************************************************)
(* The invariants of Boot, for any number of sockets and any addresses.    *)
(***************************************************************************)
EXTENDS Boot, TLAPS

USE BootAssumption DEF BootAssumption

-----------------------------------------------------------------------------
(* What Init gives the variables has their types.                          *)
LEMMA BootTypeInit == Init => TypeOK
<1>1. [r \in Relay |-> CLOSE] \in [Relay -> Status]
  BY DEF Status
<1>2. Init => status \in [Relay -> Status] /\ told \in [Relay -> Status]
  BY <1>1 DEF Init
<1> QED
  <2> SUFFICES ASSUME Init PROVE TypeOK
    OBVIOUS
  <2>1. made \in 0 .. NRelays /\ reached \in 0 .. made
    BY DEF Init
  <2>2. allStatus \in Status /\ ip \in Maybe /\ deviceIp \in Maybe /\ announced \in Maybe
    BY DEF Init, Status, Maybe
  <2> QED
    BY <1>2, <2>1, <2>2 DEF Init, TypeOK

(* The variables keep their types (app_main.c:298, user_init.c:110).       *)
THEOREM BootTypeCorrect == Spec => []TypeOK
<1>1. Init => TypeOK
  BY BootTypeInit
<1>2. TypeOK /\ [Next]_vars => TypeOK'
  <2> SUFFICES ASSUME TypeOK, [Next]_vars PROVE TypeOK'
    OBVIOUS
  <2> USE DEF TypeOK, panel, addresses, session, reports
  <2>1. CASE Blink
    BY <2>1 DEF Blink
  <2>2. CASE AllOpen
    BY <2>2 DEF AllOpen, AllSet, Status, OPEN, CLOSE
  <2>3. CASE KeyInit
    BY <2>3 DEF KeyInit
  <2>4. CASE RelayCreate
    BY <2>4 DEF RelayCreate, RelaysMissing, Created, Relay, Status, OPEN, CLOSE
  <2>5. CASE ReadConfigure
    BY <2>5 DEF ReadConfigure
  <2>6. CASE DeviceCreate
    BY <2>6 DEF DeviceCreate, DeviceAddress
  <2>7. CASE MqttCreate
    BY <2>7 DEF MqttCreate
  <2>8. CASE StoreClient
    BY <2>8 DEF StoreClient
  <2>9. CASE KeyPress
    <3>1. status' \in [Relay -> Status] /\ allStatus' \in Status
      BY <2>9 DEF KeyPress, KeyShortPress, AllSet, Status, OPEN, CLOSE
    <3>2. doubtful' \subseteq Relay
      <4>1. Swept \subseteq Relay
        BY DEF Swept, Relay
      <4> QED
        BY <2>9, <4>1 DEF KeyPress, KeyShortPress
    <3>3. spared' \subseteq Relay /\ reached' \in 0 .. made /\ updateFlg' \in BOOLEAN
      BY <2>9 DEF KeyPress, KeyShortPress, AllSet, Made
    <3> QED
      BY <2>9, <3>1, <3>2, <3>3 DEF KeyPress, KeyShortPress
  <2>10. ASSUME NEW a \in Address, DhcpOk(a) PROVE TypeOK'
    BY <2>10 DEF DhcpOk, Maybe
  <2>11. ASSUME NEW ok \in BOOLEAN, Connect(ok) PROVE TypeOK'
    BY <2>11 DEF Connect, Announce
  <2>12. CASE SweepStart \/ SweepClear
    <3>1. idx' \in 0 .. NRelays
      BY <2>12 DEF SweepStart, SweepClear
    <3> QED
      BY <2>12, <3>1 DEF SweepStart, SweepClear
  <2>13. ASSUME NEW delivered \in BOOLEAN, SweepPublish(delivered) PROVE TypeOK'
    <3>1. idx \in Relay /\ idx' \in 0 .. NRelays
      BY <2>13 DEF SweepPublish, Relay
    <3>2. told' \in [Relay -> Status] /\ doubtful' \subseteq Relay
      BY <2>13, <3>1 DEF SweepPublish
    <3> QED
      BY <2>13, <3>1, <3>2 DEF SweepPublish
  <2>14. CASE Disconnect
    BY <2>14 DEF Disconnect
  <2>15. CASE UNCHANGED vars
    BY <2>15 DEF vars
  <2> QED
    BY <2>1, <2>2, <2>3, <2>4, <2>5, <2>6, <2>7, <2>8, <2>9, <2>10, <2>11,
       <2>12, <2>13, <2>14, <2>15 DEF Next, Starting, MqttThread
<1> QED
  BY <1>1, <1>2, PTL DEF Spec

-----------------------------------------------------------------------------
(* Before the loop of user_relay_init there are no relays, so that no      *)
(* press can have reached one.                                             *)
NoneYet == main \in {"blink", "allset", "key"} => made = 0

KeyInv == TypeOK /\ NoneYet /\ KeyReachedMade

(* KeyReachedMade holds for any number of relays, wherever in the loop of  *)
(* user_relay_init the presses fall and whichever GPIO calls fail.         *)
THEOREM KeyReaches == Spec => []KeyReachedMade
<1>1. Init => KeyInv
  BY BootTypeInit DEF KeyInv, Init, NoneYet, KeyReachedMade, Made, Relay
<1>2. KeyInv /\ TypeOK' /\ [Next]_vars => KeyInv'
  <2> SUFFICES ASSUME KeyInv, TypeOK', [Next]_vars PROVE KeyInv'
    OBVIOUS
  <2> USE DEF KeyInv, NoneYet, KeyReachedMade, Made, Relay, panel, addresses, session, reports
  <2>1. CASE AllOpen
    BY <2>1 DEF AllOpen, AllSet, TypeOK
  <2>2. CASE RelayCreate
    <3>1. ASSUME NEW r \in Made' \ spared
          PROVE  status'[r] = IF r < reached THEN allStatus ELSE CLOSE
      BY <2>2, <3>1 DEF RelayCreate, RelaysMissing, Created, TypeOK
    <3> QED
      BY <2>2, <3>1 DEF RelayCreate
  <2>3. CASE KeyPress
    BY <2>3 DEF KeyPress, KeyShortPress, AllSet, TypeOK
  <2>4. CASE \/ Blink \/ KeyInit \/ ReadConfigure \/ DeviceCreate \/ MqttCreate
             \/ StoreClient \/ MqttThread \/ UNCHANGED vars
             \/ \E a \in Address : DhcpOk(a)
    BY <2>4 DEF Blink, KeyInit, ReadConfigure, DeviceCreate, MqttCreate, StoreClient,
                MqttThread, SweepStart, SweepPublish, SweepClear, Disconnect, Connect, DhcpOk, vars
  <2> QED
    BY <2>1, <2>2, <2>3, <2>4 DEF Next, Starting
<1> QED
  BY <1>1, <1>2, BootTypeCorrect, PTL DEF Spec, KeyInv

-----------------------------------------------------------------------------
(* The thread runs only when the relays and the device are there and       *)
(* app_main is past its last write to either; it has topics to report to,  *)
(* through a stored handle, from its first subscription on; and nothing    *)
(* lowers the flag before it runs.                                         *)
ThreadInv ==
    /\ thread # "none" => main \in {"store", "run"}
    /\ subscribed => thread # "none" /\ topics /\ client
    /\ thread = "none" =>
        /\ doubtful = {}
        /\ main \notin {"blink", "allset"} => updateFlg

(* During a sweep the flag is still up, and the statuses before idx have   *)
(* been told.                                                              *)
SweepInv ==
    thread = "sweep" =>
        /\ updateFlg
        /\ \A r \in Relay \ doubtful : r < idx => told[r] = status[r]

ReportInv == TypeOK /\ ThreadInv /\ SweepInv /\ StartReported

(* StartReported holds for any number of relays: a press in the start is   *)
(* reported no matter which step it falls before, or is on record.         *)
THEOREM StartIsReported == Spec => []StartReported
<1>1. Init => ReportInv
  BY BootTypeInit DEF ReportInv, Init, ThreadInv, SweepInv, StartReported
<1>2. ReportInv /\ TypeOK' /\ [Next]_vars => ReportInv'
  <2> SUFFICES ASSUME ReportInv, TypeOK', [Next]_vars PROVE ReportInv'
    OBVIOUS
  <2> USE DEF ReportInv, panel, addresses, session, reports
  <2>1. ThreadInv'
    <3> USE DEF ThreadInv, TypeOK
    <3>1. CASE Starting
      BY <3>1 DEF Starting, Blink, AllOpen, AllSet, KeyInit, RelayCreate, ReadConfigure,
                  DeviceCreate, MqttCreate, StoreClient
    <3>2. CASE MqttThread
      BY <3>2 DEF MqttThread, SweepStart, SweepPublish, SweepClear, Disconnect, Connect, Announce
    <3>3. CASE KeyPress \/ (\E a \in Address : DhcpOk(a)) \/ UNCHANGED vars
      BY <3>3 DEF KeyPress, KeyShortPress, AllSet, Swept, DhcpOk, vars
    <3> QED
      BY <3>1, <3>2, <3>3 DEF Next
  <2>2. SweepInv' /\ StartReported'
    <3> USE DEF ThreadInv, SweepInv, StartReported, TypeOK
    <3>1. CASE Starting
      BY <3>1 DEF Starting, Blink, AllOpen, AllSet, KeyInit, RelayCreate, ReadConfigure,
                  DeviceCreate, MqttCreate, StoreClient
    <3>2. ASSUME NEW delivered \in BOOLEAN, SweepPublish(delivered)
          PROVE  SweepInv' /\ StartReported'
      <4>1. idx \in Relay
        BY <3>2 DEF SweepPublish, Relay
      <4>2. ASSUME NEW r \in Relay \ doubtful', r < idx'
            PROVE  told'[r] = status'[r]
        <5>1. CASE r = idx
          BY <3>2, <4>1, <4>2, <5>1 DEF SweepPublish
        <5>2. CASE r # idx
          <6>1. r \notin doubtful /\ r < idx
            BY <3>2, <4>1, <4>2, <5>2 DEF SweepPublish, Relay
          <6> QED
            BY <3>2, <4>1, <4>2, <5>2, <6>1 DEF SweepPublish
        <5> QED
          BY <5>1, <5>2
      <4> QED
        BY <3>2, <4>2 DEF SweepPublish
    <3>3. CASE SweepClear
      BY <3>3 DEF SweepClear, Relay
    <3>4. CASE SweepStart \/ Disconnect
      BY <3>4 DEF SweepStart, Disconnect, Relay
    <3>5. ASSUME NEW ok \in BOOLEAN, Connect(ok)
          PROVE  SweepInv' /\ StartReported'
      BY <3>5 DEF Connect
    <3>6. CASE KeyPress
      BY <3>6 DEF KeyPress, KeyShortPress, AllSet, Swept, Relay
    <3>7. CASE (\E a \in Address : DhcpOk(a)) \/ UNCHANGED vars
      BY <3>7 DEF DhcpOk, vars
    <3> QED
      BY <3>1, <3>2, <3>3, <3>4, <3>5, <3>6, <3>7 DEF Next, MqttThread
  <2> QED
    BY <2>1, <2>2
<1> QED
  BY <1>1, <1>2, BootTypeCorrect, PTL DEF Spec, ReportInv

-----------------------------------------------------------------------------
(* From hass_device_create on, the copy is the address until DHCP gives    *)
(* another one; and what was announced is the copy.                        *)
CopyInv ==
    /\ thread # "none" => main \in {"store", "run"}
    /\ main \in {"mqtt", "store", "run"} /\ ~moved =>
        deviceIp = ip \/ (thread = "none" /\ main = "run")
    /\ subscribed => thread # "none" /\ announced = deviceIp

AddressInv == TypeOK /\ CopyInv

(* AddressAnnounced holds for any set of addresses.                        *)
THEOREM AddressIsAnnounced == Spec => []AddressAnnounced
<1>1. Init => AddressInv
  BY BootTypeInit DEF AddressInv, Init, CopyInv
<1>2. AddressInv /\ TypeOK' /\ [Next]_vars => AddressInv'
  <2> SUFFICES ASSUME AddressInv, TypeOK', [Next]_vars PROVE CopyInv'
    BY DEF AddressInv
  <2> USE DEF AddressInv, CopyInv, panel, addresses, session, reports
  <2>1. CASE Starting
    <3>1. CASE ReadConfigure
      BY <3>1 DEF ReadConfigure
    <3>4. CASE MqttCreate
      BY <3>4 DEF MqttCreate
    <3>5. CASE StoreClient
      BY <3>5 DEF StoreClient
    <3>2. CASE DeviceCreate
      BY <3>2 DEF DeviceCreate, DeviceAddress
    <3>3. CASE Blink \/ AllOpen \/ KeyInit \/ RelayCreate
      BY <3>3 DEF Blink, AllOpen, AllSet, KeyInit, RelayCreate
    <3> QED
      BY <2>1, <3>1, <3>2, <3>3, <3>4, <3>5 DEF Starting
  <2>2. CASE MqttThread
    BY <2>2 DEF MqttThread, SweepStart, SweepPublish, SweepClear, Disconnect, Connect, TypeOK
  <2>3. CASE KeyPress \/ UNCHANGED vars
    BY <2>3 DEF KeyPress, KeyShortPress, vars
  <2>4. ASSUME NEW a \in Address, DhcpOk(a) PROVE CopyInv'
    BY <2>4 DEF DhcpOk, TypeOK
  <2> QED
    BY <2>1, <2>2, <2>3, <2>4 DEF Next
<1>3. AddressInv => AddressAnnounced
  BY DEF AddressInv, CopyInv, AddressAnnounced
<1> QED
  BY <1>1, <1>2, <1>3, BootTypeCorrect, PTL DEF Spec, AddressInv

-----------------------------------------------------------------------------
(* The refinement of Panel.                                                *)

(* A relay that does not exist yet is closed.                              *)
RestClosed == \A r \in Relay : r >= made => status[r] = CLOSE

LEMMA RestInit == Init => RestClosed
BY DEF Init, RestClosed

LEMMA RestStep == TypeOK /\ RestClosed /\ [Next]_vars => RestClosed'
<1> SUFFICES ASSUME TypeOK, RestClosed, [Next]_vars PROVE RestClosed'
  OBVIOUS
<1> USE DEF RestClosed, TypeOK, Relay, Made, panel
<1>1. CASE AllOpen
  BY <1>1 DEF AllOpen, AllSet
<1>2. CASE RelayCreate
  BY <1>2 DEF RelayCreate, RelaysMissing, Created
<1>3. CASE KeyPress
  BY <1>3 DEF KeyPress, KeyShortPress, AllSet
<1>4. CASE \/ Blink \/ KeyInit \/ ReadConfigure \/ DeviceCreate \/ MqttCreate
           \/ StoreClient \/ MqttThread \/ UNCHANGED vars
           \/ \E a \in Address : DhcpOk(a)
  BY <1>4 DEF Blink, KeyInit, ReadConfigure, DeviceCreate, MqttCreate, StoreClient,
              MqttThread, SweepStart, SweepPublish, SweepClear, Disconnect, Connect, DhcpOk, vars
<1> QED
  BY <1>1, <1>2, <1>3, <1>4 DEF Next, Starting

(* A press is Panel's key with the relays still to be created and those    *)
(* whose GPIO call fails out of reach; every other step is a stutter.      *)
LEMMA PanelStep ==
  TypeOK /\ NoneYet /\ RestClosed /\ [Next]_vars => [P!PNext]_(P!pvars)
<1> SUFFICES ASSUME TypeOK, NoneYet, RestClosed, [Next]_vars
             PROVE  P!PNext \/ UNCHANGED P!pvars
  OBVIOUS
<1> USE DEF panel
<1>1. ASSUME NEW failed \in SUBSET (FaultyRelays \cap Made), KeyShortPress(failed)
      PROVE  P!PNext \/ UNCHANGED P!pvars
  <2> DEFINE rest == {r \in Relay : r >= made \/ r \in failed}
  <2>1. allStatus' = P!Flip
    BY <1>1 DEF KeyShortPress, P!Flip
  <2>2. status' = [r \in Relay |-> IF r \in Made \ failed THEN P!Flip ELSE status[r]]
    BY <1>1 DEF KeyShortPress, AllSet, P!Flip
  <2>3. \A r \in Relay : r \in Made \ failed <=> r \notin rest
    BY DEF Made, Relay, TypeOK
  <2>4. status' = [r \in Relay |-> IF r \in rest THEN status[r] ELSE P!Flip]
    BY <2>2, <2>3
  <2>5. P!Key(rest)
    BY <2>1, <2>4 DEF P!Key
  <2> QED
    BY <2>5 DEF P!PNext
<1>2. CASE AllOpen
  <2>1. Made = {} /\ status \in [Relay -> Status]
    BY <1>2 DEF AllOpen, NoneYet, Made, Relay, TypeOK
  <2>2. status' = status
    BY <1>2, <2>1 DEF AllOpen, AllSet
  <2> QED
    BY <1>2, <2>2 DEF AllOpen, P!pvars
<1>3. CASE RelayCreate
  <2>1. status[made] = CLOSE /\ status \in [Relay -> Status]
    BY <1>3 DEF RelayCreate, RelaysMissing, RestClosed, Relay, TypeOK
  <2>2. status' = status
    BY <1>3, <2>1 DEF RelayCreate, Created
  <2> QED
    BY <1>3, <2>2 DEF RelayCreate, P!pvars
<1>4. CASE \/ Blink \/ KeyInit \/ ReadConfigure \/ DeviceCreate \/ MqttCreate
           \/ StoreClient \/ MqttThread \/ UNCHANGED vars
           \/ \E a \in Address : DhcpOk(a)
  BY <1>4 DEF Blink, KeyInit, ReadConfigure, DeviceCreate, MqttCreate, StoreClient,
              MqttThread, SweepStart, SweepPublish, SweepClear, Disconnect, Connect, DhcpOk, vars, P!pvars
<1> QED
  BY <1>1, <1>2, <1>3, <1>4 DEF Next, Starting, KeyPress

(* From power-on the strip is a Panel: nothing but the key switches a      *)
(* socket while it starts, and presses alternate also when they fall       *)
(* before the relays exist.                                                *)
THEOREM StartImplementsPanel == Spec => ImplementsPanel
<1>1. Init => P!PInit
  BY DEF Init, P!PInit
<1>2. NoneYet /\ [Next]_vars => NoneYet'
  BY DEF NoneYet, Next, Starting, MqttThread, Blink, AllOpen, KeyInit, RelayCreate, ReadConfigure,
         DeviceCreate, MqttCreate, StoreClient, KeyPress, KeyShortPress, SweepStart, SweepPublish, SweepClear,
         Disconnect, Connect, DhcpOk, vars, panel
<1>3. Init => NoneYet
  BY DEF Init, NoneYet
<1> QED
  BY <1>1, <1>2, <1>3, BootTypeCorrect, RestInit, RestStep, PanelStep, PTL
  DEF Spec, ImplementsPanel, P!PanelSpec
=============================================================================

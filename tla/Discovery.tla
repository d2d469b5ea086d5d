------------------------------ MODULE Discovery ------------------------------
(***************************************************************************)
(* The dialogue between Home Assistant and the strip (user_mqtt.c and      *)
(* hass_mqtt_discovery.c): the strip announces its sockets, Home Assistant *)
(* sends commands to the topics the announcements name, the strip finds    *)
(* the socket in the topic and reports what it did; messages get lost, and *)
(* either side may restart.                                                *)
(*                                                                         *)
(* A topic is its number of levels, a message in the read buffer its       *)
(* length: mqtt_cmd_topic_Msg_cb searches and copies by counting           *)
(* characters in a buffer that nothing terminates.  The key interrupt may  *)
(* fall between any two steps of the callback and of the sweep, and a GPIO *)
(* call may fail.  The steps that drive the LED are RelayBoard's, those    *)
(* that connect are MqttSession's.                                         *)
(***************************************************************************)
EXTENDS Integers, Sequences

CONSTANTS
    NRelays,      \* number of sockets; 6 in the code
    FaultyRelays, \* relays whose GPIO call may return something else than HF_SUCCESS
    PrefixLevels, \* levels of discovery_prefix: 1, or 2 for a prefix with a slash
    WireMax       \* bound: commands in flight

ASSUME DiscoveryAssumption ==
    /\ NRelays \in 1 .. 10       \* one digit tells a socket
    /\ FaultyRelays \subseteq 0 .. NRelays - 1
    /\ PrefixLevels \in 1 .. 2
    /\ WireMax \in Nat \ {0}

Relay == 0 .. NRelays - 1
CLOSE == 0
OPEN == 1
Status == {CLOSE, OPEN}
None == 2

VARIABLES
    residue,    \* bytes behind the topic in the read buffer that are not 0, counted
                \* from its end, of those that a command does not always write
    link,       \* the strip is connected
    outlet,     \* what the relays' GPIOs were set to last; closed when never set
    status,     \* relay_device_t.status of each relay
    allStatus,  \* _relay_all_status
    updateFlg,  \* relay_update_flg
    pc,         \* next step of the MQTT thread; "idle" in its loop or while connecting
    cmd,        \* the command the callback is handling
    idx,        \* loop counter of the sweep
    wire,       \* commands on their way to the strip
    shown,      \* status of each socket as last reported to Home Assistant
    asked,      \* history: last command for a socket, unless it could not be
                \* read, got lost, was refused by the GPIO or undone by a press
    refused,    \* history: the GPIO refused the command being handled
    doubtful,   \* history: sockets whose last report did not arrive, was
                \* forgotten, false or overtaken by a press
    overrun     \* history: id_str was written beyond its end in this run

relays == <<outlet, status, allStatus, updateFlg>>
thread == <<pc, cmd, idx>>
buffer == <<residue, overrun>>
ha == <<shown, doubtful>>
vars == <<buffer, link, relays, thread, ha, wire, asked, refused>>

Command == [id : Relay, state : Status]

(* Bytes behind the topic: "ON" writes 1 and 2, "OFF" writes 3 as well.    *)
Leftover == {3, 4}
Length(s) == IF s = OPEN THEN 2 ELSE 3

NoCommand == [id |-> 0, state |-> CLOSE]

Init ==
    /\ residue \in SUBSET Leftover
    /\ link = FALSE
    /\ outlet = [r \in Relay |-> CLOSE]
    /\ status = outlet
    /\ allStatus = CLOSE
    /\ updateFlg = TRUE          \* app_main has called user_relay_aLL_set
    /\ pc = "idle" /\ cmd = NoCommand /\ idx = 0
    /\ wire = <<>>
    /\ shown \in [Relay -> Status]
    /\ asked = [r \in Relay |-> None]
    /\ refused = FALSE
    /\ doubtful = {}
    /\ overrun = FALSE

-----------------------------------------------------------------------------
(* Reading a command from its topic                                        *)

MacLength == 12

(* The levels of the command topic that are searched past by two calls of  *)
(* strchr, and those before the id.                                        *)
Skipped == 2
BeforeId == PrefixLevels + 1

(* strlen from the last slash found: "/id/set", after "/mac" when the      *)
(* prefix has two levels, and whatever follows up to the first 0.          *)
TailLength(s) == IF s = OPEN /\ 3 \notin residue THEN 2 ELSE IF 4 \notin residue THEN 3 ELSE 4
TextLength(s) == (BeforeId - Skipped) * (MacLength + 1) + 6 + TailLength(s)

CopiedLong(s) == TextLength(s) - 4
(* The third argument of strncpy.                                          *)
Copied(s) == TextLength(s) - 5
IdSize == 4

ParsedFromOne(r, s) == {r + 1}
(* What atoi may give for a command to socket r: anything once id_str has  *)
(* been overrun or another level than the id was found.                    *)
Parsed(r, s) ==
    IF Copied(s) <= IdSize /\ Skipped = BeforeId THEN {r} ELSE 0 .. NRelays

(* A prefix of one level and a buffer that ends after the longest command. *)
Fits == PrefixLevels = 1 /\ 4 \notin residue

-----------------------------------------------------------------------------
(* Reports and commands                                                    *)

Pending(r) ==
    \/ \E i \in 1 .. Len(wire) : wire[i].id = r
    \/ pc = "gpio" /\ cmd.id = r

(* Sockets whose last command has been carried out.                        *)
Done == {r \in Relay : asked[r] # None /\ ~Pending(r)}

(* A state message for each socket of rs.  It does not arrive when it gets *)
(* lost, when there is no topic for it yet (Boot), or when Home Assistant  *)
(* has not got the announcement that names the topic (MqttSession).        *)
Report(rs, arrives, said, sound) ==
    /\ shown' = [r \in Relay |-> IF r \in rs /\ arrives THEN said[r] ELSE shown[r]]
    /\ doubtful' = IF arrives /\ sound THEN doubtful \ rs ELSE doubtful \cup rs

-----------------------------------------------------------------------------
(* The strip: connection and sweep                                         *)

Connect ==
    /\ ~link
    /\ link' = TRUE
    /\ UNCHANGED <<buffer, relays, thread, wire, ha, asked, refused>>

(* The connection ends, and with it what was on its way.                   *)
Disconnect ==
    /\ link
    /\ pc = "idle"
    /\ link' = FALSE
    /\ wire' = <<>>
    /\ asked' = [r \in Relay |-> IF Pending(r) THEN None ELSE asked[r]]
    /\ UNCHANGED <<buffer, relays, thread, ha, refused>>

(* MQTT_EARTBEAT with the flag up: all states; then the flag goes down,    *)
(* whoever raised it.                                                      *)
SweepStart ==
    /\ link
    /\ pc = "idle"
    /\ updateFlg
    /\ pc' = "sweep"
    /\ UNCHANGED <<buffer, link, relays, cmd, idx, ha, wire, asked, refused>>

SweepPublish(arrives) ==
    /\ pc = "sweep"
    /\ idx < NRelays
    /\ Report({idx}, arrives, status, TRUE)
    /\ idx' = idx + 1
    /\ UNCHANGED <<buffer, link, relays, pc, cmd, wire, asked, refused>>

SweepClear ==
    /\ pc = "sweep"
    /\ idx = NRelays
    /\ updateFlg' = FALSE
    /\ pc' = "idle"
    /\ idx' = 0
    /\ UNCHANGED <<buffer, link, outlet, status, allStatus, cmd, ha, wire, asked, refused>>

Swept == IF pc = "sweep" THEN 0 .. idx - 1 ELSE {}

-----------------------------------------------------------------------------
(* The strip: mqtt_cmd_topic_Msg_cb                                        *)

AfterHeadAll == wire
(* MQTTYield takes the command received first from the connection.         *)
AfterHead == Tail(wire)

(* The callback starts and reads the socket; there may be none of that id. *)
Take(id) ==
    /\ pc = "idle"
    /\ wire # <<>>
    /\ wire' = AfterHead
    /\ LET r == Head(wire).id
           s == Head(wire).state
       IN  /\ id \in Parsed(r, s)
           /\ residue' = IF s = OPEN THEN residue ELSE residue \cup {3}
           /\ overrun' = (overrun \/ Copied(s) > IdSize)
           /\ cmd' = IF id \in Relay THEN [id |-> id, state |-> s] ELSE cmd
    /\ pc' = IF id \in Relay THEN "gpio" ELSE "idle"
    /\ UNCHANGED <<link, relays, idx, ha, asked, refused>>

(* relay_states_set: the GPIO call, its failure, which nothing looks at,   *)
(* and relay->status = status.                                             *)
Gpio ==
    /\ pc = "gpio"
    /\ outlet' = [outlet EXCEPT ![cmd.id] = cmd.state]
    /\ pc' = "record"
    /\ UNCHANGED <<buffer, link, status, allStatus, updateFlg, cmd, idx, ha, wire,
                   asked, refused>>

GpioFails ==
    /\ pc = "gpio"
    /\ cmd.id \in FaultyRelays
    /\ refused' = TRUE
    /\ asked' = IF \E i \in 1 .. Len(wire) : wire[i].id = cmd.id
                THEN asked ELSE [asked EXCEPT ![cmd.id] = None]
    /\ pc' = "echo"
    /\ UNCHANGED <<buffer, link, relays, cmd, idx, ha, wire>>

Record ==
    /\ pc = "record"
    /\ status' = [status EXCEPT ![cmd.id] = cmd.state]
    /\ pc' = "echo"
    /\ UNCHANGED <<buffer, link, outlet, allStatus, updateFlg, cmd, idx, ha, wire,
                   asked, refused>>

EchoedNone(id) == {}
(* The socket whose state the callback reports: as asked, not as it is.    *)
Echoed(id) == {id}

Echo(arrives) ==
    /\ pc = "echo"
    /\ Report(Echoed(cmd.id), arrives, [r \in Relay |-> cmd.state], ~refused)
    /\ refused' = FALSE
    /\ pc' = "idle"
    /\ cmd' = NoCommand
    /\ UNCHANGED <<buffer, link, relays, idx, wire, asked>>

-----------------------------------------------------------------------------
(* The key                                                                 *)

NextAllIncrement == allStatus + 1
NextAll == IF allStatus = CLOSE THEN OPEN ELSE CLOSE

(* Short press: user_relay_aLL_set.                                        *)
KeyShortPress(failed) ==
    /\ allStatus' = NextAll
    /\ outlet' = [r \in Relay |-> IF r \in failed THEN outlet[r] ELSE NextAll]
    /\ status' = [r \in Relay |-> IF r \in failed THEN status[r] ELSE NextAll]
    /\ updateFlg' = TRUE
    /\ asked' = [r \in Relay |-> IF r \in Done \ failed THEN None ELSE asked[r]]
    /\ doubtful' = doubtful \cup {r \in Swept : status'[r] # status[r]}
    /\ UNCHANGED <<buffer, link, thread, shown, wire, refused>>

(* The strip restarts, with another read buffer.                           *)
Restart ==
    /\ link' = FALSE
    /\ residue' \in SUBSET Leftover
    /\ outlet' = [r \in Relay |-> CLOSE]
    /\ status' = [r \in Relay |-> CLOSE]
    /\ allStatus' = CLOSE
    /\ updateFlg' = TRUE
    /\ pc' = "idle" /\ cmd' = NoCommand /\ idx' = 0
    /\ wire' = <<>>
    /\ asked' = [r \in Relay |-> None]
    /\ refused' = FALSE
    /\ overrun' = FALSE
    /\ UNCHANGED ha

-----------------------------------------------------------------------------
(* Home Assistant                                                          *)

(* A command for a socket it knows, to a strip that has subscribed.        *)
HaCommand(r, s) ==
    /\ link
    /\ Len(wire) < WireMax
    /\ wire' = Append(wire, [id |-> r, state |-> s])
    /\ asked' = [asked EXCEPT ![r] = IF Fits THEN s ELSE None]
    /\ UNCHANGED <<buffer, link, relays, thread, ha, refused>>

(* It restarts: nothing the strip has sent is retained.                    *)
HaRestart ==
    /\ doubtful' = Relay
    /\ UNCHANGED <<buffer, link, relays, thread, shown, wire, asked, refused>>

-----------------------------------------------------------------------------
Receive == \E id \in 0 .. NRelays : Take(id)

(* What the thread goes on with once begun.                                *)
Continue ==
    \/ Gpio \/ GpioFails \/ Record \/ SweepClear
    \/ \E arrives \in BOOLEAN : Echo(arrives) \/ SweepPublish(arrives)

Next ==
    \/ Connect \/ Disconnect \/ SweepStart \/ Receive \/ Continue
    \/ \E failed \in SUBSET FaultyRelays : KeyShortPress(failed)
    \/ Restart
    \/ \E r \in Relay, s \in Status : HaCommand(r, s)
    \/ HaRestart

Spec == Init /\ [][Next]_vars

(* A callback and a sweep go on to their end; sweeps, one a turn of the    *)
(* loop, cannot keep MQTTYield from a command that has been received.      *)
FairSpec == Spec /\ WF_vars(Continue) /\ SF_vars(Receive)

-----------------------------------------------------------------------------
TypeOK ==
    /\ residue \in SUBSET Leftover
    /\ link \in BOOLEAN
    /\ outlet \in [Relay -> Status]
    /\ status \in [Relay -> Status]
    /\ allStatus \in Status
    /\ updateFlg \in BOOLEAN
    /\ pc \in {"idle", "sweep", "gpio", "record", "echo"}
    /\ cmd \in Command
    /\ idx \in 0 .. NRelays
    /\ wire \in Seq(Command)
    /\ Len(wire) <= WireMax
    /\ shown \in [Relay -> Status]
    /\ asked \in [Relay -> Status \cup {None}]
    /\ refused \in BOOLEAN
    /\ doubtful \in SUBSET Relay
    /\ overrun \in BOOLEAN

(* id_str holds what is copied to it, also for an "ON" that leaves the end *)
(* of an "OFF" before it in the buffer, as long as the prefix has one      *)
(* level and no byte of the heap follows the longest command               *)
(* (user_mqtt.c:77-80).                                                    *)
IdFits == Fits => ~overrun

(* A command that can be read switches the socket it was sent to, and no   *)
(* other: once it has been carried out, and until a press undoes it, the   *)
(* outlet is what was asked for last, whatever else was asked, unless the  *)
(* GPIO call failed, which nobody learns (user_mqtt.c:81-98,               *)
(* relay.c:51-55).                                                         *)
CommandObeyed == \A r \in Done : outlet[r] = asked[r]

(* A socket is shown as what its status says once the thread is done       *)
(* reporting, with four exceptions, for which nothing reports it again,    *)
(* not even on reconnecting: its last report did not arrive, was forgotten *)
(* by Home Assistant, echoed a command the GPIO refused, or was overtaken  *)
(* by a press within the sweep that then took the press's flag down        *)
(* (user_mqtt.c:90-97 and 137-146).                                        *)
ShownIsTrue ==
    pc = "idle" /\ ~updateFlg => \A r \in Relay \ doubtful : shown[r] = status[r]

(* A command that can be read is carried out, or refused by the GPIO,      *)
(* unless another one, a restart or the end of the connection comes first; *)
(* presses, and the sweeps they cause, do not prevent it (mqtt.c:130-137,  *)
(* user_mqtt.c:70).                                                        *)
CommandAnswered ==
    \A r \in Relay, s \in Status :
        asked[r] = s
            ~> (asked[r] # s \/ outlet[r] = s \/ (refused /\ cmd = [id |-> r, state |-> s]))

(* To whoever operates it through Home Assistant the strip is Remote:      *)
(* connections, sweeps, lost messages and restarts of Home Assistant       *)
(* switch nothing, and no command is carried out twice or after a later    *)
(* one, wherever presses and failures fall (user_mqtt.c:70-147).           *)
R == INSTANCE Remote WITH Socket <- Relay, Off <- CLOSE, On <- OPEN,
                          mode <- allStatus, orders <- wire, legible <- Fits,
                          current <- IF pc = "gpio" THEN {cmd} ELSE {}
ImplementsRemote == R!RemoteSpec
=============================================================================

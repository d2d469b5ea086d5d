# TLA+ models of the TC1A2 firmware

TC1A2 is replacement firmware for the Phicomm TC1 power strip: six sockets
behind relays, one button, one LED, a BL0937 power meter and a HF-LPT230 WiFi
module that talks MQTT to Home Assistant. This directory holds TLA+ models of the
firmware, the TLC configurations that check them, and TLAPS proofs. All source
paths below are relative to `src/`, the firmware's own code (about 1500 lines of
C); `sdk/` and `thirdpartylib/` are vendored.

`PROJECT.json` maps every definition that stands for code to the lines it stands
for, and lists runs, mutants, hazards and theorems.

## 1. The system

| component | code | state | operations |
|---|---|---|---|
| relays and LED | `components/device/{relay,led,gpio}.c`, `components/user/user_{relay,led}.c` | GPIO level and a `status` field per device | set, get, set all, "LED follows relays" scan |
| key | `components/user/user_key.c` | `_relay_all_status`, `_last_interrupt_time` | edge interrupt: debounce, short press, long press |
| MQTT commands and states | `components/user/user_mqtt.c` | `relay_update_flg`, topics | command callback, heartbeat sweep, discovery and "online" on connect |
| MQTT connection | `components/device/mqtt.c` | socket, `ping_time` | one thread: wait for WiFi, connect, loop, end, again |
| configuration | `components/user/user_init.c` | a page of user flash, the buffer `hass_config` | AT command writes it, boot reads it, boot frees the buffer |
| power meter | `components/device/power_meter.c` | last pulse, pulse length, "load off", energy counter | CF pin interrupt, timer callback |
| discovery | `components/device/hass_*.c` | topics of each component | topic and JSON text |
| boot and events | `app_main.c` | system flash copy, handles | start-up order, WiFi events |

**Who runs when.** The MQTT thread runs the command callback (from inside
`MQTTYield`) and the heartbeat sweep one after the other. The key interrupt and
the CF interrupt preempt everything and run to their end. The timer callback of
the power meter and the UART task (AT commands) run beside the MQTT thread and
beside `app_main`. Nothing in the code locks or disables interrupts.

**How they interact.** The key interrupt and the MQTT thread share the relay and LED
devices and `relay_update_flg`. The CF interrupt and the timer callback share three
words. The AT task and `user_init` share the buffer, and through the flash one
boot talks to the next. The MQTT thread shares with the broker a session, and with
Home Assistant what it was last told.

**What is hard.** Drivers write the pin and then the status, in two steps, and a
press can fall between; the LED is decided on a scan that a press can make stale;
a flag is cleared after the sweep rather than before; every GPIO, publish and
flash result is ignored or only logged; the flash marker precedes the data it
marks; a freed buffer stays in use; the power meter compares two values loaded at
different times; clocks wrap; retained messages are not used; a topic is taken apart by
counting characters in a buffer that nothing terminates.

What makes each component correct:

- relays and LED: status agrees with pin, LED with relays, a press with what the
  previous press did, and sockets only switch when somebody asked;
- key: one push, one effect, the one its length calls for;
- commands and states: a command switches the socket it names and no other, and in the
  end the broker knows every relay's state;
- connection: "online" is only shown for a strip that can be commanded, and is
  taken back when it dies; working connections are kept alive; lost ones come back;
- configuration: what a successful command stored is what later boots use, and no
  failure mixes two configurations;
- power meter: a length is a true gap between pulses, a stopped load is found out, and a
  running load is not taken for a stopped one.

## 2. The modules

### Relay board

`RelayBoard` is the board with its two actors. Key handling is one atomic action
(`KeyShortPress`; the interrupt runs to completion): it sets every relay, except those
whose GPIO call fails, to the opposite of `_relay_all_status`, sets the LED, and raises the
flag. The MQTT thread is split where an interrupt can tell the difference; `pc` names
the next step. A command is `CmdReceive`, `CmdGpio` / `CmdGpioFails`, `CmdStatus`, then
for OFF the scan (`CmdScan`, `CmdScanEnds`), for ON `CmdLedTest`, then the LED's own
two writes (`CmdLedGpio`, `CmdLedStatus`), then `CmdEcho`. The heartbeat is
`Heartbeat`, `SweepPublish` per relay, `SweepClear`. `NRelays` stands for 6;
`FaultyRelays`, `FaultyLed`, `MayLose` say which calls may fail. GPIO level, trigger level
and status are related by `Level`, translated from the XOR of `relay.c:51`. A relay
pin nobody has written is `UNDRIVEN`, because `relay_create` does not drive it.

`RelayBoardHist` adds history variables that name the causes that may part two
pieces of state (`torn`, `ledTorn`, `ledStale`, `refused`, `doubtful`, `commanded`). Its
invariants say that nothing else does: `StatusFaithful`, `LedShowsRelays`,
`BrokerKnows`, `PressBaseline`.

`Panel` is the abstract specification: outlets, the mode of the last press, at most one request
under way. `RelayBoardPanel` is the refinement mapping. An outlet is a *pin* that
drives its relay, not a status, so the mapping is not disturbed by torn writes: the
implementation keeps the promise about sockets even where its own records go wrong.
The module also holds the liveness properties and `ThreadProgress`, the measure behind them:
`StepsLeft` counts the steps the MQTT thread takes at most until it waits again.

`RelayBoardMC` puts history and mapping together for one run. `RelayBoardClaims` states
a comment of the source that the races refute.

`RelayBoardProofs`, `RelayBoardHistProofs`: see section 5.

### Configuration in flash

`FlashConfig`: `flag` is byte 0 of the user flash page, `flash` the cells behind it (a cell
stands for one field of `hass_config_t`; bytes within a field behave alike), `ptr` the pointer
`hass_config` (null, live, freed), `buf` what it points to. `Alloc`, `ReadFlag`,
`ReadCell`, `ReadEnds`, `Start`, `Free` are `user_init`; `CmdStart`, `Erase`,
`WriteFlag`, `WriteCell`, `CmdEnds` are the AT command; `Reuse` lets the heap hand the
freed block to someone who writes to it; `Restart` is power loss at any step.
Programming a cell that is not erased gives `GARBAGE`. The command copies its arguments to the buffer in one step; a
boot that reads the flash to the same buffer meanwhile does so before or after it. `EarlyCommands` says whether a
command may arrive before `user_init` is over (the UART is started before it,
`app_main.c:338`).

`FlashConfigHist` adds which command the content is due to and what interfered, the
invariants `SoundIsStored`, `NoMix`, `RebootKeepsConfig` and the comments
`FlagMeansConfigured` and `GivenIsWritten`. `FlashConfigProofs` proves the invariants.

`ConfigStore` is the abstract specification: a store that exchanges whole configurations. The
configuration kept is the flash page as long as what it is due to is sound; a command
is writing from the end of its erase to its own end; a boot is clean as long as no command and no
failed read falls into it. A store may end with nothing kept, which is where failures and
the freed buffer go; it may not change what it keeps, keep a part, or boot something else.

### MQTT session

`MqttSession`: `pc` walks through `mqtt_client_thread` (wifi, net, connect, subscribe,
config, heartbeat, yield, check, end), `ci` is the loop over the components, `sincePing` the
clock of `ping_time`. The broker is external: a session that is live, stale or gone,
its subscription, its silence clock, its will. Home Assistant is what it heard last
(`avail`) and which components it was told of (`known`). `MqttConnect(accepted, ok)` and
`Subscribe(accepted, ok)` separate what the broker did from what the client
learnt. Every other packet has a parameter `sent`: it may get lost on a session that stays up,
which the code only logs (`user_mqtt.c:122-127`) or does not look at (`mqtt.c:145-149`). The history
variables `unsent` (components whose last announcement got lost), `unheard` (the "online" of this
connection got lost) and `pingLost` (a ping got lost since the broker last heard anything) record the losses
that matter. `Ping` resets `sincePing` whether or not the broker got it, as the code sets `ping_time` before
it writes. Time passes only in `Tick`, which stands for the whole turn of the inner
loop; ten seconds are a tick. `MqttSessionProofs` proves the invariants.

`Presence` is the abstract specification, seen from Home Assistant: the strip is reachable
when a session is subscribed; it appears only then, and only after each component was described or its
description lost; it vanishes in the step that ends such a session.

### The dialogue with Home Assistant

`Discovery`: Home Assistant sends commands to the topics the announcements name (`wire`, in order, until the
connection ends) and shows what was last reported (`shown`). `mqtt_cmd_topic_Msg_cb` is taken apart where a
press or a failure makes a difference: `Take` reads the socket from the topic, `Gpio` or `GpioFails` is the GPIO call of
`relay.c:51`, `Record` the status of `relay.c:52`, `Echo` the report of `user_mqtt.c:97`, made whether or not the
call succeeded. The sweep is `SweepStart`, `SweepPublish` per socket and `SweepClear`. `KeyShortPress` falls between
any two of them, with any of `FaultyRelays` refusing it. The steps of the LED are left to `RelayBoard`. A report
may get lost, and either side may restart.

Whether a report finds a topic (`Boot`) and whether Home Assistant has been told of the socket
(`MqttSession`) is not tracked here: a report that is not understood for want of an announcement is one that does not
arrive (`arrives`), and a strip that connected without subscribing gets no command, which is a `wire` that
stays empty.

Four history variables: `asked` is the last command for a socket, as long as it counts, `refused` says that the GPIO has refused the command in
hand, `doubtful` holds the sockets whose last report did not arrive, was forgotten, was false or was overtaken by a
press, and `overrun` says that `id_str` was written beyond its end.

`mqtt_cmd_topic_Msg_cb` looks for the id with two calls of `strchr` and copies
`strlen(tem) - 5` characters into `id_str[4]`; what follows the topic in the read buffer is the
payload and then whatever was there before, up to the first zero byte. The model
keeps of this what decides the result: the number of levels of the discovery prefix (`PrefixLevels`), and
which of the bytes behind the payload are not zero (`residue`): an "OFF" leaves one that a later "ON" is
measured with, the heap may have left one behind both. `TextLength` and `Copied` are the
lengths the code computes; when they do not fit or the level is not the id's, `Parsed` allows any id.
Of the ten components the code provides for, it makes seven, as `component_num_set` is never called: six
sockets and the power sensor, for which no state is ever published (`user_mqtt.c:150-154` is commented
out). Only sockets take commands, so the branch for id 8 (`user_mqtt.c:101`) is not reached by
announced topics; the switch it seems meant for has id 9 (`user_mqtt.c:175`).

`Remote` is the abstract specification: orders are accepted one at a time, in turn, for the socket they name; an accepted
one is carried out once, or refused, before the next; those not yet accepted are lost together with the connection; and nothing
else switches an outlet but the key, which may come between any two of these steps and may not reach every socket. What is
reported is not part of it: the code's reports can be false (see `ShownIsTrue`).
Orders need not be legible; `Discovery` makes them so where `Fits` holds.

### Key and power meter

`KeyPress`: finger, contact and firmware. The contact follows the finger within
`Bounce`, flipping any number of times; every flip calls the handler while the firmware
is on. A long push restarts the system, so the firmware goes off. Pushes shorter
than the settling time of the contact are left out. `Button` is the abstract specification: a finger, and
the one effect its push has, after it and before the next; bounces and the clock are
left only as `Slack`.

`PowerMeter`: `Pulse` is `cf_interrupt`, atomic, at most one per tick. `timer_handler`
is `TimerFires`, `LoadNow` and `LoadLast` (C leaves the order of the two operands to the
compiler), `Compare`, `ZeroLength`, `SetLoadOff`. The timer is never late by more than
the handler that is still running, and a handler ends before its next turn. The clock starts at 0.
History variables: the true time since the last pulse and whether a pulse raced with the handler.
A restart brings every variable back to its initial value and is left out.

### Start

`Boot`: `main` walks through `app_main`, `user_init` and `user_mqtt_init`; relays come into
being one at a time. Between any two steps the key may be pressed, once its interrupt is enabled,
DHCP may give an address, and, once `mqtt_create` has started it, the MQTT thread may take a step: connect,
even before its handle is stored, start a sweep (`SweepStart`), publish one relay (`SweepPublish`, which may get lost or have no
topic) or lower the flag (`SweepClear`). A press sets the relays made so far except those of `FaultyRelays` whose GPIO call
fails this time (`spared`), and marks as `doubtful` those the sweep under way has already published. What a call through a null handle does is
undefined; here it does nothing, or the strip restarts, which is a new behaviour from `Init`.
Whether the flash has a configuration is left open (`FlashConfig` models it). `Connect` takes connecting, subscribing and
announcing together, which `MqttSession` takes apart; commands begin with the first subscription and are `Discovery`'s
and `RelayBoard`'s. Without a press in the start,
`KeyReachedMade` gives the state `RelayBoard` begins with: all relays closed and the key
remembering "closed". The start implements `Panel` too, with no request ever under way. `BootProofs`
proves all this.

## 3. The runs

| run | module, cfg | checks | bounds and why they are enough |
|---|---|---|---|
| board_safety | RelayBoardMC | type, StatusFaithful, LedShowsRelays, BrokerKnows, ImplementsPanel | 2 relays, one of which may fail, LED may fail, messages may be lost. Two relays are the least with a swept and an unswept one, and with a failing and a working one; 1.8 million states |
| board_live | RelayBoardPanel | ImplementsFairPanel, CallbackEnds, FlagServed, ThreadProgress | 2 relays, fair, no restarts |
| claim_flag | RelayBoardClaims | one comment | refuted on a board without any failure |
| flash_config | FlashConfigHist | type, SoundIsStored, NoMix, ImplementsStore | 2 cells and 2 configurations: a first and a last cell, an old and a new value |
| discovery | Discovery | type, IdFits, CommandObeyed, ShownIsTrue, CommandAnswered, ImplementsRemote | 2 sockets, the one asked and another, one of which may refuse; 2 commands under way, which may be for one socket or for two, besides the one in hand; any content of the read buffer, so that ids overrun and do not; a prefix of one level: with two the id is never found, and any socket may be hit, as with a buffer that overruns; 426905 states |
| claim_flag_config, claim_given | FlashConfigHist | one comment each | commands after the boot only |
| mqtt_session | MqttSession | type, OnlineMeansReachable, OnlineMeansDiscovered, KeepAliveKept, OfflineShown, Recovers, ImplementsPresence | 2 components, a first and a last; ping after 3, turn of 2, limit of 5 ticks: the tightest values the assumption allows; any packet may get lost; 279362 states |
| key_press | KeyPress | type, PushDidItsPart, ImplementsButton | clock of 16 values that wraps during pushes; 2, 6, 10 for debounce, short, long, bounce 2, so that each class of push has lengths clear of its limits |
| power_meter | PowerMeter | type, LengthIsGap, StoppedLoadSeen, OffShowsNothing, OffMeansQuiet, EnergyCounted | clock of 8, probe time 3, timer period 1: the clock wraps while loads are on and off |
| claim_no_load | PowerMeter | one comment | as power_meter |
| boot | Boot | type, KeyReachedMade, StartReported, AddressAnnounced, ImplementsPanel | 3 relays, so that presses can fall between two creations, and between two messages of a sweep, on either side; one of them may fail; 2 addresses, an old and a new one |

No run turns deadlock checking off: there is always a key to press, a
message to receive or time to pass.

### What the runs found

Four statements of the source do not hold. Each has a run that shows it.

1. `RaisedFlagIsSent` (`user_mqtt.c:33`): a press during a sweep raises a flag that the end
   of the sweep clears.
2. `FlagMeansConfigured` (`user_init.c:68`): the flag is written before what it
   announces, so power loss or a failed write leaves a flag without configuration.
3. `GivenIsWritten` (`user_init.c:73`): commands after the boot go through freed memory.
4. `NoLoadMeansQuiet` (`power_meter.c:10`): when a pulse arrives between the two loads of
   `power_meter.c:64` and a millisecond boundary lies between them, the unsigned
   difference wraps, and a running load is taken for off.

More observations, stated as the exceptions of the invariants. A press between
`relay.c:51` and `:52` leaves the status the opposite of the pin until the relay is next set (`torn` of
`RelayBoardHist`). A press between the LED scan
and the LED write leaves the LED on over closed relays (`ledStale`). A pulse between
`power_meter.c:65` and `:66` leaves a length with the load marked as off (`torn`). A failed
subscription leaves the strip connected, silent and never shown as online while the
connection lasts; so does an "online" that gets lost, which is only logged and never sent again
(`user_mqtt.c:126-127`); and a Home Assistant that restarts during a connection forgets the strip
(`Recovers` excepts these three). A strip is shown as online without a component when its announcement got lost
(`user_mqtt.c:122-123`), or when Home Assistant restarted between the announcements and "online", as neither
is retained (`OnlineMeansDiscovered` excepts both, by `unsent` and `forgot`). One lost ping may cost the session:
`ping_time` is set before the write and the next ping comes only after the broker's limit, unless another packet
gets through (`pingLost` in `KeepAliveKept`).
A press during `user_relay_init` switches the relays created so far while the key
remembers it for all of them; and it remembers it also for a relay whose GPIO call failed, which nobody
asks (`KeyReachedMade`, `spared`). The "everything on" of `app_main.c:350`
comes before the relays exist and leaves them closed. An announcement carries the IP address of the moment
`user_mqtt_init` ran, which is empty if DHCP was not done by then; addresses that come later
never reach it (`AddressAnnounced`). A report is not repeated, not even on reconnecting, when it was lost, when the Home Assistant that had it
restarts, when it was sent before the first subscription and so to no topic, when it echoes a command that the GPIO refused
(`user_mqtt.c:90-97`; what Home Assistant then shows is false), or when a press during a sweep makes it
wrong and that sweep takes the press's flag down (`doubtful` in `ShownIsTrue` and `StartReported`). A refused command is
never carried out and nobody learns of it (`CommandObeyed`, `CommandAnswered`). With a slash in the discovery prefix, or with a longer leftover in the read buffer, the
copy of the id runs over `id_str` (`Fits` in `IdFits` and `CommandObeyed`); without them it
always fits, to the last byte.

## 4. Fairness

- `RelayBoard!FairSpec`: weak fairness of the steps of a callback, of a sweep and of
  connecting: the thread is scheduled. Strong fairness of leaving `MQTTYield`: it
  has a timeout of 300 ms (`mqtt.c:134`), so messages cannot hold it for ever. No
  fairness of the key. Restarts are left out of this specification, as a restart answers no
  command.
- `MqttSession!FairSpec`: weak fairness of the thread, of the broker dropping dead
  sessions and of the WiFi coming back; strong fairness of a connect, an MQTT
  connect and a subscription that succeed, since the thread tries for ever
  (`mqtt.c:94`); strong fairness of `MQTTYield` failing on a broken connection, which is the
  library's contract.
- `Discovery!FairSpec`: weak fairness of `Continue`, the steps of a callback or a sweep once begun: the thread is
  scheduled. Strong fairness of `Receive`: the thread calls `MQTTYield` once a turn of its loop
  (`mqtt.c:130-137`), at most one sweep apart, and that hands on a command that has been received, however many sweeps the
  key causes. `CommandAnswered` excepts what may come first: another command, a restart, the end of the connection, or
  the GPIO refusing it. Presses are no exception: they do not keep a command from being carried out.
- The other modules have safety properties only. That a stopped load is found out is
  bounded in time and therefore safety.

## 5. What is proved

TLAPS checks, for every value of the constants that satisfies the module's
assumption (`BoardAssumption`, `FlashAssumption`, `SessionAssumption`, `BootAssumption`, `DiscoveryAssumption`,
`KeyAssumption`, `MeterAssumption`):

- `RelayBoardProofs`: `TypeCorrect`; `Refinement`, that is `Spec => ImplementsPanel`. One
  lemma per group of actions shows that it maps to a Panel step or a stutter: only
  `CmdGpio`, `CmdGpioFails`, `KeyShortPress`, `CmdReceive` and `Restart` are not stutters. The
  type invariant is all that the mapping needs. `ThreadAdvances`: `StepsLeft` falls with every step of
  the thread, and a press leaves it as it is, so a callback takes at most `NRelays + 7` steps of its own and
  a sweep `NRelays + 2`; that the thread takes these steps is fairness, and so `CallbackEnds`
  stays with TLC. `FairBoard` carries both over to the fair specification that `board_live` runs.
- `RelayBoardHistProofs`: `HTypeCorrect`, `StatusesFaithful`, `LedShows`, `BrokerIsTold`,
  `PressBaselineHolds`. None but the last is inductive. `FaithfulInv` adds that between
  the two writes of a driver the pin has what the second write will record; `LedInv` adds that
  the scan has seen only closed relays so far and that the LED value under way is right;
  `BrokerInv` adds the partial sweep and the echo that is still to come. `HistoryOnlyWatches`: the
  history variables restrict nothing, so what is proved of `RelayBoard` holds with them.
- `FlashConfigProofs`: `FlashTypeCorrect`, `SoundStays`, `NeverMixed`, `RebootKeeps`. `BufferInv` says
  that an unspoiled buffer is the command's, `ProgressInv` what the erase and the write
  loop have done so far, `BootInv` what a clean boot has read so far. `StoreRefinement`: the page
  implements `ConfigStore`; commands map by `CommandMaps`, boots by `BootMaps`, and the invariants above say that
  what a finished command kept is all its own and what a clean boot runs with is what is kept.
  Two theorems say what is true of the comment `GivenIsWritten` refutes. `WrittenUnlessTainted`: it holds
  unless somebody else wrote the buffer or the erase failed. `CommandsUseFreed`: when commands come only
  after the boot (`~EarlyCommands`), every command works on the freed buffer.
- `MqttSessionProofs`: `SessionTypeCorrect`, `OnlineIsReachable`, `OnlineIsDiscovered`, `KeepsAlive`.
  `LinkInv` ties the thread's step to link and session, `ClockInv` says that, unless a ping got lost, the
  broker's silence clock does not run ahead of `sincePing`, which the check after every
  turn bounds; `AnnounceInv` says that on the way to "online" each component before `ci` is known or its
  announcement lost. `SessionImplementsPresence` needs all but the clock: "online" finds a subscribed session and every component
  described or its description lost, and each way a session ends publishes the will that session was opened with.
- `BootProofs`: `BootTypeCorrect`, `KeyReaches`, `StartIsReported`, `AddressIsAnnounced`. `NoneYet` says that
  nothing exists before `user_relay_init`; `ThreadInv` that the MQTT thread finds all relays
  and no flag lowered before it, `SweepInv` that in a sweep the flag is up and the broker has the relays before `idx` that are
  not doubtful; `CopyInv` how address, copy and announcement agree.
  `StartImplementsPanel`: with `NoneYet` the "all open" of `app_main.c:350` is a stutter, and
  `RestClosed` says that relays not yet made are closed, so that making one is a stutter too.
- `DiscoveryProofs`: `DiscoveryTypeCorrect`, `IdAlwaysFits`, `CommandsAreObeyed`, `WhatIsShownIsTrue`. `ObeyInv`
  adds to `CommandObeyed` that the last command on the wire for a socket is the one asked for last (`LastAsked`), and
  when there is none there but one is before its GPIO call, that one is (`TakenAsked`); the sequence facts this needs are lemmas
  about `Head`, `Tail` and `Append`. `ShownInv` adds to `ShownIsTrue` what is so during a sweep (the flag is up, the sockets before
  `idx` are reported) and before an echo (the socket in hand need not be shown, but with no press since the command was recorded its
  status is what the echo will say). `StripImplementsRemote` needs the types and `FitsParsed`: `TakeAccepts` maps taking a command,
  `GpioSwitches` the GPIO call, its failure and the press; recording, reports and sweeps are stutters.
- `KeyPressProofs`: `KeyTypeCorrect`, `OneEffect`, `PushDoesItsPart`. Lemmas turn differences modulo
  `Wrap` into sums. `PushInv` follows one push: while the contact closes nothing has
  happened and what will be measured is the hold so far but for the bounces (`ClosingInv`); after letting go the
  contact has not opened yet (`HeldInv`), or it has with the effects of a measure within `Bounce` of the
  hold, and what it bounces since is too short to count (`OpenedInv`). `KeyImplementsButton` rests on the
  same invariant: an edge changes nothing or is the button's one act (`EdgeMaps`), and a new push finds the
  last one over, with what it owed (`PushCounts`).
- `PowerMeterProofs`: `MeterTypeCorrect`, `LengthIsTrue`, `StoppedLoadIsSeen`, `OffShowsNoPower`, `OffIsQuiet`,
  `PulsesAreCounted`. `MeterInv` says that the clock measures the time since the last pulse as long
  as that is below `Never` (`ClockInv`), that what `timer_handler` has loaded lags by no more than
  the timer has run since (`LoadInv`), and so that a load cannot be quiet for longer
  than the probe time and two periods undiscovered (`DueInv`). The assumption is that `Never` is less than a
  turn of the clock: 12 s of 49 days.

Only model-checked: everything temporal beyond safety (`ImplementsFairPanel`,
`CallbackEnds`, `FlagServed`, `OfflineShown`, `Recovers`, `CommandAnswered`), which needs reasoning
about fairness and ENABLED that the prover does not do. The safety part of `ImplementsFairPanel` is
`Refinement`. No module uses a recursive operator.

Only proved, as the runs check something stronger or related to them: `PressBaseline` (beside `ImplementsPanel`),
`RebootKeepsConfig` (in `ImplementsStore`: a clean boot runs with what is kept) and `OneEffectPerPush`
(in `ImplementsButton`: the button acts at most once between two pushes).

Each component but the power meter implements an abstract specification:

| abstract | implemented by | mapping in | theorem |
|---|---|---|---|
| Panel | RelayBoard, Boot | RelayBoardPanel, Boot | Refinement, StartImplementsPanel |
| ConfigStore | FlashConfigHist | FlashConfigHist | StoreRefinement |
| Presence | MqttSession | MqttSession | SessionImplementsPresence |
| Remote | Discovery | Discovery | StripImplementsRemote |
| Button | KeyPress | KeyPress | KeyImplementsButton |

## 6. Not modelled

- `sdk/` and `thirdpartylib/`: by far most of the lines of the repository, and no part of
  this program. The project file (`projects/LPT230_gcc.uvprojx`) compiles `app_main.c` and the fourteen files under
  `components/`; the SDK is linked as a library, the MQTT client too (only its headers are
  here), and Linkkit, Alink, JingDong and the rest are not called. The models cover the fifteen own files;
  measured against all files of the repository their share is tiny and cannot be raised
  without leaving the program.
- The text of topics and JSON in `hass_mqtt_discovery.c`, `hass_component.c` and `hass_device.c`, beyond the
  levels and lengths `Discovery` needs, when the state topics exist and which
  address is announced (`Boot`); the getters; the delete functions, which nothing calls.
- The Airkiss type of `app_main.c:89-157`: a string with a sum of its bytes, written by an AT
  command and handed to the SDK at the end of the start; nothing else reads it.
- The LED during the start, `app_init`, printing, the web server and the other services `app_main` starts.
- The heap (the JSON text that is never freed, `user_mqtt.c:47`), the sizes of buffers other than
  `id_str` (topics of a long prefix in 100 bytes; the address of `user_init.c:35`, whose buffer of 11 bytes an ordinary
  192.168.x.x already overflows), the thread handle of
  `mqtt.c:201`.
- The SDK calls, the MQTT library, the broker and Home Assistant, except as external actions.

## 7. Plan

Done, in this order: RelayBoard with its history, Panel and proofs; FlashConfig;
MqttSession; KeyPress; PowerMeter; Boot; Discovery; the proofs of KeyPress, PowerMeter and Discovery;
the abstract specifications ConfigStore, Presence, Button and Remote, with the proofs that they are
implemented, and the measure of the MQTT thread.

What is left: an abstract specification of the power meter, whose invariants say nearly all it could.
A composition of `KeyPress` with `RelayBoard` would add little (a press is already possible
at every step of the board, and `KeyImplementsButton` says when there is one), and so would one of `MqttSession` with
`Discovery` (both already let the connection end, and either side restart, at any step).

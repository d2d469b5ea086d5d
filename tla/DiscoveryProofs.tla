--------------------------- MODULE DiscoveryProofs ---------------------------
(***************************************************************************)
(* The invariants of Discovery, for any number of sockets that one digit   *)
(* can tell apart and any number of commands in flight.                    *)
(***************************************************************************)
EXTENDS Discovery, TLAPS

USE DiscoveryAssumption DEF DiscoveryAssumption

-----------------------------------------------------------------------------
(* Taking the first command from the wire shifts the others.               *)
LEMMA TailFacts ==
    ASSUME wire \in Seq(Command), wire # <<>>
    PROVE  /\ Tail(wire) \in Seq(Command)
           /\ Len(wire) \in Nat \ {0}
           /\ Len(Tail(wire)) = Len(wire) - 1
           /\ \A i \in 1 .. Len(wire) - 1 : Tail(wire)[i] = wire[i + 1]
           /\ Head(wire) = wire[1] /\ Head(wire) \in Command
  OBVIOUS

(* A new command goes behind the others.                                   *)
LEMMA AppendFacts ==
    ASSUME wire \in Seq(Command), NEW c \in Command
    PROVE  /\ Append(wire, c) \in Seq(Command)
           /\ Len(Append(wire, c)) = Len(wire) + 1
           /\ \A i \in 1 .. Len(wire) : Append(wire, c)[i] = wire[i]
           /\ Append(wire, c)[Len(wire) + 1] = c
  OBVIOUS

(* Whatever a report says in states keeps the types.                       *)
LEMMA ReportType ==
    ASSUME TypeOK, NEW rs \in SUBSET Relay, NEW arrives \in BOOLEAN, NEW sound \in BOOLEAN,
           NEW said \in [Relay -> Status], Report(rs, arrives, said, sound)
    PROVE  shown' \in [Relay -> Status] /\ doubtful' \in SUBSET Relay
  BY DEF Report, TypeOK

LEMMA TypeInit == Init => TypeOK
<1> SUFFICES ASSUME Init PROVE TypeOK
  OBVIOUS
<1>1. wire \in Seq(Command) /\ Len(wire) <= WireMax
  BY DEF Init
<1>2. outlet \in [Relay -> Status] /\ status \in [Relay -> Status] /\ allStatus \in Status
  BY DEF Init, Status
<1>3. asked \in [Relay -> Status \cup {None}] /\ shown \in [Relay -> Status]
  BY DEF Init
<1>4. cmd \in Command /\ idx \in 0 .. NRelays /\ doubtful \in SUBSET Relay
  BY DEF Init, NoCommand, Command, Relay, Status
<1>5. link \in BOOLEAN /\ refused \in BOOLEAN
  BY Zenon DEF Init
<1> QED
  BY <1>1, <1>2, <1>3, <1>4, <1>5 DEF Init, TypeOK

LEMMA TypeStep == TypeOK /\ [Next]_vars => TypeOK'
<1> SUFFICES ASSUME TypeOK, [Next]_vars PROVE TypeOK'
  OBVIOUS
<1> USE DEF TypeOK, relays, thread, buffer, ha
<1>1. <<>> \in Seq(Command) /\ Len(<<>>) <= WireMax
  OBVIOUS
<1>2. CASE Connect
  BY <1>2 DEF Connect
<1>3. CASE Disconnect
  <2>1. asked' \in [Relay -> Status \cup {None}]
    BY <1>3 DEF Disconnect
  <2> QED
    BY <1>1, <1>3, <2>1 DEF Disconnect
<1>4. CASE SweepStart \/ SweepClear
  <2>1. idx' \in 0 .. NRelays
    BY <1>4 DEF SweepStart, SweepClear
  <2>2. updateFlg' \in BOOLEAN
    BY <1>4, Zenon DEF SweepStart, SweepClear
  <2> QED
    BY <1>4, <2>1, <2>2 DEF SweepStart, SweepClear
<1>5. ASSUME NEW arrives \in BOOLEAN, SweepPublish(arrives) PROVE TypeOK'
  <2>1. idx \in Relay /\ idx' \in 0 .. NRelays
    BY <1>5 DEF SweepPublish, Relay
  <2>2. shown' \in [Relay -> Status] /\ doubtful' \in SUBSET Relay
    <3>1. Report({idx}, arrives, status, TRUE) /\ {idx} \in SUBSET Relay
      BY <1>5, <2>1 DEF SweepPublish
    <3> QED
      BY <3>1, ReportType
  <2> QED
    BY <1>5, <2>1, <2>2 DEF SweepPublish
<1>6. ASSUME NEW id \in 0 .. NRelays, Take(id) PROVE TypeOK'
  <2> DEFINE r == Head(wire).id
             s == Head(wire).state
  <2>1. wire' \in Seq(Command) /\ Len(wire') <= WireMax /\ r \in Relay /\ s \in Status
    BY <1>6, TailFacts DEF Take, AfterHead, Command
  <2>2. cmd' \in Command /\ residue' \in SUBSET Leftover
    BY <1>6, <2>1 DEF Take, Leftover, Command
  <2>3. overrun' \in BOOLEAN
    BY <1>6, Zenon DEF Take
  <2> QED
    BY <1>6, <2>1, <2>2, <2>3 DEF Take
<1>7. CASE Gpio \/ Record
  <2>1. cmd.id \in Relay /\ cmd.state \in Status
    BY DEF Command
  <2> QED
    BY <1>7, <2>1 DEF Gpio, Record
<1>8. CASE GpioFails
  <2>1. asked' \in [Relay -> Status \cup {None}]
    BY <1>8 DEF GpioFails
  <2> QED
    BY <1>8, <2>1 DEF GpioFails
<1>9. ASSUME NEW arrives \in BOOLEAN, Echo(arrives) PROVE TypeOK'
  <2>1. cmd.id \in Relay /\ cmd.state \in Status
    BY DEF Command
  <2>2. shown' \in [Relay -> Status] /\ doubtful' \in SUBSET Relay
    <3>1. Echoed(cmd.id) \in SUBSET Relay /\ [r \in Relay |-> cmd.state] \in [Relay -> Status]
      BY <2>1 DEF Echoed
    <3> QED
      BY <1>9, <3>1, ReportType DEF Echo
  <2>3. cmd' \in Command
    BY <1>9 DEF Echo, NoCommand, Command, Relay, Status
  <2>4. refused' \in BOOLEAN
    BY <1>9, Zenon DEF Echo
  <2> QED
    BY <1>9, <2>2, <2>3, <2>4 DEF Echo
<1>10. ASSUME NEW failed \in SUBSET FaultyRelays, KeyShortPress(failed) PROVE TypeOK'
  <2>1. doubtful' \in SUBSET Relay
    <3>1. Swept \subseteq Relay
      BY DEF Swept, Relay
    <3> QED
      BY <1>10, <3>1 DEF KeyShortPress
  <2>2. NextAll \in Status
    BY DEF NextAll, Status
  <2> QED
    BY <1>10, <2>1, <2>2 DEF KeyShortPress
<1>11. CASE Restart
  <2>1. cmd' \in Command /\ idx' \in 0 .. NRelays
    BY <1>11 DEF Restart, NoCommand, Command, Relay, Status
  <2>2. link' \in BOOLEAN /\ refused' \in BOOLEAN /\ overrun' \in BOOLEAN /\ updateFlg' \in BOOLEAN
    BY <1>11, Zenon DEF Restart
  <2> QED
    BY <1>1, <1>11, <2>1, <2>2 DEF Restart, Status
<1>12. ASSUME NEW r \in Relay, NEW s \in Status, HaCommand(r, s) PROVE TypeOK'
  <2>1. [id |-> r, state |-> s] \in Command
    BY DEF Command
  <2>2. wire' \in Seq(Command) /\ Len(wire') <= WireMax
    BY <1>12, <2>1, AppendFacts DEF HaCommand
  <2> QED
    BY <1>12, <2>2 DEF HaCommand
<1>13. CASE HaRestart
  BY <1>13 DEF HaRestart
<1>14. CASE UNCHANGED vars
  BY <1>14 DEF vars
<1> QED
  BY <1>2, <1>3, <1>4, <1>5, <1>6, <1>7, <1>8, <1>9, <1>10, <1>11, <1>12, <1>13, <1>14
     DEF Next, Receive, Continue

(* The variables of Discovery keep their types.                            *)
THEOREM DiscoveryTypeCorrect == Spec => []TypeOK
  BY TypeInit, TypeStep, PTL DEF Spec

-----------------------------------------------------------------------------
(* With a prefix and a buffer that fit, no command overruns id_str, and    *)
(* what is found is the id.                                                *)
LEMMA FitsParsed ==
    ASSUME TypeOK, Fits, NEW r \in Relay, NEW s \in Status
    PROVE  Copied(s) <= IdSize /\ Parsed(r, s) = {r}
  BY DEF TypeOK, Fits, Copied, TextLength, TailLength, IdSize, Parsed, BeforeId,
         Skipped, MacLength

(* Only a restart of the strip decides anew whether commands can be read.  *)
LEMMA FitsStays ==
    ASSUME residue' \in {residue, residue \cup {3}}
    PROVE  Fits' = Fits
  BY DEF Fits

(* Taking a command, with its place in the buffer and on the wire.         *)
LEMMA TakeFacts ==
    ASSUME TypeOK, NEW id \in 0 .. NRelays, Take(id)
    PROVE  LET q == Head(wire).id
               s == Head(wire).state
           IN  /\ q \in Relay /\ s \in Status
               /\ Len(wire) \in Nat \ {0} /\ Len(wire') = Len(wire) - 1
               /\ \A i \in 1 .. Len(wire) - 1 : wire'[i] = wire[i + 1]
               /\ Head(wire) = wire[1]
               /\ Fits' = Fits
               /\ Fits => Copied(s) <= IdSize /\ id = q
<1> DEFINE q == Head(wire).id
           s == Head(wire).state
<1>1. q \in Relay /\ s \in Status
  BY TailFacts DEF Take, Command, TypeOK
<1>2. id \in Parsed(q, s)
  BY DEF Take
<1>3. Fits => Copied(s) <= IdSize /\ id = q
  BY <1>1, <1>2, FitsParsed
<1>4. Fits' = Fits
  BY FitsStays DEF Take
<1> QED
  BY <1>1, <1>3, <1>4, TailFacts DEF Take, AfterHead, TypeOK

(* IdFits holds for any sequence of commands.                              *)
THEOREM IdAlwaysFits == Spec => []IdFits
<1>1. Init => IdFits
  BY DEF Init, IdFits
<1>2. TypeOK /\ IdFits /\ [Next]_vars => IdFits'
  <2> SUFFICES ASSUME TypeOK, IdFits, [Next]_vars PROVE IdFits'
    OBVIOUS
  <2> USE DEF IdFits, relays, thread, buffer, ha
  <2>1. ASSUME NEW id \in 0 .. NRelays, Take(id) PROVE IdFits'
    <3>1. Fits' = Fits /\ (Fits => Copied(Head(wire).state) <= IdSize)
      BY <2>1, TakeFacts
    <3>2. Fits => ~(Copied(Head(wire).state) > IdSize)
      BY <3>1 DEF Copied, TextLength, TailLength, IdSize, BeforeId, Skipped, MacLength, Fits
    <3>3. overrun' = (overrun \/ Copied(Head(wire).state) > IdSize)
      BY <2>1 DEF Take
    <3> QED
      BY <3>1, <3>2, <3>3, Zenon
  <2>2. CASE Restart
    BY <2>2 DEF Restart
  <2>3. CASE UNCHANGED <<residue, overrun>>
    BY <2>3 DEF Fits
  <2> QED
    BY <2>1, <2>2, <2>3 DEF Next, Receive, Continue, Connect, Disconnect, SweepStart,
       SweepPublish, SweepClear, Gpio, GpioFails, Record, Echo, KeyShortPress,
       HaCommand, HaRestart, vars
<1> QED
  BY <1>1, <1>2, DiscoveryTypeCorrect, PTL DEF Spec

-----------------------------------------------------------------------------
OnWire(r) == \E i \in 1 .. Len(wire) : wire[i].id = r

(* What is on record as asked could be read.                               *)
AskedFits == \A r \in Relay : asked[r] # None => Fits

(* The last command on the wire for a socket is the one asked for last ... *)
LastAsked ==
    \A r \in Relay : asked[r] # None =>
        \A i \in 1 .. Len(wire) :
            wire[i].id = r /\ (\A j \in i + 1 .. Len(wire) : wire[j].id # r)
                => wire[i].state = asked[r]

(* ... and if there is none there, but one is about to be carried out,     *)
(* that one is.                                                            *)
TakenAsked ==
    pc = "gpio" /\ asked[cmd.id] # None /\ ~OnWire(cmd.id) => cmd.state = asked[cmd.id]

ObeyInv == AskedFits /\ LastAsked /\ TakenAsked /\ CommandObeyed

(* The head of the wire becomes the command under way.                     *)
LEMMA ObeyTake ==
    ASSUME TypeOK, ObeyInv, NEW id \in 0 .. NRelays, Take(id)
    PROVE  ObeyInv'
<1> DEFINE q == Head(wire).id
           s == Head(wire).state
<1>1. /\ q \in Relay /\ s \in Status
      /\ Len(wire) \in Nat \ {0} /\ Len(wire') = Len(wire) - 1
      /\ \A i \in 1 .. Len(wire) - 1 : wire'[i] = wire[i + 1]
      /\ Head(wire) = wire[1]
      /\ Fits' = Fits
      /\ Fits => id = q
  BY TakeFacts
<1>2. asked' = asked /\ outlet' = outlet /\ pc = "idle"
  BY DEF Take, relays
<1>3. Fits => pc' = "gpio" /\ cmd' = [id |-> q, state |-> s]
  BY <1>1 DEF Take
<1>4. \A r \in Relay : asked[r] # None => Fits
  BY DEF ObeyInv, AskedFits
<1>5. AskedFits'
  BY <1>1, <1>2, <1>4 DEF AskedFits
<1>6. ASSUME NEW r \in Relay, \A i \in 1 .. Len(wire') : wire'[i].id # r
      PROVE  \A j \in 2 .. Len(wire) : wire[j].id # r
  <2> SUFFICES ASSUME NEW j \in 2 .. Len(wire) PROVE wire[j].id # r
    OBVIOUS
  <2>1. j - 1 \in 1 .. Len(wire') /\ (j - 1) + 1 = j /\ j - 1 \in 1 .. Len(wire) - 1
    BY <1>1
  <2>2. wire'[j - 1].id # r
    BY <1>6, <2>1
  <2> QED
    BY <1>1, <2>1, <2>2
<1>7. LastAsked'
  <2> SUFFICES ASSUME NEW r \in Relay, asked[r] # None, NEW i \in 1 .. Len(wire'),
                      wire'[i].id = r, \A j \in i + 1 .. Len(wire') : wire'[j].id # r
               PROVE  wire'[i].state = asked[r]
    BY <1>2 DEF LastAsked
  <2>1. i + 1 \in 1 .. Len(wire) /\ wire'[i] = wire[i + 1]
    BY <1>1
  <2>2. ASSUME NEW j \in (i + 1) + 1 .. Len(wire) PROVE wire[j].id # r
    <3>1. /\ j - 1 \in i + 1 .. Len(wire') /\ (j - 1) + 1 = j
          /\ j - 1 \in 1 .. Len(wire) - 1
      BY <1>1
    <3> QED
      BY <1>1, <3>1
  <2> DEFINE k == i + 1
  <2>3. k \in 1 .. Len(wire) /\ wire[k].id = r
    BY <2>1
  <2>4. \A j \in k + 1 .. Len(wire) : wire[j].id # r
    BY <2>2
  <2> HIDE DEF k
  <2>5. wire[k].state = asked[r]
    BY <2>3, <2>4, Zenon DEF ObeyInv, LastAsked
  <2> QED
    BY <2>1, <2>5 DEF k
<1>8. TakenAsked'
  <2> SUFFICES ASSUME pc' = "gpio", asked[cmd'.id] # None, ~OnWire(cmd.id)'
               PROVE  cmd'.state = asked[cmd'.id]
    BY <1>2 DEF TakenAsked
  <2>1. cmd'.id \in Relay
    <3>1. id \in Relay
      BY DEF Take
    <3> QED
      BY <3>1 DEF Take
  <2>2. cmd' = [id |-> q, state |-> s]
    BY <1>3, <1>4, <2>1
  <2>3. \A j \in 1 + 1 .. Len(wire) : wire[j].id # q
    <3>1. \A i \in 1 .. Len(wire') : wire'[i].id # q
      BY <2>2 DEF OnWire
    <3>2. q \in Relay
      BY <1>1
    <3> HIDE DEF q
    <3>3. \A j \in 2 .. Len(wire) : wire[j].id # q
      BY <1>6, <3>1, <3>2
    <3> QED
      BY <3>3
  <2>4. 1 \in 1 .. Len(wire) /\ wire[1].id = q /\ asked[q] # None
    BY <1>1, <2>2
  <2>5. wire[1].state = asked[q]
    BY <1>1, <2>3, <2>4, Zenon DEF ObeyInv, LastAsked
  <2> QED
    BY <1>1, <2>2, <2>5
<1>9. CommandObeyed'
  <2> SUFFICES ASSUME NEW r \in Done' PROVE outlet[r] = asked[r]
    BY <1>2 DEF CommandObeyed
  <2>1. r \in Relay /\ asked[r] # None /\ ~OnWire(r)' /\ ~(pc' = "gpio" /\ cmd'.id = r)
    BY <1>2 DEF Done, Pending, OnWire
  <2>2. r # q
    BY <1>3, <1>4, <2>1
  <2>3. \A j \in 1 .. Len(wire) : wire[j].id # r
    <3>1. \A i \in 1 .. Len(wire') : wire'[i].id # r
      BY <2>1 DEF OnWire
    <3> QED
      BY <1>1, <1>6, <2>1, <2>2, <3>1
  <2>4. r \in Done
    BY <1>2, <2>1, <2>3 DEF Done, Pending
  <2> QED
    BY <2>4 DEF ObeyInv, CommandObeyed
<1> QED
  BY <1>5, <1>7, <1>8, <1>9 DEF ObeyInv

(* A new command goes behind the others.                                   *)
LEMMA ObeyCommand ==
    ASSUME TypeOK, ObeyInv, NEW r \in Relay, NEW s \in Status, HaCommand(r, s)
    PROVE  ObeyInv'
<1> DEFINE c == [id |-> r, state |-> s]
<1>1. /\ Len(wire) \in Nat /\ Len(wire') = Len(wire) + 1
      /\ \A i \in 1 .. Len(wire) : wire'[i] = wire[i]
      /\ wire'[Len(wire) + 1] = c
  <2>1. c \in Command
    BY DEF Command
  <2> QED
    BY <2>1, AppendFacts DEF HaCommand, TypeOK
<1>2. /\ asked' = [asked EXCEPT ![r] = IF Fits THEN s ELSE None]
      /\ asked \in [Relay -> Status \cup {None}]
      /\ outlet' = outlet /\ pc' = pc /\ cmd' = cmd /\ Fits' = Fits
  BY DEF HaCommand, TypeOK, relays, thread, buffer, Fits
<1>3. AskedFits'
  BY <1>2 DEF ObeyInv, AskedFits
<1>4. ASSUME NEW p \in Relay, ~OnWire(p)'
      PROVE  p # r /\ ~OnWire(p) /\ asked'[p] = asked[p]
  <2>1. p # r
    <3>1. Len(wire) + 1 \in 1 .. Len(wire')
      BY <1>1
    <3> QED
      BY <1>1, <1>4, <3>1 DEF OnWire
  <2> QED
    BY <1>1, <1>2, <1>4, <2>1 DEF OnWire
<1>5. LastAsked'
  <2> SUFFICES ASSUME NEW p \in Relay, asked'[p] # None, NEW i \in 1 .. Len(wire'),
                      wire'[i].id = p, \A j \in i + 1 .. Len(wire') : wire'[j].id # p
               PROVE  wire'[i].state = asked'[p]
    BY DEF LastAsked
  <2>1. CASE p = r
    <3>1. i = Len(wire) + 1
      BY <1>1, <2>1
    <3>2. asked'[r] = s
      BY <1>2, <2>1
    <3> QED
      BY <1>1, <2>1, <3>1, <3>2
  <2>2. CASE p # r
    <3>1. i \in 1 .. Len(wire)
      BY <1>1, <2>2
    <3>2. \A j \in i + 1 .. Len(wire) : wire[j].id # p
      BY <1>1, <3>1
    <3> QED
      BY <1>1, <1>2, <2>2, <3>1, <3>2 DEF ObeyInv, LastAsked
  <2> QED
    BY <2>1, <2>2
<1>6. TakenAsked'
  <2>1. cmd.id \in Relay
    BY DEF TypeOK, Command
  <2> QED
    BY <1>2, <1>4, <2>1 DEF ObeyInv, TakenAsked, OnWire
<1>7. CommandObeyed'
  <2> SUFFICES ASSUME NEW p \in Done' PROVE outlet[p] = asked'[p]
    BY <1>2 DEF CommandObeyed
  <2>1. p \in Relay /\ asked'[p] # None /\ ~OnWire(p)' /\ ~(pc = "gpio" /\ cmd.id = p)
    BY <1>2 DEF Done, Pending, OnWire
  <2>2. p \in Done
    BY <1>4, <2>1 DEF Done, Pending, OnWire
  <2> QED
    BY <1>4, <2>1, <2>2 DEF ObeyInv, CommandObeyed
<1> QED
  BY <1>3, <1>5, <1>6, <1>7 DEF ObeyInv

(* The GPIO call carries out what was asked, or what was asked is off the  *)
(* record.                                                                 *)
LEMMA ObeyGpio ==
    ASSUME TypeOK, ObeyInv, Gpio \/ GpioFails
    PROVE  ObeyInv'
<1> USE DEF ObeyInv, relays, buffer, ha
<1>1. cmd.id \in Relay
  BY DEF TypeOK, Command
<1>2. wire' = wire /\ Fits' = Fits /\ pc' # "gpio" /\ pc = "gpio"
  BY DEF Gpio, GpioFails, Fits
<1>3. \A r \in Relay : asked'[r] # None => asked'[r] = asked[r]
  BY DEF Gpio, GpioFails, TypeOK
<1>4. AskedFits' /\ LastAsked' /\ TakenAsked'
  BY <1>2, <1>3 DEF AskedFits, LastAsked, TakenAsked
<1>5. CommandObeyed'
  <2> SUFFICES ASSUME NEW r \in Done' PROVE outlet'[r] = asked'[r]
    BY DEF CommandObeyed
  <2>1. r \in Relay /\ asked'[r] # None /\ ~OnWire(r)
    BY <1>2 DEF Done, Pending, OnWire
  <2>2. CASE r = cmd.id
    <3>1. ~GpioFails
      BY <2>1, <2>2, <1>1 DEF GpioFails, OnWire, TypeOK
    <3>2. Gpio
      BY <3>1
    <3>3. outlet'[r] = cmd.state
      BY <1>1, <2>2, <3>2 DEF Gpio, TypeOK
    <3> QED
      BY <1>2, <1>3, <2>1, <2>2, <3>3 DEF TakenAsked
  <2>3. CASE r # cmd.id
    <3>1. r \in Done
      BY <1>3, <2>1, <2>3 DEF Done, Pending, OnWire
    <3>2. outlet'[r] = outlet[r]
      BY <1>1, <2>1, <2>3 DEF Gpio, GpioFails, TypeOK
    <3> QED
      BY <1>3, <2>1, <3>1, <3>2 DEF CommandObeyed
  <2> QED
    BY <2>2, <2>3
<1> QED
  BY <1>4, <1>5

(* A press undoes what has been carried out where its own call succeeds.   *)
LEMMA ObeyPress ==
    ASSUME TypeOK, ObeyInv, NEW failed \in SUBSET FaultyRelays, KeyShortPress(failed)
    PROVE  ObeyInv'
<1> USE DEF ObeyInv, thread, buffer
<1>1. /\ wire' = wire /\ Fits' = Fits /\ pc' = pc /\ cmd' = cmd
      /\ asked' = [r \in Relay |-> IF r \in Done \ failed THEN None ELSE asked[r]]
  BY DEF KeyShortPress, Fits
<1>2. cmd.id \in Relay
  BY DEF TypeOK, Command
<1>3. \A r \in Relay : asked'[r] # None => asked'[r] = asked[r]
  BY <1>1
<1>4. AskedFits' /\ LastAsked'
  BY <1>1, <1>3 DEF AskedFits, LastAsked
<1>5. TakenAsked'
  BY <1>1, <1>2, <1>3 DEF TakenAsked, OnWire
<1>6. CommandObeyed'
  <2> SUFFICES ASSUME NEW r \in Done' PROVE outlet'[r] = asked'[r]
    BY DEF CommandObeyed
  <2>1. r \in Relay /\ asked'[r] # None /\ asked'[r] = asked[r]
    BY <1>3 DEF Done
  <2>2. r \in Done
    BY <1>1, <2>1 DEF Done, Pending
  <2>3. r \in failed
    BY <1>1, <2>1, <2>2
  <2>4. outlet'[r] = outlet[r]
    BY <2>1, <2>3 DEF KeyShortPress
  <2> QED
    BY <2>1, <2>2, <2>4 DEF CommandObeyed
<1> QED
  BY <1>4, <1>5, <1>6

(* CommandObeyed holds for any number of sockets and commands in flight:   *)
(* the wire keeps their order, each reaches its own socket, and a press    *)
(* falls before or after the GPIO call.                                    *)
THEOREM CommandsAreObeyed == Spec => []CommandObeyed
<1>1. Init => ObeyInv
  BY DEF Init, ObeyInv, AskedFits, LastAsked, TakenAsked, CommandObeyed, Done
<1>2. TypeOK /\ ObeyInv /\ [Next]_vars => ObeyInv'
  <2> SUFFICES ASSUME TypeOK, ObeyInv, [Next]_vars PROVE ObeyInv'
    OBVIOUS
  <2> USE DEF ObeyInv, relays, thread, buffer, ha
  <2>1. CASE Receive
    BY <2>1, ObeyTake DEF Receive
  <2>2. ASSUME NEW r \in Relay, NEW s \in Status, HaCommand(r, s) PROVE ObeyInv'
    BY <2>2, ObeyCommand
  <2>3. CASE Gpio \/ GpioFails
    BY <2>3, ObeyGpio
  <2>4. ASSUME NEW failed \in SUBSET FaultyRelays, KeyShortPress(failed) PROVE ObeyInv'
    BY <2>4, ObeyPress
  <2>5. CASE Disconnect
    <3>1. /\ Len(wire') = 0 /\ outlet' = outlet /\ Fits' = Fits /\ pc = "idle" /\ pc' = pc
          /\ asked' = [r \in Relay |-> IF Pending(r) THEN None ELSE asked[r]]
      BY <2>5 DEF Disconnect, Fits
    <3>2. \A r \in Relay : asked'[r] # None => r \in Done /\ asked'[r] = asked[r]
      BY <3>1 DEF Done
    <3>3. CommandObeyed'
      BY <3>1, <3>2 DEF CommandObeyed, Done
    <3> QED
      BY <3>1, <3>2, <3>3 DEF AskedFits, LastAsked, TakenAsked
  <2>6. CASE Restart
    <3>1. asked' = [r \in Relay |-> None] /\ pc' # "gpio"
      BY <2>6 DEF Restart
    <3> QED
      BY <3>1 DEF AskedFits, LastAsked, TakenAsked, CommandObeyed, Done
  <2>7. CASE /\ UNCHANGED <<residue, outlet, wire, asked>>
             /\ UNCHANGED <<pc, cmd>> \/ (pc # "gpio" /\ pc' # "gpio")
    BY <2>7 DEF AskedFits, LastAsked, TakenAsked, CommandObeyed, Done, Pending, OnWire, Fits
  <2> QED
    BY <2>1, <2>2, <2>3, <2>4, <2>5, <2>6, <2>7 DEF Next, Continue, Connect, SweepStart,
       SweepPublish, SweepClear, Record, Echo, HaRestart, vars
<1>3. ObeyInv => CommandObeyed
  BY DEF ObeyInv
<1> QED
  BY <1>1, <1>2, <1>3, DiscoveryTypeCorrect, PTL DEF Spec

-----------------------------------------------------------------------------
(* Away from rest: in a sweep the flag is up and the sockets before idx    *)
(* have been reported; before its echo the callback's socket need not be   *)
(* shown, but with no press since is what the echo will say.               *)
ShownInv ==
    /\ pc # "sweep" => idx = 0
    /\ refused => pc = "echo"
    /\ pc = "sweep" =>
        updateFlg /\ \A r \in Relay \ doubtful : r < idx => shown[r] = status[r]
    /\ pc # "sweep" /\ ~updateFlg =>
        \A r \in Relay \ doubtful : (pc = "echo" /\ r = cmd.id) \/ shown[r] = status[r]
    /\ pc = "echo" /\ ~updateFlg /\ ~refused => status[cmd.id] = cmd.state

(* ShownIsTrue holds for any number of sockets: each change of a status    *)
(* raises the flag or reports itself, and what undoes a report is on       *)
(* record.                                                                 *)
THEOREM WhatIsShownIsTrue == Spec => []ShownIsTrue
<1>1. Init => ShownInv
  BY DEF Init, ShownInv
<1>2. TypeOK /\ ShownInv /\ [Next]_vars => ShownInv'
  <2> SUFFICES ASSUME TypeOK, ShownInv, [Next]_vars PROVE ShownInv'
    OBVIOUS
  <2> USE DEF ShownInv, TypeOK, relays, thread, buffer, ha
  <2>1. CASE Connect \/ Disconnect \/ SweepStart \/ HaRestart \/ UNCHANGED vars
    <3>1. CASE Connect \/ Disconnect \/ UNCHANGED vars
      BY <3>1 DEF Connect, Disconnect, vars
    <3>2. CASE SweepStart
      BY <3>2 DEF SweepStart, Relay
    <3>3. CASE HaRestart
      BY <3>3 DEF HaRestart
    <3> QED
      BY <2>1, <3>1, <3>2, <3>3
  <2>2. ASSUME NEW arrives \in BOOLEAN, SweepPublish(arrives) PROVE ShownInv'
    <3>1. idx \in Relay
      BY <2>2 DEF SweepPublish, Relay
    <3>2. ASSUME NEW r \in Relay \ doubtful', r < idx' PROVE shown'[r] = status'[r]
      <4>1. CASE r = idx
        BY <2>2, <3>1, <3>2, <4>1 DEF SweepPublish, Report
      <4>2. CASE r # idx
        <5>1. r \notin doubtful /\ r < idx
          BY <2>2, <3>1, <3>2, <4>2 DEF SweepPublish, Report, Relay
        <5> QED
          BY <2>2, <3>1, <3>2, <4>2, <5>1 DEF SweepPublish, Report
      <4> QED
        BY <4>1, <4>2
    <3> QED
      BY <2>2, <3>2 DEF SweepPublish
  <2>3. CASE SweepClear
    BY <2>3 DEF SweepClear, Relay
  <2>4. ASSUME NEW id \in 0 .. NRelays, Take(id) PROVE ShownInv'
    BY <2>4 DEF Take
  <2>5. CASE Gpio \/ GpioFails
    BY <2>5 DEF Gpio, GpioFails
  <2>6. CASE Record
    <3>1. cmd.id \in Relay
      BY DEF Command
    <3> QED
      BY <2>6, <3>1 DEF Record
  <2>7. ASSUME NEW arrives \in BOOLEAN, Echo(arrives) PROVE ShownInv'
    <3>1. /\ cmd.id \in Relay /\ pc = "echo" /\ pc' = "idle" /\ refused' = FALSE
          /\ idx' = idx /\ updateFlg' = updateFlg /\ status' = status
          /\ Report({cmd.id}, arrives, [r \in Relay |-> cmd.state], ~refused)
      BY <2>7 DEF Echo, Echoed, Command
    <3>2. ASSUME ~updateFlg, NEW r \in Relay \ doubtful' PROVE shown'[r] = status[r]
      <4>1. CASE r = cmd.id
        BY <3>1, <3>2, <4>1 DEF Report
      <4>2. CASE r # cmd.id
        BY <3>1, <3>2, <4>2 DEF Report
      <4> QED
        BY <4>1, <4>2
    <3> QED
      BY <3>1, <3>2
  <2>8. ASSUME NEW failed \in SUBSET FaultyRelays, KeyShortPress(failed) PROVE ShownInv'
    BY <2>8 DEF KeyShortPress, Swept, Relay
  <2>9. CASE Restart
    BY <2>9 DEF Restart
  <2>10. ASSUME NEW r \in Relay, NEW s \in Status, HaCommand(r, s) PROVE ShownInv'
    BY <2>10 DEF HaCommand
  <2> QED
    BY <2>1, <2>2, <2>3, <2>4, <2>5, <2>6, <2>7, <2>8, <2>9, <2>10
       DEF Next, Receive, Continue
<1>3. ShownInv => ShownIsTrue
  BY DEF ShownInv, ShownIsTrue
<1> QED
  BY <1>1, <1>2, <1>3, DiscoveryTypeCorrect, PTL DEF Spec

-----------------------------------------------------------------------------
(* The refinement of Remote.                                               *)

(* The callback takes the first command on the wire for the socket it      *)
(* names, as long as that can be read.                                     *)
LEMMA TakeAccepts ==
    ASSUME TypeOK, NEW id \in 0 .. NRelays, Take(id)
    PROVE  R!RNext
<1> DEFINE q == Head(wire).id
           s == Head(wire).state
<1>1. Fits' = Fits /\ (Fits => id = q) /\ q \in Relay
  BY TakeFacts
<1>2. /\ wire # <<>> /\ wire' = Tail(wire) /\ pc = "idle"
      /\ outlet' = outlet /\ allStatus' = allStatus
  BY DEF Take, AfterHead, relays
<1>3. CASE id \in Relay
  <2>1. pc' = "gpio" /\ cmd' = [id |-> id, state |-> s]
    BY <1>3 DEF Take
  <2>2. R!Accept(id)
    BY <1>1, <1>2, <2>1 DEF R!Accept
  <2> QED
    BY <1>3, <2>2 DEF R!RNext
<1>4. CASE id \notin Relay
  <2>1. ~Fits /\ pc' = "idle"
    BY <1>1, <1>4 DEF Take
  <2>2. Fits = FALSE
    BY <2>1 DEF Fits
  <2>3. R!Misread
    BY <1>1, <1>2, <2>1, <2>2 DEF R!Misread
  <2> QED
    BY <2>3 DEF R!RNext
<1> QED
  BY <1>3, <1>4

(* The steps of the callback and of the key that reach the GPIO.           *)
LEMMA GpioSwitches ==
    ASSUME TypeOK, NEW failed \in SUBSET FaultyRelays, Gpio \/ GpioFails \/ KeyShortPress(failed)
    PROVE  R!RNext
<1> USE DEF relays, thread, buffer, ha
<1>1. CASE Gpio
  <2>1. R!Switch
    BY <1>1 DEF Gpio, R!Switch, Fits
  <2> QED
    BY <2>1 DEF R!RNext
<1>2. CASE GpioFails
  <2>1. R!Refuse
    BY <1>2 DEF GpioFails, R!Refuse, Fits
  <2> QED
    BY <2>1 DEF R!RNext
<1>3. CASE KeyShortPress(failed)
  <2>1. R!Key(failed)
    BY <1>3 DEF KeyShortPress, NextAll, R!Key, R!Flip, Fits
  <2>2. failed \in SUBSET Relay
    BY DEF Relay
  <2> QED
    BY <2>1, <2>2 DEF R!RNext
<1> QED
  BY <1>1, <1>2, <1>3

LEMMA RemoteStep == TypeOK /\ [Next]_vars => [R!RNext]_(R!rvars)
<1> SUFFICES ASSUME TypeOK, [Next]_vars PROVE [R!RNext]_(R!rvars)
  OBVIOUS
<1> USE DEF relays, thread, buffer, ha
<1>1. CASE Receive
  BY <1>1, TakeAccepts DEF Receive
<1>2. CASE Gpio \/ GpioFails \/ (\E failed \in SUBSET FaultyRelays : KeyShortPress(failed))
  BY <1>2, GpioSwitches
<1>3. CASE Disconnect
  BY <1>3 DEF Disconnect, R!RNext, R!Cut, Fits
<1>4. CASE Restart
  <2>1. Fits' \in BOOLEAN
    BY DEF Fits
  <2> QED
    BY <1>4, <2>1 DEF Restart, R!RNext, R!Reset
<1>5. ASSUME NEW r \in Relay, NEW s \in Status, HaCommand(r, s) PROVE R!RNext
  <2>1. R!Order(r, s)
    BY <1>5 DEF HaCommand, R!Order, Fits
  <2> QED
    BY <2>1 DEF R!RNext, R!Value, Status
<1>6. CASE /\ UNCHANGED <<residue, outlet, allStatus, wire>>
           /\ UNCHANGED <<pc, cmd>> \/ (pc # "gpio" /\ pc' # "gpio")
  BY <1>6 DEF R!rvars, Fits
<1> QED
  BY <1>1, <1>2, <1>3, <1>4, <1>5, <1>6
     DEF Next, Continue, Connect, SweepStart, SweepPublish, SweepClear, Record, Echo,
         HaRestart, vars

(* With Home Assistant the strip implements Remote, for any number of      *)
(* sockets and commands under way: whatever is lost, forgotten, restarted, *)
(* refused or connected again, and wherever presses fall, a command works  *)
(* once at most, in turn, on its own socket.                               *)
THEOREM StripImplementsRemote == Spec => ImplementsRemote
<1>1. Init => R!RInit
  BY DEF Init, R!RInit, R!Value, Status, Fits
<1> QED
  BY <1>1, RemoteStep, DiscoveryTypeCorrect, PTL DEF Spec, ImplementsRemote, R!RemoteSpec
=============================================================================

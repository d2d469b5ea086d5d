-------------------------- MODULE PowerMeterProofs --------------------------
(***************************************************************************)
(* The invariants of PowerMeter and what it counts, for any clock, probe   *)
(* time and period that satisfy MeterAssumption.                           *)
(***************************************************************************)
EXTENDS PowerMeter, TLAPS

-----------------------------------------------------------------------------
(* What the assumption says, one fact at a time.                           *)
LEMMA MeterFacts ==
    /\ Wrap \in Nat /\ Probe \in Nat /\ Period \in Nat /\ Never \in Nat
    /\ Wrap > 0 /\ Probe > 0 /\ Period > 0 /\ Never < Wrap
    /\ Never = Probe + 2 * Period + 1
  BY MeterAssumption DEF MeterAssumption, Never

LEMMA ModRange == ASSUME NEW w \in Nat \ {0}, NEW a \in Int PROVE a % w \in 0 .. w - 1
  OBVIOUS

LEMMA ModSmall == ASSUME NEW w \in Nat \ {0}, NEW a \in 0 .. w - 1 PROVE a % w = a
  OBVIOUS

LEMMA ModBelow == ASSUME NEW w \in Nat \ {0}, NEW a \in 1 .. w - 1 PROVE (a - w) % w = a
  OBVIOUS

LEMMA ModSelf == ASSUME NEW w \in Nat \ {0} PROVE w % w = 0
  OBVIOUS

(* The clock and the difference of two of its values, without modulo.      *)
LEMMA TickIs ==
    ASSUME NEW t \in 0 .. Wrap - 1
    PROVE  (t + 1) % Wrap = IF t = Wrap - 1 THEN 0 ELSE t + 1
<1>1. CASE t = Wrap - 1
  <2>1. t + 1 = Wrap
    BY <1>1, MeterFacts
  <2> QED
    BY <1>1, <2>1, ModSelf, MeterFacts
<1>2. CASE t # Wrap - 1
  <2>1. t + 1 \in 0 .. Wrap - 1
    BY <1>2, MeterFacts
  <2> QED
    BY <1>2, <2>1, ModSmall, MeterFacts
<1> QED
  BY <1>1, <1>2

LEMMA ElapsedIs ==
    ASSUME NEW a \in 0 .. Wrap - 1, NEW b \in 0 .. Wrap - 1
    PROVE  Elapsed(a, b) = IF a >= b THEN a - b ELSE a - b + Wrap
<1>1. CASE a >= b
  <2>1. a - b \in 0 .. Wrap - 1
    BY <1>1, MeterFacts
  <2> QED
    BY <1>1, <2>1, ModSmall, MeterFacts DEF Elapsed
<1>2. CASE ~(a >= b)
  <2> DEFINE c == a - b + Wrap
  <2>1. c \in 1 .. Wrap - 1 /\ a - b = c - Wrap
    BY <1>2, MeterFacts
  <2>2. (c - Wrap) % Wrap = c
    BY <2>1, ModBelow, MeterFacts
  <2> QED
    BY <1>2, <2>1, <2>2 DEF Elapsed
<1> QED
  BY <1>1, <1>2

LEMMA ElapsedType ==
    ASSUME NEW a \in 0 .. Wrap - 1, NEW b \in 0 .. Wrap - 1
    PROVE  Elapsed(a, b) \in 0 .. Wrap - 1
<1>1. (IF a >= b THEN a - b ELSE a - b + Wrap) \in 0 .. Wrap - 1
  BY MeterFacts
<1> QED
  BY <1>1, ElapsedIs, Zenon

LEMMA ElapsedSelf ==
    ASSUME NEW a \in 0 .. Wrap - 1
    PROVE  Elapsed(a, a) = 0
  BY ElapsedIs, MeterFacts

(* Less than a turn of the clock is measured a tick at a time.             *)
LEMMA ElapsedTick ==
    ASSUME NEW a \in 0 .. Wrap - 1, NEW b \in 0 .. Wrap - 1,
           Elapsed(a, b) < Wrap - 1
    PROVE  Elapsed((a + 1) % Wrap, b) = Elapsed(a, b) + 1
<1> DEFINE n == (a + 1) % Wrap
<1>1. n = IF a = Wrap - 1 THEN 0 ELSE a + 1
  BY TickIs
<1>2. n \in 0 .. Wrap - 1
  BY <1>1, MeterFacts
<1> HIDE DEF n
<1>3. Elapsed(n, b) = IF n >= b THEN n - b ELSE n - b + Wrap
  BY <1>2, ElapsedIs
<1>4. Elapsed(a, b) = IF a >= b THEN a - b ELSE a - b + Wrap
  BY ElapsedIs
<1>5. Elapsed(n, b) = Elapsed(a, b) + 1
  BY <1>1, <1>3, <1>4, MeterFacts
<1> QED
  BY <1>5 DEF n

-----------------------------------------------------------------------------
(* What the handlers write in every state.                                 *)
LEMMA ZeroFits ==
    /\ 0 \in 0 .. Wrap - 1 /\ 0 \in 0 .. Never
    /\ 0 \in 0 .. Period /\ Period \in 0 .. Period
  BY MeterFacts

LEMMA MeterTypeInit == Init => TypeOK
  BY ZeroFits, Zenon DEF Init, TypeOK

LEMMA MeterTypeStep == TypeOK /\ [Next]_vars => TypeOK'
<1> SUFFICES ASSUME TypeOK, [Next]_vars PROVE TypeOK'
  OBVIOUS
<1> USE DEF TypeOK, clock, meter, operands, history
<1>1. CASE Pulse
  <2>1. Elapsed(now, lastTime) \in 0 .. Wrap - 1
    BY ElapsedType
  <2>2. energy + Counts \in Int
    BY DEF Counts
  <2>3. (energy + Counts) % Wrap \in 0 .. Wrap - 1
    <3>1. Wrap \in Nat \ {0}
      BY MeterFacts
    <3> QED
      BY <2>2, <3>1, ModRange, Zenon
  <2> QED
    BY <1>1, <2>1, <2>3, ZeroFits, Zenon DEF Pulse, WakesUp
<1>2. CASE TimerFires
  BY <1>2, ZeroFits, Zenon DEF TimerFires
<1>3. CASE LoadNow
  <2>1. loaded' \subseteq {"now", "last"}
    BY <1>3 DEF LoadNow
  <2> QED
    BY <1>3, <2>1, Zenon DEF LoadNow
<1>4. CASE LoadLast
  <2>1. loaded' \subseteq {"now", "last"}
    BY <1>4 DEF LoadLast
  <2> QED
    BY <1>4, <2>1, Zenon DEF LoadLast
<1>5. CASE Compare
  <2>1. AfterCompare \in {"idle", "load", "zero", "flag"}
    BY Zenon DEF AfterCompare
  <2>2. {} \subseteq {"now", "last"}
    OBVIOUS
  <2> QED
    BY <1>5, <2>1, <2>2, ZeroFits, Zenon DEF Compare
<1>6. CASE ZeroLength
  BY <1>6, ZeroFits, Zenon DEF ZeroLength, Zeroed
<1>7. CASE SetLoadOff
  BY <1>7, Zenon DEF SetLoadOff
<1>8. CASE Tick
  <2>1. (now + 1) % Wrap \in 0 .. Wrap - 1
    BY ModRange, MeterFacts
  <2>2. due - 1 \in 0 .. Period
    BY <1>8, MeterFacts DEF Tick
  <2>3. (IF quiet = Never THEN Never ELSE quiet + 1) \in 0 .. Never
    BY MeterFacts
  <2> QED
    BY <1>8, <2>1, <2>2, <2>3, Zenon DEF Tick
<1>9. CASE UNCHANGED vars
  BY <1>9, Zenon DEF vars
<1> QED
  BY <1>1, <1>2, <1>3, <1>4, <1>5, <1>6, <1>7, <1>8, <1>9, Zenon DEF Next, TimerHandler

(* The variables of PowerMeter keep their types.                           *)
THEOREM MeterTypeCorrect == Spec => []TypeOK
  BY MeterTypeInit, MeterTypeStep, PTL DEF Spec

-----------------------------------------------------------------------------
(* The meter knows that the load has stopped.                              *)
Settled == loadOff /\ length = 0

(* The clock measures the time since the last pulse.                       *)
ClockInv == quiet < Never => Elapsed(now, lastTime) = quiet

(* What timer_handler has loaded, when no pulse has come since it began:   *)
(* the time it took to load it is at most what the timer has left.         *)
LoadInv ==
    /\ th # "load" => loaded = {}
    /\ th = "load" /\ ~raced /\ "last" \in loaded => tLast = lastTime
    /\ th = "load" /\ ~raced /\ "now" \in loaded /\ quiet < Never =>
           /\ Elapsed(tNow, lastTime) <= quiet
           /\ quiet + due <= Elapsed(tNow, lastTime) + Period
    /\ th # "idle" /\ raced => quiet + due <= Period

(* A load that has stopped is found by the second turn of the timer.       *)
DueInv ==
    ~Settled => quiet + due <= Probe + (IF th = "idle" THEN Period ELSE 2 * Period)

(* Between its two writes, and after them, the length is 0, unless a pulse *)
(* came in between.                                                        *)
FlagInv ==
    /\ (th = "flag" \/ loadOff) /\ ~torn => length = 0
    /\ th = "flag" => length = 0 \/ raced

(* The decision for no load is right, unless a pulse came meanwhile.       *)
QuietInv ==
    /\ th \in {"zero", "flag"} /\ ~raced => quiet > Probe
    /\ OffMeansQuiet

MeterInv == ClockInv /\ LoadInv /\ DueInv /\ FlagInv /\ QuietInv /\ LengthIsGap

LEMMA MeterInit == Init => MeterInv
<1> SUFFICES ASSUME Init PROVE MeterInv
  OBVIOUS
<1>1. Elapsed(now, lastTime) = 0
  BY ElapsedSelf, ZeroFits DEF Init
<1> QED
  BY <1>1, MeterFacts DEF Init, MeterInv, ClockInv, LoadInv, DueInv, FlagInv, QuietInv,
     LengthIsGap, OffMeansQuiet

(* Until the load is known to be off, the time since its last pulse is     *)
(* told apart from Never, and so measured.                                 *)
LEMMA Measured ==
    ASSUME TypeOK, MeterInv, ~Settled
    PROVE  quiet < Never /\ Elapsed(now, lastTime) = quiet
<1>1. quiet + due <= Probe + 2 * Period
  BY MeterFacts DEF MeterInv, DueInv, TypeOK
<1>2. quiet < Never
  BY <1>1, MeterFacts DEF TypeOK
<1> QED
  BY <1>2 DEF MeterInv, ClockInv

LEMMA PulseStep == ASSUME TypeOK, MeterInv, Pulse PROVE MeterInv'
<1> USE DEF clock, operands
<1>1. /\ quiet' = 0 /\ lastTime' = now /\ loadOff' = FALSE /\ due' = due /\ now' = now
      /\ th' = th /\ loaded' = loaded /\ tNow' = tNow /\ tLast' = tLast
  BY Zenon DEF Pulse, WakesUp
<1>2. raced' <=> th # "idle"
  BY Zenon DEF Pulse
<1>3. due <= Period /\ 0 + due <= Period /\ 0 + due <= Probe + Period /\ 0 + due <= Probe + 2 * Period
  BY MeterFacts DEF TypeOK
<1>4. ClockInv'
  <2>1. Elapsed(now, now) = 0
    BY ElapsedSelf DEF TypeOK
  <2> QED
    BY <1>1, <2>1, Zenon DEF ClockInv
<1>5. LoadInv'
  <2>1. th' # "load" => loaded' = {}
    BY <1>1 DEF MeterInv, LoadInv
  <2>2. th' = "load" => raced'
    BY <1>1, <1>2
  <2>3. quiet' + due' <= Period
    BY <1>1, <1>3, Zenon
  <2> QED
    BY <2>1, <2>2, <2>3, Zenon DEF LoadInv
<1>6. DueInv'
  BY <1>1, <1>3, Zenon DEF DueInv
<1>7. FlagInv'
  <2>1. th = "flag" => torn' /\ raced'
    BY <1>2, Zenon DEF Pulse
  <2> QED
    BY <1>1, <2>1, Zenon DEF FlagInv
<1>8. QuietInv'
  BY <1>1, <1>2 DEF QuietInv, OffMeansQuiet
<1>9. LengthIsGap'
  <2>1. CASE loadOff
    BY <2>1, Zenon DEF Pulse, MeterInv, LengthIsGap
  <2>2. CASE ~loadOff
    <3>1. Elapsed(now, lastTime) = quiet
      BY <2>2, Measured DEF Settled
    <3> QED
      BY <2>2, <3>1, Zenon DEF Pulse, LengthIsGap
  <2> QED
    BY <2>1, <2>2
<1> QED
  BY <1>4, <1>5, <1>6, <1>7, <1>8, <1>9 DEF MeterInv

LEMMA FiresStep == ASSUME TypeOK, MeterInv, TimerFires PROVE MeterInv'
<1> USE DEF meter, operands
<1>1. /\ th = "idle" /\ due = 0 /\ due' = Period /\ th' = "load" /\ raced' = FALSE
      /\ UNCHANGED <<now, lastTime, length, loadOff, loaded, tNow, tLast, quiet, gap, torn, hasty>>
  BY Zenon DEF TimerFires
<1>2. ClockInv' /\ QuietInv' /\ LengthIsGap' /\ FlagInv'
  BY <1>1, Zenon DEF MeterInv, ClockInv, QuietInv, OffMeansQuiet, LengthIsGap, FlagInv
<1>3. loaded' = {}
  BY <1>1 DEF MeterInv, LoadInv
<1>4. LoadInv'
  BY <1>1, <1>3 DEF LoadInv
<1>5. ~Settled => quiet + Period <= Probe + 2 * Period
  BY <1>1, MeterFacts DEF MeterInv, DueInv, TypeOK
<1>6. DueInv'
  BY <1>1, <1>5, Zenon DEF DueInv, Settled
<1> QED
  BY <1>2, <1>4, <1>6 DEF MeterInv

LEMMA LoadNowStep == ASSUME TypeOK, MeterInv, LoadNow PROVE MeterInv'
<1> USE DEF clock, meter, history
<1>1. /\ th = "load" /\ th' = th /\ tNow' = now /\ loaded' = loaded \cup {"now"}
      /\ UNCHANGED <<now, due, lastTime, length, loadOff, tLast, quiet, gap, raced, torn, hasty>>
  BY Zenon DEF LoadNow
<1>2. ClockInv' /\ QuietInv' /\ LengthIsGap' /\ FlagInv' /\ DueInv'
  BY <1>1, Zenon DEF MeterInv, ClockInv, QuietInv, OffMeansQuiet, LengthIsGap, FlagInv,
     DueInv, Settled
<1>3. "last" \in loaded' => "last" \in loaded
  BY <1>1
<1>4. quiet < Never => Elapsed(now, lastTime) <= quiet
                       /\ quiet + due <= Elapsed(now, lastTime) + Period
  BY MeterFacts DEF MeterInv, ClockInv, TypeOK
<1>5. LoadInv'
  BY <1>1, <1>3, <1>4, Zenon DEF MeterInv, LoadInv
<1> QED
  BY <1>2, <1>5 DEF MeterInv

LEMMA LoadLastStep == ASSUME TypeOK, MeterInv, LoadLast PROVE MeterInv'
<1> USE DEF clock, meter, history
<1>1. /\ th = "load" /\ th' = th /\ tLast' = lastTime /\ loaded' = loaded \cup {"last"}
      /\ UNCHANGED <<now, due, lastTime, length, loadOff, tNow, quiet, gap, raced, torn, hasty>>
  BY Zenon DEF LoadLast
<1>2. ClockInv' /\ QuietInv' /\ LengthIsGap' /\ FlagInv' /\ DueInv'
  BY <1>1, Zenon DEF MeterInv, ClockInv, QuietInv, OffMeansQuiet, LengthIsGap, FlagInv,
     DueInv, Settled
<1>3. "now" \in loaded' => "now" \in loaded
  BY <1>1
<1>4. LoadInv'
  BY <1>1, <1>3, Zenon DEF MeterInv, LoadInv
<1> QED
  BY <1>2, <1>4 DEF MeterInv

LEMMA CompareStep == ASSUME TypeOK, MeterInv, Compare PROVE MeterInv'
<1> USE DEF clock, meter, history
<1> DEFINE e == Elapsed(tNow, tLast)
<1>1. /\ th = "load" /\ "now" \in loaded /\ "last" \in loaded
      /\ loaded' = {} /\ th' = AfterCompare
      /\ UNCHANGED <<now, due, lastTime, length, loadOff, quiet, gap, raced, torn, hasty>>
  BY DEF Compare
<1>2. (th' = "zero" /\ e > Probe) \/ (th' = "idle" /\ ~(e > Probe))
  BY <1>1, Zenon DEF AfterCompare
<1>3. ClockInv' /\ LengthIsGap'
  BY <1>1, Zenon DEF MeterInv, ClockInv, LengthIsGap
<1>4. ~raced /\ quiet < Never => e <= quiet /\ quiet + due <= e + Period
  BY <1>1, Zenon DEF MeterInv, LoadInv
<1>5. raced => quiet + due <= Period
  BY <1>1 DEF MeterInv, LoadInv
<1>6. e \in Int
  BY ElapsedType DEF TypeOK
<1> HIDE DEF e
<1>7. LoadInv'
  BY <1>1, <1>2, <1>5, Zenon DEF LoadInv
<1>8. DueInv'
  <2>1. ~Settled => quiet + due <= Probe + 2 * Period
    BY <1>1 DEF MeterInv, DueInv
  <2>2. ~Settled /\ ~(e > Probe) => quiet + due <= Probe + Period
    BY <1>4, <1>5, <1>6, Measured, MeterFacts DEF TypeOK
  <2> QED
    BY <1>1, <1>2, <2>1, <2>2, Zenon DEF DueInv, Settled
<1>9. FlagInv'
  BY <1>1, <1>2, Zenon DEF MeterInv, FlagInv
<1>10. QuietInv'
  <2>1. e > Probe /\ ~raced => quiet > Probe
    BY <1>4, <1>6, MeterFacts DEF TypeOK
  <2> QED
    BY <1>1, <1>2, <2>1, Zenon DEF MeterInv, QuietInv, OffMeansQuiet
<1> QED
  BY <1>3, <1>7, <1>8, <1>9, <1>10 DEF MeterInv

LEMMA ZeroStep == ASSUME TypeOK, MeterInv, ZeroLength PROVE MeterInv'
<1> USE DEF clock, operands
<1>1. /\ th = "zero" /\ th' = "flag" /\ length' = 0 /\ torn' = FALSE
      /\ UNCHANGED <<now, due, lastTime, loadOff, loaded, tNow, tLast, quiet, gap, raced, hasty>>
  BY Zenon DEF ZeroLength, Zeroed
<1>2. ClockInv' /\ LoadInv' /\ FlagInv' /\ QuietInv'
  BY <1>1, Zenon DEF MeterInv, ClockInv, LoadInv, FlagInv, QuietInv, OffMeansQuiet
<1>3. LengthIsGap'
  BY <1>1 DEF LengthIsGap
<1>4. DueInv'
  BY <1>1, Zenon DEF MeterInv, DueInv, Settled
<1> QED
  BY <1>2, <1>3, <1>4 DEF MeterInv

LEMMA SetStep == ASSUME TypeOK, MeterInv, SetLoadOff PROVE MeterInv'
<1> USE DEF clock, operands
<1>1. /\ th = "flag" /\ th' = "idle" /\ loadOff' = TRUE /\ (hasty' <=> raced)
      /\ UNCHANGED <<now, due, lastTime, length, loaded, tNow, tLast, quiet, gap, raced, torn>>
  BY Zenon DEF SetLoadOff
<1>2. ClockInv' /\ LoadInv' /\ QuietInv' /\ LengthIsGap'
  BY <1>1, Zenon DEF MeterInv, ClockInv, LoadInv, QuietInv, OffMeansQuiet, LengthIsGap
<1>3. FlagInv'
  BY <1>1, Zenon DEF MeterInv, FlagInv
<1>4. length # 0 => quiet + due <= Period
  BY <1>1 DEF MeterInv, FlagInv, LoadInv
<1>5. length # 0 => quiet + due <= Probe + Period
  BY <1>4, MeterFacts DEF TypeOK
<1>6. DueInv'
  BY <1>1, <1>5, Zenon DEF DueInv, Settled
<1> QED
  BY <1>2, <1>3, <1>6 DEF MeterInv

LEMMA MeterTick == ASSUME TypeOK, MeterInv, Tick PROVE MeterInv'
<1> USE DEF meter, operands
<1> DEFINE q == IF quiet = Never THEN Never ELSE quiet + 1
<1>1. /\ now' = (now + 1) % Wrap /\ due' = due - 1 /\ quiet' = q
      /\ UNCHANGED <<lastTime, length, loadOff, th, loaded, tNow, tLast, gap, raced, torn, hasty>>
  BY Zenon DEF Tick
<1>2. q >= quiet /\ (quiet < Never => q + (due - 1) = quiet + due) /\ (q < Never => quiet < Never - 1)
  BY MeterFacts DEF TypeOK
<1>3. ClockInv'
  <2>1. q < Never => Elapsed(now, lastTime) < Wrap - 1 /\ q = Elapsed(now, lastTime) + 1
    BY MeterFacts DEF MeterInv, ClockInv, TypeOK
  <2>2. q < Never => Elapsed((now + 1) % Wrap, lastTime) = q
    BY <2>1, ElapsedTick DEF TypeOK
  <2> QED
    BY <1>1, <2>2, Zenon DEF ClockInv
<1>4. LoadInv'
  <2>1. q < Never => quiet < Never
    BY MeterFacts DEF TypeOK
  <2>2. th = "load" /\ ~raced /\ "now" \in loaded /\ q < Never =>
          /\ Elapsed(tNow, lastTime) <= q
          /\ q + (due - 1) <= Elapsed(tNow, lastTime) + Period
    <3> SUFFICES ASSUME th = "load", ~raced, "now" \in loaded, q < Never
                 PROVE  /\ Elapsed(tNow, lastTime) <= q
                        /\ q + (due - 1) <= Elapsed(tNow, lastTime) + Period
      OBVIOUS
    <3>1. /\ Elapsed(tNow, lastTime) <= quiet
          /\ quiet + due <= Elapsed(tNow, lastTime) + Period
      BY <2>1, Zenon DEF MeterInv, LoadInv
    <3>2. Elapsed(tNow, lastTime) \in 0 .. Wrap - 1
      BY ElapsedType DEF TypeOK
    <3> QED
      BY <2>1, <3>1, <3>2, MeterFacts DEF TypeOK
  <2>3. th # "idle" /\ raced => q + (due - 1) <= Period
    BY MeterFacts DEF MeterInv, LoadInv, TypeOK
  <2> QED
    BY <1>1, <2>2, <2>3, Zenon DEF MeterInv, LoadInv
<1>5. DueInv'
  <2>1. ~Settled => q + (due - 1) = quiet + due
    BY <1>2, Measured
  <2> QED
    BY <1>1, <2>1, Zenon DEF MeterInv, DueInv, Settled
<1>6. FlagInv' /\ LengthIsGap'
  BY <1>1, Zenon DEF MeterInv, FlagInv, LengthIsGap
<1>7. QuietInv'
  <2>1. quiet > Probe => q > Probe
    BY MeterFacts DEF TypeOK
  <2> QED
    BY <1>1, <2>1, Zenon DEF MeterInv, QuietInv, OffMeansQuiet
<1> QED
  BY <1>3, <1>4, <1>5, <1>6, <1>7 DEF MeterInv

LEMMA MeterStep == TypeOK /\ MeterInv /\ [Next]_vars => MeterInv'
<1> SUFFICES ASSUME TypeOK, MeterInv, [Next]_vars PROVE MeterInv'
  OBVIOUS
<1>1. CASE UNCHANGED vars
  BY <1>1, Zenon DEF vars, clock, meter, operands, history, MeterInv, ClockInv, LoadInv, DueInv,
     FlagInv, QuietInv, OffMeansQuiet, LengthIsGap, Settled
<1> QED
  BY <1>1, PulseStep, FiresStep, LoadNowStep, LoadLastStep, CompareStep, ZeroStep, SetStep,
     MeterTick DEF Next, TimerHandler

LEMMA MeterInvariant == Spec => [](TypeOK /\ MeterInv)
  BY MeterTypeInit, MeterTypeStep, MeterInit, MeterStep, PTL DEF Spec

-----------------------------------------------------------------------------
(* A length the meter shows is the true time between two pulses.           *)
THEOREM LengthIsTrue == Spec => []LengthIsGap
<1>1. MeterInv => LengthIsGap
  BY DEF MeterInv
<1> QED
  BY <1>1, MeterInvariant, PTL

(* Two periods after the probe time the meter shows no power.              *)
THEOREM StoppedLoadIsSeen == Spec => []StoppedLoadSeen
<1>1. TypeOK /\ MeterInv => StoppedLoadSeen
  BY Measured, MeterFacts DEF StoppedLoadSeen, Settled, TypeOK
<1> QED
  BY <1>1, MeterInvariant, PTL

(* A load taken for off shows no power, but for a pulse between the two    *)
(* writes of timer_handler.                                                *)
THEOREM OffShowsNoPower == Spec => []OffShowsNothing
<1>1. MeterInv => OffShowsNothing
  BY DEF MeterInv, FlagInv, OffShowsNothing
<1> QED
  BY <1>1, MeterInvariant, PTL

(* A load taken for off has been quiet for the probe time, but for a pulse *)
(* while timer_handler ran.                                                *)
THEOREM OffIsQuiet == Spec => []OffMeansQuiet
<1>1. MeterInv => OffMeansQuiet
  BY DEF MeterInv, QuietInv
<1> QED
  BY <1>1, MeterInvariant, PTL

(* Every pulse of a running load is counted, but for the first one after a *)
(* hasty decision.                                                         *)
THEOREM PulsesAreCounted == Spec => EnergyCounted
<1>1. ASSUME TypeOK, MeterInv, [Next]_vars, quiet' < quiet, quiet <= Probe, ~(hasty /\ loadOff)
      PROVE  energy' = (energy + 1) % Wrap
  <2>1. quiet' # quiet
    BY <1>1 DEF TypeOK
  <2>2. ~Tick
    <3>1. ~((IF quiet = Never THEN Never ELSE quiet + 1) < quiet)
      BY <1>1, MeterFacts DEF TypeOK
    <3> QED
      BY <1>1, <3>1, Zenon DEF Tick
  <2>3. Pulse
    BY <1>1, <2>1, <2>2 DEF Next, TimerHandler, TimerFires, LoadNow, LoadLast, Compare,
       ZeroLength, SetLoadOff, vars, history
  <2>4. ~loadOff
    <3>1. ~(quiet > Probe)
      BY <1>1, MeterFacts DEF TypeOK
    <3> QED
      BY <1>1, <3>1, Zenon DEF MeterInv, QuietInv, OffMeansQuiet
  <2> QED
    BY <2>3, <2>4 DEF Pulse, Counts
<1>2. TypeOK /\ MeterInv /\ [Next]_vars
        => [quiet' < quiet /\ quiet <= Probe /\ ~(hasty /\ loadOff)
             => energy' = (energy + 1) % Wrap]_vars
  BY <1>1
<1> QED
  BY <1>2, MeterInvariant, PTL DEF Spec, EnergyCounted
=============================================================================

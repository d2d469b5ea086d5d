----------------------------- MODULE PowerMeter -----------------------------
(***************************************************************************)
(* The power meter (power_meter.c): the CF pin pulses at a rate            *)
(* proportional to the power, cf_interrupt measures the time between two   *)
(* pulses, and once a period timer_handler looks whether the pulses have   *)
(* stopped.  A pulse may interrupt timer_handler between any two of its    *)
(* accesses, and the clock wraps around.                                   *)
(***************************************************************************)
EXTENDS Integers

CONSTANTS
    Wrap,    \* values of hfsys_get_time, 2^32 ms in the code
    Probe,   \* POWER_PROBE_TIME
    Period   \* of the timer, 1 s

(* The longest a load may have stopped without timer_handler, which ends   *)
(* before the timer fires again, having found out.                         *)
Never == Probe + 2 * Period + 1

ASSUME MeterAssumption ==
    /\ {Wrap, Probe, Period} \subseteq Nat \ {0}
    /\ Never < Wrap

VARIABLES
    now,      \* hfsys_get_time
    lastTime, \* _cf_pulse_last_time
    length,   \* _cf_pulse_length
    loadOff,  \* _load_off
    energy,   \* _energy_period_counter
    th,       \* next step of timer_handler
    loaded,   \* operands of its comparison it has loaded
    tNow,     \* hfsys_get_time() as loaded
    tLast,    \* _cf_pulse_last_time as loaded
    due,      \* ticks until the timer fires
    quiet,    \* history: ticks since the last pulse, or since boot, up to Never
    gap,      \* history: quiet at the last pulse that was measured
    raced,    \* history: a pulse came during the current or last timer_handler
    torn,     \* history: a pulse came between its two writes
    hasty     \* history: raced, when timer_handler last found no load

clock == <<now, due>>
meter == <<lastTime, length, loadOff, energy>>
operands == <<loaded, tNow, tLast>>
history == <<quiet, gap, raced, torn, hasty>>
vars == <<clock, meter, th, operands, history>>

Init ==
    /\ now = 0 /\ due = Period
    /\ lastTime = 0 /\ length = 0 /\ loadOff = FALSE /\ energy = 0
    /\ th = "idle" /\ loaded = {} /\ tNow = 0 /\ tLast = 0
    /\ quiet = 0 /\ gap = 0
    /\ raced = FALSE /\ torn = FALSE /\ hasty = FALSE

ElapsedInt(a, b) == a - b
ElapsedSigned(a, b) == IF a >= b THEN a - b ELSE 0
(* Subtraction of two uint32_t.                                            *)
Elapsed(a, b) == (a - b) % Wrap

WakesUpNever == loadOff
(* After cf_interrupt the meter knows of a load.                           *)
WakesUp == FALSE

(* The first pulse after no load starts a measure; the others end one.     *)
Counts == IF loadOff THEN 0 ELSE 1

(* intr_handler, for the CF pin: cf_interrupt.                             *)
Pulse ==
    /\ quiet > 0
    /\ lastTime' = now
    /\ length' = IF loadOff THEN length ELSE Elapsed(now, lastTime)
    /\ loadOff' = WakesUp
    /\ energy' = (energy + Counts) % Wrap
    /\ quiet' = 0
    /\ gap' = IF loadOff THEN gap ELSE quiet
    /\ raced' = (th # "idle")
    /\ torn' = (th = "flag" \/ (torn /\ loadOff))
    /\ UNCHANGED <<clock, th, operands, hasty>>

(* The timer fires: timer_handler starts.                                  *)
TimerFires ==
    /\ th = "idle"
    /\ due = 0
    /\ due' = Period
    /\ th' = "load"
    /\ raced' = FALSE
    /\ UNCHANGED <<now, meter, operands, quiet, gap, torn, hasty>>

(* The operands of the comparison, in the order the compiler chose.        *)
LoadNow ==
    /\ th = "load"
    /\ "now" \notin loaded
    /\ tNow' = now
    /\ loaded' = loaded \cup {"now"}
    /\ UNCHANGED <<clock, meter, th, tLast, history>>

LoadLast ==
    /\ th = "load"
    /\ "last" \notin loaded
    /\ tLast' = lastTime
    /\ loaded' = loaded \cup {"last"}
    /\ UNCHANGED <<clock, meter, th, tNow, history>>

AfterCompareEarly == IF Elapsed(tNow, tLast) >= Probe THEN "zero" ELSE "idle"
AfterCompareNever == "idle"
AfterCompare == IF Elapsed(tNow, tLast) > Probe THEN "zero" ELSE "idle"

Compare ==
    /\ th = "load"
    /\ loaded = {"now", "last"}
    /\ th' = AfterCompare
    /\ loaded' = {} /\ tNow' = 0 /\ tLast' = 0
    /\ UNCHANGED <<clock, meter, history>>

ZeroedNot == length
Zeroed == 0

(* No load for some time: first the length ...                             *)
ZeroLength ==
    /\ th = "zero"
    /\ length' = Zeroed
    /\ th' = "flag"
    /\ torn' = FALSE
    /\ UNCHANGED <<clock, lastTime, loadOff, energy, operands, quiet, gap, raced, hasty>>

(* ... and then the flag.                                                  *)
SetLoadOff ==
    /\ th = "flag"
    /\ loadOff' = TRUE
    /\ th' = "idle"
    /\ hasty' = raced
    /\ UNCHANGED <<clock, lastTime, length, energy, operands, quiet, gap, raced, torn>>

(* Time passes; a handler the timer has started ends before its next turn. *)
Tick ==
    /\ due > 0
    /\ now' = (now + 1) % Wrap
    /\ due' = due - 1
    /\ quiet' = IF quiet = Never THEN Never ELSE quiet + 1
    /\ UNCHANGED <<meter, th, operands, gap, raced, torn, hasty>>

TimerHandler == TimerFires \/ LoadNow \/ LoadLast \/ Compare \/ ZeroLength \/ SetLoadOff

Next == Pulse \/ TimerHandler \/ Tick

Spec == Init /\ [][Next]_vars

-----------------------------------------------------------------------------
TypeOK ==
    /\ now \in 0 .. Wrap - 1 /\ lastTime \in 0 .. Wrap - 1
    /\ length \in 0 .. Wrap - 1 /\ energy \in 0 .. Wrap - 1
    /\ tNow \in 0 .. Wrap - 1 /\ tLast \in 0 .. Wrap - 1
    /\ loadOff \in BOOLEAN /\ raced \in BOOLEAN
    /\ torn \in BOOLEAN /\ hasty \in BOOLEAN
    /\ th \in {"idle", "load", "zero", "flag"}
    /\ loaded \subseteq {"now", "last"}
    /\ due \in 0 .. Period
    /\ quiet \in 0 .. Never
    /\ gap \in 0 .. Never

(* A length the meter shows is the true time that passed between two       *)
(* pulses, or between boot and the first one, also across the wrap of the  *)
(* clock and however long the load was off (power_meter.c:74-84).          *)
LengthIsGap == length > 0 => length = gap

(* A load that stopped is found out: after the probe time and two periods  *)
(* of the timer the meter shows no power (power_meter.c:62-67).            *)
StoppedLoadSeen == quiet = Never => loadOff /\ length = 0

(* While the meter takes the load for off, it shows no power, unless a     *)
(* pulse came between the two writes of timer_handler.                     *)
OffShowsNothing == loadOff /\ th # "flag" /\ ~torn => length = 0

(* The meter takes a load for off only when no pulse has come for the      *)
(* probe time, unless one came while timer_handler ran                     *)
(* (power_meter.c:64-67).                                                  *)
OffMeansQuiet == loadOff /\ ~hasty => quiet > Probe

(* A pulse of a load whose pulses come within the probe time counts as     *)
(* energy, but for the first one after timer_handler was hasty, which only *)
(* wakes the meter up (power_meter.c:76-82).                               *)
EnergyCounted ==
    [][quiet' < quiet /\ quiet <= Probe /\ ~(hasty /\ loadOff)
        => energy' = (energy + 1) % Wrap]_vars

(* What power_meter.c:10 says: no load is decided on after the probe time. *)
NoLoadMeansQuiet == loadOff => quiet > Probe
=============================================================================

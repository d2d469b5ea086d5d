------------------------------ MODULE KeyPress ------------------------------
(***************************************************************************)
(* From a finger on the button to what the strip does (user_key.c): the    *)
(* contact bounces, every edge interrupts, interrupt_handler measures the  *)
(* press on a clock that wraps around and toggles all sockets, starts      *)
(* smartlink or does nothing.                                              *)
(*                                                                         *)
(* One tick of time stands for as many milliseconds as the constants say.  *)
(* What a toggle does to the relays is RelayBoard's KeyShortPress.         *)
(***************************************************************************)
EXTENDS Integers

CONSTANTS
    Wrap,       \* values of hfsys_get_time, 2^32 ms in the code
    Debounce,   \* 30 ms
    Short,      \* 1000 ms
    Long,       \* 3000 ms
    Bounce,     \* a contact has settled this long after the finger moved
    MaxHold     \* the longest push

ASSUME KeyAssumption ==
    /\ {Wrap, Debounce, Short, Long, Bounce, MaxHold} \subseteq Nat \ {0}
    /\ Bounce <= Debounce
    /\ Debounce + Bounce <= Short
    /\ Short <= Long
    /\ MaxHold + Bounce < Wrap

VARIABLES
    now,        \* hfsys_get_time
    last,       \* _last_interrupt_time
    on,         \* the firmware runs with user_key_init done
    finger,     \* the button is pushed down
    contact,    \* the contact is closed
    settle,     \* ticks since the finger moved, up to Bounce
    hold,       \* ticks the current or last push has lasted
    seen,       \* all of that push fell into this run of the firmware
    toggles,    \* toggles since the push began (2: two or more)
    links       \* smartlink starts since the push began (2: two or more)

user == <<finger, contact, settle, hold>>
vars == <<now, last, on, user, seen, toggles, links>>

Init ==
    /\ now = 0 /\ last = 0
    /\ on = FALSE
    /\ finger = FALSE /\ contact = FALSE
    /\ settle = Bounce /\ hold = 0
    /\ seen = FALSE
    /\ toggles = 0 /\ links = 0

AfterUnbounded(t) == t + 1
(* The clock is a uint32_t.                                                *)
After(t) == (t + 1) % Wrap

More(n) == IF n = 2 THEN 2 ELSE n + 1

DurationSigned == IF now >= last THEN now - last ELSE 0
(* Unsigned subtraction.                                                   *)
Duration == (now - last) % Wrap

IsShortBouncy == Duration < Short
IsShort == Debounce <= Duration /\ Duration < Short
IsLong == Duration > Long

(* interrupt_handler with state 2: the contact closes.                     *)
HandlerPressed ==
    /\ last' = now
    /\ UNCHANGED <<on, toggles, links>>

(* Any other state: it opens.  hfsmtlk_start restarts the system.          *)
HandlerReleased ==
    /\ toggles' = IF IsShort THEN More(toggles) ELSE toggles
    /\ links' = IF IsLong THEN More(links) ELSE links
    /\ on' = ~IsLong
    /\ UNCHANGED last

(* The contact moves with the finger, or bounces soon after.               *)
ContactMoves ==
    /\ settle < Bounce
    /\ contact' = ~contact
    /\ IF ~on THEN UNCHANGED <<last, on, toggles, links>>
       ELSE IF contact' THEN HandlerPressed
       ELSE HandlerReleased
    /\ UNCHANGED <<now, finger, settle, hold, seen>>

Push ==
    /\ ~finger
    /\ settle = Bounce
    /\ finger' = TRUE
    /\ settle' = 0
    /\ hold' = 0
    /\ seen' = on
    /\ toggles' = 0 /\ links' = 0
    /\ UNCHANGED <<now, last, on, contact>>

LetGo ==
    /\ finger
    /\ settle = Bounce
    /\ finger' = FALSE
    /\ settle' = 0
    /\ UNCHANGED <<now, last, on, contact, hold, seen, toggles, links>>

Tick ==
    /\ settle = Bounce - 1 => contact = finger
    /\ finger => hold < MaxHold
    /\ now' = After(now)
    /\ settle' = IF settle = Bounce THEN Bounce ELSE settle + 1
    /\ hold' = IF finger THEN hold + 1 ELSE hold
    /\ UNCHANGED <<last, on, finger, contact, seen, toggles, links>>

(* The firmware starts, whatever the button is doing, or loses power.      *)
Boot ==
    /\ ~on
    /\ on' = TRUE
    /\ now' = 0 /\ last' = 0
    /\ seen' = FALSE
    /\ UNCHANGED <<user, toggles, links>>

PowerLoss ==
    /\ on
    /\ on' = FALSE
    /\ seen' = FALSE
    /\ UNCHANGED <<now, last, user, toggles, links>>

Next == ContactMoves \/ Push \/ LetGo \/ Tick \/ Boot \/ PowerLoss

Spec == Init /\ [][Next]_vars

-----------------------------------------------------------------------------
TypeOK ==
    /\ now \in 0 .. Wrap - 1
    /\ last \in 0 .. Wrap - 1
    /\ on \in BOOLEAN /\ seen \in BOOLEAN
    /\ finger \in BOOLEAN /\ contact \in BOOLEAN
    /\ settle \in 0 .. Bounce
    /\ hold \in 0 .. MaxHold
    /\ toggles \in 0 .. 2
    /\ links \in 0 .. 2

(* However the contact bounces at both ends of a push, the push toggles    *)
(* the sockets or starts smartlink at most once, and never does both       *)
(* (user_key.c:26-55).                                                     *)
OneEffectPerPush == seen => toggles + links <= 1

PushIsOver == seen /\ ~finger /\ settle = Bounce

(* A finished push did what its true length says, give or take the bounces *)
(* at its ends, also across the wrap of the clock: a short one toggled, a  *)
(* long one started smartlink, one in between did nothing.                 *)
PushDidItsPart ==
    PushIsOver =>
        /\ hold \in Debounce + Bounce .. Short - Bounce => toggles = 1 /\ links = 0
        /\ hold \in Short + Bounce .. Long - Bounce => toggles = 0 /\ links = 0
        /\ hold > Long + Bounce => toggles = 0 /\ links = 1

(* The interrupt handler is the button it is meant to be: bounces and the  *)
(* wrapping clock show only as a slack of the thresholds, and what a push  *)
(* does, it does after the push and before the next (user_key.c:26-55).    *)
B == INSTANCE Button WITH
    Slack <- Bounce, down <- finger, held <- hold, watched <- seen,
    effects <- IF seen THEN <<toggles, links>> ELSE <<0, 0>>
ImplementsButton == B!ButtonSpec
=============================================================================

--------------------------- MODULE KeyPressProofs ---------------------------
(***************************************************************************)
(* The invariants of KeyPress, for any clock, any limits of short and long *)
(* pushes and any bouncing that satisfy KeyAssumption.                     *)
(***************************************************************************)
EXTENDS KeyPress, TLAPS

-----------------------------------------------------------------------------
(* What the assumption says, one fact at a time.                           *)
LEMMA KeyFacts ==
    /\ Wrap \in Nat /\ Debounce \in Nat /\ Short \in Nat
    /\ Long \in Nat /\ Bounce \in Nat /\ MaxHold \in Nat
    /\ Wrap > 0 /\ Debounce > 0 /\ Bounce > 0 /\ MaxHold > 0
    /\ Bounce <= Debounce /\ Debounce + Bounce <= Short
    /\ Short <= Long /\ MaxHold + Bounce < Wrap
  BY KeyAssumption DEF KeyAssumption

LEMMA ModSmall == ASSUME NEW w \in Nat \ {0}, NEW a \in 0 .. w - 1 PROVE a % w = a
  OBVIOUS

LEMMA ModBelow == ASSUME NEW w \in Nat \ {0}, NEW a \in 1 .. w - 1 PROVE (a - w) % w = a
  OBVIOUS

LEMMA ModSelf == ASSUME NEW w \in Nat \ {0} PROVE w % w = 0
  OBVIOUS

(* The clock and the difference of two of its values, without modulo.      *)
LEMMA AfterIs ==
    ASSUME NEW t \in 0 .. Wrap - 1
    PROVE  After(t) = IF t = Wrap - 1 THEN 0 ELSE t + 1
<1>1. CASE t = Wrap - 1
  <2>1. t + 1 = Wrap
    BY <1>1, KeyFacts
  <2> QED
    BY <1>1, <2>1, ModSelf, KeyFacts DEF After
<1>2. CASE t # Wrap - 1
  <2>1. t + 1 \in 0 .. Wrap - 1
    BY <1>2, KeyFacts
  <2> QED
    BY <1>2, <2>1, ModSmall, KeyFacts DEF After
<1> QED
  BY <1>1, <1>2

LEMMA DurationIs ==
    ASSUME now \in 0 .. Wrap - 1, last \in 0 .. Wrap - 1
    PROVE  Duration = IF now >= last THEN now - last ELSE now - last + Wrap
<1>1. CASE now >= last
  <2>1. now - last \in 0 .. Wrap - 1
    BY <1>1, KeyFacts
  <2> QED
    BY <1>1, <2>1, ModSmall, KeyFacts DEF Duration
<1>2. CASE ~(now >= last)
  <2> DEFINE a == now - last + Wrap
  <2>1. a \in 1 .. Wrap - 1 /\ now - last = a - Wrap
    BY <1>2, KeyFacts
  <2>2. (a - Wrap) % Wrap = a
    BY <2>1, ModBelow, KeyFacts
  <2> QED
    BY <1>2, <2>1, <2>2 DEF Duration
<1> QED
  BY <1>1, <1>2

-----------------------------------------------------------------------------
(* What the handlers write in every state.                                 *)
LEMMA ZeroFits ==
    /\ 0 \in 0 .. Wrap - 1 /\ 0 \in 0 .. Bounce /\ Bounce \in 0 .. Bounce
    /\ 0 \in 0 .. MaxHold /\ 0 \in 0 .. 2
  BY KeyFacts

LEMMA KeyTypeInit == Init => TypeOK
  BY ZeroFits, Zenon DEF Init, TypeOK

LEMMA KeyTypeStep == TypeOK /\ [Next]_vars => TypeOK'
<1> SUFFICES ASSUME TypeOK, [Next]_vars PROVE TypeOK'
  OBVIOUS
<1> USE KeyFacts DEF TypeOK, user
<1>1. CASE ContactMoves
  <2>1. contact' \in BOOLEAN /\ UNCHANGED <<now, finger, settle, hold, seen>>
    BY <1>1, Zenon DEF ContactMoves
  <2>2. last' \in 0 .. Wrap - 1 /\ toggles' \in 0 .. 2 /\ links' \in 0 .. 2
    BY <1>1 DEF ContactMoves, HandlerPressed, HandlerReleased, More
  <2>3. on' \in BOOLEAN
    BY <1>1, Zenon DEF ContactMoves, HandlerPressed, HandlerReleased
  <2> QED
    BY <2>1, <2>2, <2>3
<1>2. CASE Push
  BY <1>2, ZeroFits, Zenon DEF Push
<1>3. CASE LetGo
  BY <1>3, ZeroFits, Zenon DEF LetGo
<1>4. CASE Tick
  <2>1. now' \in 0 .. Wrap - 1
    BY <1>4, AfterIs DEF Tick
  <2>2. settle' \in 0 .. Bounce /\ hold' \in 0 .. MaxHold
    BY <1>4 DEF Tick
  <2> QED
    BY <1>4, <2>1, <2>2 DEF Tick
<1>5. CASE Boot
  BY <1>5, ZeroFits, Zenon DEF Boot
<1>6. CASE PowerLoss
  BY <1>6 DEF PowerLoss
<1>7. CASE UNCHANGED vars
  BY <1>7 DEF vars
<1> QED
  BY <1>1, <1>2, <1>3, <1>4, <1>5, <1>6, <1>7 DEF Next

(* The variables of KeyPress keep their types.                             *)
THEOREM KeyTypeCorrect == Spec => []TypeOK
  BY KeyTypeInit, KeyTypeStep, PTL DEF Spec

-----------------------------------------------------------------------------
(* The contact agrees with the finger once it has settled.                 *)
ContactInv == settle = Bounce => contact = finger

(* While the finger is down nothing has happened yet, and what will be     *)
(* measured is the hold so far, give or take the bounces of its beginning. *)
ClosingInv ==
    seen /\ finger =>
        /\ on /\ toggles = 0 /\ links = 0
        /\ settle < Bounce => hold = settle
        /\ contact => Duration <= hold /\ hold < Duration + Bounce

(* The finger is up, and the contact has not followed yet ...              *)
HeldInv ==
    /\ on /\ contact /\ toggles = 0 /\ links = 0
    /\ Duration <= hold + settle /\ hold + settle < Duration + Bounce

(* The effects of a press measured as d.                                   *)
Effects(d) ==
    /\ toggles = IF Debounce <= d /\ d < Short THEN 1 ELSE 0
    /\ links = IF d > Long THEN 1 ELSE 0
    /\ (on <=> d <= Long)

(* ... or it has, with the effects of a press of about the same length,    *)
(* and what comes after that is too short to count.                        *)
OpenedInv ==
    /\ contact /\ on => Duration <= settle
    /\ \E d \in 0 .. Wrap - 1 : hold < d + Bounce /\ d < hold + Bounce /\ Effects(d)

OpeningInv == seen /\ ~finger => HeldInv \/ OpenedInv

PushInv == ContactInv /\ ClosingInv /\ OpeningInv

(* Time passing is measured, as long as it is less than a turn of the      *)
(* clock.                                                                  *)
LEMMA TickMeasured ==
    ASSUME TypeOK, Tick, Duration < Wrap - 1
    PROVE  Duration' = Duration + 1
<1> DEFINE n == IF now = Wrap - 1 THEN 0 ELSE now + 1
           a == IF n >= last THEN n - last ELSE n - last + Wrap
<1>1. now' = n /\ last' = last
  BY AfterIs DEF Tick, TypeOK
<1>2. n \in 0 .. Wrap - 1 /\ last \in 0 .. Wrap - 1 /\ now \in 0 .. Wrap - 1
  BY KeyFacts DEF TypeOK
<1>3. Duration = IF now >= last THEN now - last ELSE now - last + Wrap
  BY DurationIs DEF TypeOK
<1>4. Duration' = (n - last) % Wrap
  BY <1>1 DEF Duration
<1>5. a = Duration + 1
  BY <1>2, <1>3, KeyFacts
<1> HIDE DEF n
<1>6. (n - last) % Wrap = a
  <2>1. CASE n >= last
    <3>1. n - last \in 0 .. Wrap - 1
      BY <1>2, <2>1, KeyFacts
    <3> QED
      BY <2>1, <3>1, ModSmall, KeyFacts
  <2>2. CASE ~(n >= last)
    <3>1. a \in 1 .. Wrap - 1 /\ n - last = a - Wrap
      BY <1>2, <2>2, KeyFacts
    <3> QED
      BY <3>1, ModBelow, KeyFacts
  <2> QED
    BY <2>1, <2>2
<1> QED
  BY <1>4, <1>5, <1>6

(* A press just begun has lasted no time.                                  *)
LEMMA PressedNow ==
    ASSUME TypeOK, now' = now, last' = now
    PROVE  Duration' = 0
<1>1. now' - last' = 0
  BY DEF TypeOK
<1>2. 0 % Wrap = 0
  BY ModSmall, KeyFacts
<1> QED
  BY <1>1, <1>2 DEF Duration

LEMMA DurationType == TypeOK => Duration \in 0 .. Wrap - 1
  BY DurationIs, KeyFacts DEF TypeOK

-----------------------------------------------------------------------------
LEMMA ClosingStep ==
    ASSUME TypeOK, PushInv, ContactMoves, seen, finger
    PROVE  PushInv'
<1> USE KeyFacts DEF PushInv, ContactInv, ClosingInv, OpeningInv, TypeOK
<1>1. /\ settle < Bounce /\ hold = settle /\ on /\ toggles = 0 /\ links = 0
      /\ UNCHANGED <<now, finger, settle, hold, seen>> /\ contact' = ~contact
  BY DEF ContactMoves
<1>2. CASE ~contact
  <2>1. HandlerPressed
    BY <1>1, <1>2 DEF ContactMoves
  <2>2. Duration' = 0
    BY <1>1, <2>1, PressedNow DEF HandlerPressed
  <2>3. 0 <= hold /\ hold < 0 + Bounce /\ settle # Bounce
    BY <1>1
  <2>4. /\ on' /\ toggles' = 0 /\ links' = 0 /\ settle' # Bounce
        /\ hold' = settle' /\ seen' /\ finger'
    BY <1>1, <2>1, <2>3, Zenon DEF HandlerPressed
  <2>5. Duration' <= hold' /\ hold' < Duration' + Bounce
    BY <1>1, <2>2, <2>3, Zenon
  <2> QED
    BY <2>4, <2>5, Zenon
<1>3. CASE contact
  <2>1. HandlerReleased
    BY <1>1, <1>3, Zenon DEF ContactMoves
  <2>2. Duration < Debounce /\ Duration <= Long
    BY <1>1, <1>3, DurationType
  <2>3. ~IsShort /\ ~IsLong
    BY <2>2, DurationType DEF IsShort, IsLong
  <2>4. toggles' = toggles /\ links' = links /\ on'
    BY <2>1, <2>3, Zenon DEF HandlerReleased
  <2>5. settle # Bounce
    BY <1>1
  <2>6. /\ on' /\ toggles' = 0 /\ links' = 0 /\ settle' # Bounce
        /\ hold' = settle' /\ seen' /\ finger' /\ ~contact'
    BY <1>1, <1>3, <2>4, <2>5, Zenon
  <2> QED
    BY <2>6, Zenon
<1> QED
  BY <1>2, <1>3

LEMMA OpeningStep ==
    ASSUME TypeOK, PushInv, ContactMoves, seen, ~finger
    PROVE  PushInv'
<1> USE KeyFacts DEF PushInv, ContactInv, ClosingInv, OpeningInv, TypeOK
<1>1. /\ settle < Bounce /\ UNCHANGED <<now, finger, settle, hold, seen>>
      /\ contact' = ~contact
  BY DEF ContactMoves
<1> SUFFICES HeldInv' \/ OpenedInv'
  BY <1>1
<1>2. CASE HeldInv
  <2>1. HandlerReleased
    BY <1>2, Zenon DEF ContactMoves, HeldInv
  <2>2. hold < Duration + Bounce /\ Duration < hold + Bounce
    BY <1>1, <1>2, DurationType DEF HeldInv
  <2>3. Effects(Duration)'
    <3>1. /\ toggles' = IF IsShort THEN 1 ELSE 0
          /\ links' = IF IsLong THEN 1 ELSE 0
      BY <1>2, <2>1 DEF HandlerReleased, HeldInv, More
    <3>2. on' <=> ~IsLong
      BY <2>1, Zenon DEF HandlerReleased
    <3>3. IsLong <=> Duration > Long
      BY DEF IsLong
    <3>4. last' = last
      BY <2>1 DEF HandlerReleased
    <3>5. Duration' = Duration
      BY <1>1, <3>4 DEF Duration
    <3> QED
      BY <3>1, <3>2, <3>3, <3>5, DurationType DEF Effects, IsShort, IsLong
  <2>4. ~contact'
    BY <1>1, <1>2 DEF HeldInv
  <2>5. Duration' = Duration
    BY <1>1, <2>1 DEF HandlerReleased, Duration
  <2> QED
    BY <1>1, <2>2, <2>3, <2>4, <2>5, DurationType DEF OpenedInv, Effects
<1>3. CASE OpenedInv
  <2>1. PICK d \in 0 .. Wrap - 1 : hold < d + Bounce /\ d < hold + Bounce /\ Effects(d)
    BY <1>3 DEF OpenedInv
  <2>2. CASE ~on
    <3>1. UNCHANGED <<last, on, toggles, links>>
      BY <2>2, Zenon DEF ContactMoves
    <3> QED
      BY <1>1, <2>1, <2>2, <3>1 DEF OpenedInv, Effects
  <2>3. CASE on /\ ~contact
    <3>1. HandlerPressed
      BY <1>1, <2>3, Zenon DEF ContactMoves
    <3>2. Duration' = 0
      BY <1>1, <3>1, PressedNow DEF HandlerPressed
    <3> QED
      BY <1>1, <2>1, <3>1, <3>2 DEF OpenedInv, Effects, HandlerPressed
  <2>4. CASE on /\ contact
    <3>1. HandlerReleased
      BY <1>1, <2>4, Zenon DEF ContactMoves
    <3>2. Duration < Debounce /\ Duration <= Long
      BY <1>1, <1>3, <2>4, DurationType DEF OpenedInv
    <3>3. ~IsShort /\ ~IsLong
      BY <3>2, DurationType DEF IsShort, IsLong
    <3>4. toggles' = toggles /\ links' = links /\ on'
      BY <3>1, <3>3, Zenon DEF HandlerReleased
    <3> QED
      BY <1>1, <2>1, <2>4, <3>4 DEF OpenedInv, Effects
  <2> QED
    BY <2>2, <2>3, <2>4
<1> QED
  BY <1>2, <1>3

LEMMA TickStep ==
    ASSUME TypeOK, PushInv, Tick
    PROVE  PushInv'
<1> USE KeyFacts DEF PushInv, ContactInv, TypeOK
<1>1. /\ UNCHANGED <<last, on, finger, contact, seen, toggles, links>>
      /\ settle' = IF settle = Bounce THEN Bounce ELSE settle + 1
      /\ hold' = IF finger THEN hold + 1 ELSE hold
      /\ (finger => hold < MaxHold)
      /\ (settle = Bounce - 1 => contact = finger)
  BY DEF Tick
<1>2. ContactInv'
  BY <1>1
<1>3. ClosingInv'
  <2> SUFFICES ASSUME seen, finger PROVE ClosingInv'
    BY <1>1 DEF ClosingInv
  <2>1. contact => Duration' = Duration + 1
    BY TickMeasured, DurationType DEF ClosingInv
  <2> QED
    BY <1>1, <2>1, DurationType DEF ClosingInv
<1>4. OpeningInv'
  <2> SUFFICES ASSUME seen, ~finger PROVE HeldInv' \/ OpenedInv'
    BY <1>1 DEF OpeningInv
  <2>1. CASE HeldInv
    <3>1. settle < Bounce - 1
      <4>1. contact # finger
        BY <2>1, Zenon DEF HeldInv
      <4>2. settle # Bounce - 1 /\ settle # Bounce
        BY <1>1, <4>1, Zenon
      <4> QED
        BY <4>2
    <3>2. Duration' = Duration + 1
      BY <2>1, <3>1, TickMeasured, DurationType DEF HeldInv
    <3> QED
      BY <1>1, <2>1, <3>1, <3>2, DurationType DEF HeldInv
  <2>2. CASE OpenedInv
    <3>1. contact => settle # Bounce
      BY Zenon
    <3>2. contact /\ on => settle < Bounce /\ Duration <= settle
      BY <2>2, <3>1 DEF OpenedInv
    <3>3. settle < Bounce /\ Duration <= settle => Duration < Wrap - 1
      BY DurationType
    <3>4. contact /\ on => Duration' = Duration + 1
      BY <3>2, <3>3, TickMeasured, Zenon
    <3>5. contact' /\ on' => Duration' <= settle'
      BY <1>1, <3>2, <3>4, DurationType
    <3>6. PICK d \in 0 .. Wrap - 1 : hold < d + Bounce /\ d < hold + Bounce /\ Effects(d)
      BY <2>2 DEF OpenedInv
    <3>7. hold' = hold /\ Effects(d)'
      BY <1>1, <3>6, Zenon DEF Effects
    <3> QED
      BY <3>5, <3>6, <3>7, Zenon DEF OpenedInv
  <2> QED
    BY <2>1, <2>2 DEF OpeningInv
<1> QED
  BY <1>2, <1>3, <1>4

LEMMA PushStep == TypeOK /\ PushInv /\ [Next]_vars => PushInv'
<1> SUFFICES ASSUME TypeOK, PushInv, [Next]_vars PROVE PushInv'
  OBVIOUS
<1> USE DEF PushInv, ContactInv, ClosingInv, OpeningInv, user
<1>1. CASE ContactMoves
  <2>1. CASE seen
    BY <1>1, <2>1, ClosingStep, OpeningStep
  <2>2. CASE ~seen
    <3>1. settle' # Bounce /\ ~seen'
      BY <1>1, <2>2, KeyFacts DEF ContactMoves, TypeOK
    <3> QED
      BY <3>1, Zenon
  <2> QED
    BY <2>1, <2>2
<1>2. CASE Push
  <2>1. 0 # Bounce
    BY KeyFacts
  <2>2. /\ settle' # Bounce /\ hold' = settle' /\ finger' /\ seen' = on /\ on' = on
        /\ toggles' = 0 /\ links' = 0 /\ contact' = FALSE
    BY <1>2, <2>1, Zenon DEF Push, TypeOK
  <2> QED
    BY <2>2, Zenon
<1>3. CASE LetGo
  <2>1. ContactInv' /\ ClosingInv'
    <3>1. 0 # Bounce
      BY KeyFacts
    <3> QED
      BY <1>3, <3>1, Zenon DEF LetGo
  <2>2. ASSUME seen PROVE HeldInv'
    <3>1. Duration' = Duration /\ contact /\ on /\ toggles = 0 /\ links = 0
      BY <1>3, <2>2 DEF LetGo, Duration
    <3>2. Duration <= hold /\ hold < Duration + Bounce
      BY <1>3, <2>2, <3>1 DEF LetGo
    <3> QED
      BY <1>3, <3>1, <3>2 DEF LetGo, HeldInv, TypeOK
  <2> QED
    BY <1>3, <2>1, <2>2 DEF LetGo
<1>4. CASE Tick
  BY <1>4, TickStep
<1>5. CASE Boot \/ PowerLoss
  BY <1>5 DEF Boot, PowerLoss
<1>6. CASE UNCHANGED vars
  BY <1>6 DEF vars, HeldInv, OpenedInv, Effects, Duration
<1> QED
  BY <1>1, <1>2, <1>3, <1>4, <1>5, <1>6 DEF Next

LEMMA PushInit == Init => PushInv
  BY DEF Init, PushInv, ContactInv, ClosingInv, OpeningInv

(* A push has one effect at most, whatever the contact bounces.            *)
THEOREM OneEffect == Spec => []OneEffectPerPush
<1>1. TypeOK /\ PushInv => OneEffectPerPush
  BY KeyFacts DEF TypeOK, PushInv, ClosingInv, OpeningInv, HeldInv, OpenedInv,
     Effects, OneEffectPerPush
<1> QED
  BY <1>1, PushInit, PushStep, KeyTypeCorrect, PTL DEF Spec

LEMMA PushCounts == TypeOK /\ PushInv => PushDidItsPart
<1> SUFFICES ASSUME TypeOK, PushInv, PushIsOver PROVE PushDidItsPart
  BY DEF PushDidItsPart
<1>1. OpenedInv
  BY DEF PushInv, ContactInv, OpeningInv, HeldInv, PushIsOver
<1>2. PICK d \in 0 .. Wrap - 1 : hold < d + Bounce /\ d < hold + Bounce /\ Effects(d)
  BY <1>1 DEF OpenedInv
<1> QED
  BY <1>2, KeyFacts DEF PushDidItsPart, Effects, TypeOK

(* The effect is the one the push's true length calls for, also when the   *)
(* clock wraps around during the push.                                     *)
THEOREM PushDoesItsPart == Spec => []PushDidItsPart
  BY PushCounts, PushInit, PushStep, KeyTypeCorrect, PTL DEF Spec

-----------------------------------------------------------------------------
(* The refinement of Button.                                               *)

(* An edge of the contact acts as the button may, or changes no count.     *)
LEMMA EdgeMaps ==
    ASSUME TypeOK, PushInv, TypeOK', PushInv', ContactMoves, seen
    PROVE  B!Act \/ (toggles' = toggles /\ links' = links)
<1>1. UNCHANGED <<finger, hold, seen>> /\ settle' = settle
  BY Zenon DEF ContactMoves
<1>2. /\ toggles' = toggles \/ toggles' = More(toggles)
      /\ links' = links \/ links' = More(links)
  <2>1. CASE HandlerReleased
    BY <2>1 DEF HandlerReleased
  <2>2. CASE ~HandlerReleased
    BY <2>2, Zenon DEF ContactMoves, HandlerPressed
  <2> QED
    BY <2>1, <2>2
<1>3. CASE finger
  BY <1>1, <1>3 DEF PushInv, ClosingInv
<1>4. CASE ~finger
  <2>1. CASE HeldInv'
    BY <1>2, <2>1 DEF HeldInv, More, TypeOK
  <2>2. CASE OpenedInv'
    <3>1. PICK d \in 0 .. Wrap - 1 : hold' < d + Bounce /\ d < hold' + Bounce /\ Effects(d)'
      BY <2>2 DEF OpenedInv
    <3>2. /\ toggles' = IF Debounce <= d /\ d < Short THEN 1 ELSE 0
          /\ links' = IF d > Long THEN 1 ELSE 0
      BY <3>1 DEF Effects
    <3>3. CASE toggles = 0 /\ links = 0
      <4>1. CASE Debounce <= d /\ d < Short
        <5>1. toggles' = 1 /\ links' = 0
          BY <3>2, <4>1, KeyFacts
        <5>2. hold > Debounce - Bounce /\ hold < Short + Bounce
          BY <1>1, <3>1, <4>1, KeyFacts DEF TypeOK
        <5>3. B!Allowed(B!Toggle)
          BY <5>2 DEF B!Allowed
        <5> QED
          BY <1>1, <1>4, <3>3, <5>1, <5>3, Zenon DEF B!Act, B!Nothing, B!Toggle, B!Link
      <4>2. CASE d > Long
        <5>1. toggles' = 0 /\ links' = 1
          BY <3>2, <4>2, KeyFacts
        <5>2. hold > Long - Bounce
          BY <1>1, <3>1, <4>2, KeyFacts DEF TypeOK
        <5>3. B!Allowed(B!Link)
          BY <5>2 DEF B!Allowed
        <5> QED
          BY <1>1, <1>4, <3>3, <5>1, <5>3, Zenon DEF B!Act, B!Nothing, B!Toggle, B!Link
      <4>3. CASE ~(Debounce <= d /\ d < Short) /\ ~(d > Long)
        BY <3>2, <3>3, <4>3
      <4> QED
        BY <4>1, <4>2, <4>3
    <3>4. CASE ~(toggles = 0 /\ links = 0)
      <4>1. (toggles = 1 /\ links = 0) \/ (toggles = 0 /\ links = 1)
        BY <1>4, <3>4, KeyFacts DEF PushInv, OpeningInv, HeldInv, OpenedInv, Effects
      <4>2. \/ toggles' = 1 /\ links' = 0
            \/ toggles' = 0 /\ links' = 1
            \/ toggles' = 0 /\ links' = 0
        BY <3>2, KeyFacts
      <4>3. More(0) = 1 /\ More(1) = 2
        BY DEF More
      <4> QED
        BY <1>2, <4>1, <4>2, <4>3
    <3> QED
      BY <3>3, <3>4
  <2> QED
    BY <1>1, <1>4, <2>1, <2>2 DEF PushInv, OpeningInv
<1> QED
  BY <1>3, <1>4

LEMMA ButtonStep ==
    TypeOK /\ PushInv /\ TypeOK' /\ PushInv' /\ [Next]_vars => [B!BNext]_(B!bvars)
<1> SUFFICES ASSUME TypeOK, PushInv, TypeOK', PushInv', [Next]_vars
             PROVE  B!BNext \/ UNCHANGED B!bvars
  OBVIOUS
<1> USE DEF user
<1>1. CASE ContactMoves
  <2>1. UNCHANGED <<finger, hold, seen>>
    BY <1>1, Zenon DEF ContactMoves
  <2> QED
    BY <1>1, <2>1, EdgeMaps, Zenon DEF B!BNext, B!bvars
<1>2. CASE Push
  <2>1. seen => PushIsOver
    BY <1>2 DEF Push, PushIsOver
  <2>2. seen => B!Owed
    BY <2>1, PushCounts, KeyFacts DEF PushDidItsPart, B!Owed, B!Toggle, B!Link, TypeOK
  <2>3. /\ finger = FALSE /\ finger' = TRUE /\ hold' = 0 /\ seen' = on
        /\ toggles' = 0 /\ links' = 0
    BY <1>2, Zenon DEF Push, TypeOK
  <2>4. B!Push(on)
    BY <2>2, <2>3, Zenon DEF B!Push, B!Nothing
  <2>5. on \in BOOLEAN
    BY DEF TypeOK
  <2> QED
    BY <2>4, <2>5, Zenon DEF B!BNext
<1>3. CASE LetGo
  BY <1>3, Zenon DEF LetGo, B!BNext, B!LetGo
<1>4. CASE Tick
  BY <1>4, Zenon DEF Tick, B!BNext, B!Hold, B!bvars
<1>5. CASE Boot \/ PowerLoss
  <2>1. UNCHANGED <<finger, hold>> /\ seen' = FALSE
    BY <1>5, Zenon DEF Boot, PowerLoss
  <2> QED
    BY <2>1, Zenon DEF B!BNext, B!Miss, B!Nothing
<1>6. CASE UNCHANGED vars
  BY <1>6, Zenon DEF vars, B!bvars
<1> QED
  BY <1>1, <1>2, <1>3, <1>4, <1>5, <1>6 DEF Next

(* The interrupt handler implements the button: what a push does comes     *)
(* after it and before the next, once, and is what its length calls for.   *)
THEOREM KeyImplementsButton == Spec => ImplementsButton
<1>1. Init => B!BInit
  BY Zenon DEF Init, B!BInit, B!Nothing
<1> QED
  BY <1>1, PushInit, PushStep, ButtonStep, KeyTypeCorrect, PTL
  DEF Spec, ImplementsButton, B!ButtonSpec
=============================================================================

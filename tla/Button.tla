------------------------------- MODULE Button -------------------------------
(***************************************************************************)
(* What the button promises to a finger that pushes it: after the finger   *)
(* is gone, and before it comes back, one thing happens at most, the one   *)
(* the length of the push calls for.  Pushes that power loss or a start of *)
(* the firmware falls into are not watched, and promise nothing.           *)
(***************************************************************************)
EXTENDS Integers

CONSTANTS Debounce, Short, Long,
          Slack      \* how far the measured length may be off

VARIABLES
    down,      \* the finger is on the button
    held,      \* how long the current or last push has lasted
    watched,   \* the firmware saw all of it
    effects    \* toggles and smartlink starts it has caused, while watched

bvars == <<down, held, watched, effects>>

Nothing == <<0, 0>>
Toggle == <<1, 0>>
Link == <<0, 1>>

BInit ==
    /\ down = FALSE /\ held = 0
    /\ watched = FALSE
    /\ effects = Nothing

Allowed(e) ==
    \/ e = Toggle /\ held > Debounce - Slack /\ held < Short + Slack
    \/ e = Link /\ held > Long - Slack

Owed ==
    /\ held \in Debounce + Slack .. Short - Slack => effects = Toggle
    /\ held > Long + Slack => effects = Link

Push(seen) ==
    /\ ~down
    /\ watched => Owed
    /\ down' = TRUE /\ held' = 0
    /\ watched' = seen
    /\ effects' = Nothing

Hold == down /\ held' = held + 1 /\ UNCHANGED <<down, watched, effects>>

LetGo == down /\ down' = FALSE /\ UNCHANGED <<held, watched, effects>>

Act ==
    /\ ~down /\ watched
    /\ effects = Nothing
    /\ effects' \in {e \in {Toggle, Link} : Allowed(e)}
    /\ UNCHANGED <<down, held, watched>>

Miss ==
    /\ watched' = FALSE /\ effects' = Nothing
    /\ UNCHANGED <<down, held>>

BNext == (\E seen \in BOOLEAN : Push(seen)) \/ Hold \/ LetGo \/ Act \/ Miss

ButtonSpec == BInit /\ [][BNext]_bvars
=============================================================================

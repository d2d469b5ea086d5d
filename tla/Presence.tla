------------------------------ MODULE Presence ------------------------------
(***************************************************************************)
(* What the strip promises Home Assistant about being there.  It is shown  *)
(* as online only while a session takes commands for it, and after it has  *)
(* described all its components, though descriptions may get lost; when    *)
(* that session ends the strip is shown as offline in the same step, and   *)
(* never otherwise.                                                        *)
(***************************************************************************)
CONSTANT Component

VARIABLES
    shown,      \* "unknown", "online" or "offline"
    described,  \* the components Home Assistant knows
    lost,       \* the components whose last description got lost
    reachable,  \* there is a session that takes commands for the strip
    fresh       \* Home Assistant has not restarted since a session was opened

evars == <<shown, described, lost, reachable, fresh>>

EInit ==
    /\ shown = "unknown" /\ described = {} /\ lost = {}
    /\ reachable = FALSE /\ fresh = TRUE

Reach ==
    /\ reachable = FALSE /\ reachable' = TRUE
    /\ UNCHANGED <<shown, described, lost, fresh>>

Describe(c) ==
    /\ reachable
    /\ described' = described \cup {c}
    /\ lost' = lost \ {c}
    /\ UNCHANGED <<shown, reachable, fresh>>

Lose(c) ==
    /\ lost' = lost \cup {c}
    /\ UNCHANGED <<shown, described, reachable, fresh>>

Appear ==
    /\ reachable
    /\ fresh => described \cup lost = Component
    /\ shown' = "online"
    /\ UNCHANGED <<described, lost, reachable, fresh>>

(* The session ends, or another one is opened, not yet subscribed.         *)
Vanish ==
    /\ reachable' = FALSE
    /\ shown' = "offline" \/ (~reachable /\ shown' = shown)
    /\ fresh' \in {fresh, TRUE}
    /\ UNCHANGED <<described, lost>>

Forget ==
    /\ shown' = "unknown" /\ described' = {}
    /\ fresh' = FALSE
    /\ UNCHANGED <<lost, reachable>>

ENext == Reach \/ Appear \/ Vanish \/ Forget \/ \E c \in Component : Describe(c) \/ Lose(c)

PresenceSpec == EInit /\ [][ENext]_evars
=============================================================================

-------------------------------- MODULE Panel --------------------------------
(***************************************************************************)
(* What the strip promises whoever operates it.  Sockets are switched only *)
(* by a request for that very socket or by the key; a press gives every    *)
(* socket it can reach the opposite of what the previous press gave; a     *)
(* request is answered before the next one is taken.                       *)
(***************************************************************************)
CONSTANTS Socket, Off, On

VARIABLES
    outlet,   \* whether each socket is switched on
    mode,     \* what the last press asked for
    request   \* the request under way, a set of at most one <<socket, value>>

pvars == <<outlet, mode, request>>

PInit ==
    /\ outlet = [s \in Socket |-> Off]
    /\ mode = Off
    /\ request = {}

Ask(s, value) ==
    /\ request = {}
    /\ request' = {<<s, value>>}
    /\ UNCHANGED <<outlet, mode>>

Serve ==
    /\ \E req \in request : outlet' = [outlet EXCEPT ![req[1]] = req[2]]
    /\ request' = {}
    /\ UNCHANGED mode

Refuse ==
    /\ request # {}
    /\ request' = {}
    /\ UNCHANGED <<outlet, mode>>

Flip == IF mode = Off THEN On ELSE Off

Key(unreachable) ==
    /\ mode' = Flip
    /\ outlet' = [s \in Socket |-> IF s \in unreachable THEN outlet[s] ELSE Flip]
    /\ UNCHANGED request

Reset ==
    /\ outlet' = [s \in Socket |-> Off]
    /\ mode' = Off
    /\ request' = {}

PNext ==
    \/ \E s \in Socket, value \in {Off, On} : Ask(s, value)
    \/ Serve
    \/ Refuse
    \/ \E unreachable \in SUBSET Socket : Key(unreachable)
    \/ Reset

PanelSpec == PInit /\ [][PNext]_pvars

(* Every request is answered.                                              *)
PanelFairSpec == PanelSpec /\ WF_pvars(Serve \/ Refuse)
=============================================================================

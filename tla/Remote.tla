------------------------------- MODULE Remote -------------------------------
(***************************************************************************)
(* What the strip promises whoever operates it from afar.  Orders are      *)
(* taken one at a time, each once, in the order they were given, and one   *)
(* that is taken is carried out on the socket it names, or refused, before *)
(* the next; those not taken yet are lost together, when the connection    *)
(* ends.  Nothing else switches a socket but the key, which may come       *)
(* between any two of these steps.                                         *)
(***************************************************************************)
EXTENDS Sequences

CONSTANTS Socket, Off, On

VARIABLES
    outlet,   \* whether each socket is switched on
    mode,     \* what the last press asked for
    orders,   \* the orders under way
    current,  \* the order taken, a set of at most one
    legible   \* orders can be read; otherwise they may hit any socket

rvars == <<outlet, mode, orders, current, legible>>

Value == {Off, On}
Flip == IF mode = Off THEN On ELSE Off

RInit ==
    /\ outlet = [s \in Socket |-> Off]
    /\ mode = Off
    /\ orders = <<>>
    /\ current = {}
    /\ legible \in BOOLEAN

Order(s, value) ==
    /\ orders' = Append(orders, [id |-> s, state |-> value])
    /\ UNCHANGED <<outlet, mode, current, legible>>

(* The order given first is taken, for socket s.                           *)
Accept(s) ==
    /\ current = {}
    /\ orders # <<>>
    /\ legible => s = Head(orders).id
    /\ current' = {[id |-> s, state |-> Head(orders).state]}
    /\ orders' = Tail(orders)
    /\ UNCHANGED <<outlet, mode, legible>>

(* An order that cannot be read may also be taken for nothing.             *)
Misread ==
    /\ current = {}
    /\ orders # <<>>
    /\ legible = FALSE
    /\ orders' = Tail(orders)
    /\ UNCHANGED <<outlet, mode, current, legible>>

Switch ==
    /\ \E order \in current : outlet' = [outlet EXCEPT ![order.id] = order.state]
    /\ current' = {}
    /\ UNCHANGED <<mode, orders, legible>>

Refuse ==
    /\ current' = {}
    /\ UNCHANGED <<outlet, mode, orders, legible>>

Cut ==
    /\ current = {}
    /\ orders' = <<>>
    /\ UNCHANGED <<outlet, mode, current, legible>>

Key(unreachable) ==
    /\ mode' = Flip
    /\ outlet' = [s \in Socket |-> IF s \in unreachable THEN outlet[s] ELSE Flip]
    /\ UNCHANGED <<orders, current, legible>>

Reset ==
    /\ outlet' = [s \in Socket |-> Off]
    /\ mode' = Off
    /\ orders' = <<>>
    /\ current' = {}
    /\ legible' \in BOOLEAN

RNext ==
    \/ \E s \in Socket, value \in Value : Order(s, value)
    \/ \E s \in Socket : Accept(s)
    \/ \E unreachable \in SUBSET Socket : Key(unreachable)
    \/ Misread \/ Switch \/ Refuse \/ Cut \/ Reset

RemoteSpec == RInit /\ [][RNext]_rvars
=============================================================================

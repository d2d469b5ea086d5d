----------------------------- MODULE ConfigStore -----------------------------
(***************************************************************************)
(* What the configuration in flash promises.  It is kept as a whole or not *)
(* at all: a command gives up what was kept when it starts to write, and   *)
(* ends with all of its own configuration or with a store that promises    *)
(* nothing.  Power loss takes nothing that is kept.  A boot that nothing   *)
(* disturbs runs with what is kept.                                        *)
(***************************************************************************)
CONSTANTS Config, Image   \* what commands give; what a strip may run with

VARIABLES
    kept,      \* the configuration promised: at most one element
    writing,   \* the configuration being written: at most one element
    running,   \* what the strip runs with: at most one element
    up,        \* the boot is over
    clean      \* nothing disturbed the boot under way or the last one

svars == <<kept, writing, running, up, clean>>

AtMostOne(S) == {{}} \cup {{x} : x \in S}

SInit ==
    /\ kept \in AtMostOne(Config)
    /\ writing = {} /\ running = {}
    /\ up = FALSE /\ clean = TRUE

Disturb ==
    /\ clean' = FALSE
    /\ UNCHANGED <<kept, writing, running, up>>

(* A command that writes has disturbed the boot, if there was one.         *)
Write(c) ==
    /\ ~clean /\ writing = {}
    /\ writing' = {c}
    /\ kept' = {}
    /\ UNCHANGED <<running, up, clean>>

EndWrite ==
    /\ ~clean /\ writing # {}
    /\ writing' = {}
    /\ kept' \in {{}, writing}
    /\ UNCHANGED <<running, up, clean>>

BootEnds ==
    /\ up = FALSE /\ up' = TRUE
    /\ clean' \in {clean, FALSE}
    /\ running' \in AtMostOne(Image)
    /\ (clean' /\ kept # {}) => running' = kept
    /\ UNCHANGED <<kept, writing>>

PowerLoss ==
    /\ writing' = {} /\ running' = {}
    /\ up' = FALSE /\ clean' = TRUE
    /\ UNCHANGED kept

SNext == Disturb \/ EndWrite \/ BootEnds \/ PowerLoss \/ \E c \in Config : Write(c)

StoreSpec == SInit /\ [][SNext]_svars
=============================================================================

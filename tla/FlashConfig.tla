----------------------------- MODULE FlashConfig -----------------------------
(***************************************************************************)
(* The MQTT configuration of the strip (user_init.c): AT+HASSMQTT copies   *)
(* its arguments to the buffer hass_config and programs the buffer into    *)
(* the user flash cell by cell behind a flag; user_init reads it back when *)
(* the strip boots, starts with it, and frees the buffer.                  *)
(*                                                                         *)
(* The AT task and the boot run concurrently over the same buffer, power   *)
(* may be lost at any step, every flash call may fail, and after the free  *)
(* the heap may hand the buffer to someone else while the AT task goes on  *)
(* using it.  A cell stands for a field of hass_config_t; what matters of  *)
(* a value is which command it came from.                                  *)
(***************************************************************************)
EXTENDS Integers

CONSTANTS
    NCells,         \* fields of hass_config_t
    Config,         \* configurations a command may give
    ERASED,         \* the value of an erased cell
    GARBAGE,        \* bytes that belong to no configuration
    EarlyCommands   \* whether a command may come before user_init is over

ASSUME FlashAssumption ==
    /\ NCells \in Nat \ {0}
    /\ ERASED # GARBAGE
    /\ ERASED \notin Config
    /\ GARBAGE \notin Config
    /\ Config # {}
    /\ EarlyCommands \in BOOLEAN

Cell == 1 .. NCells
Value == Config \cup {ERASED, GARBAGE}

VARIABLES
    flag,    \* flash byte 0 holds 1
    flash,   \* the cells behind it
    ptr,     \* hass_config: "null", "live" (allocated) or "freed"
    buf,     \* what it points to
    boot,    \* next step of user_init
    bi,      \* loop counter of user_read_configure
    active,  \* the configuration the strip runs with, GARBAGE where unknown
    started, \* whether it runs with one
    at,      \* next step of user_hass_mqtt_cmd_cb
    ai,      \* its loop counter
    cmd      \* its arguments

flashVars == <<flag, flash>>
bootVars  == <<ptr, boot, bi, active, started>>
atVars    == <<at, ai, cmd>>
vars      == <<flag, flash, ptr, buf, boot, bi, active, started, at, ai, cmd>>

All(v) == [i \in Cell |-> v]

(* Both loops run from 1 to sizeof(hass_config_t).                         *)
FirstCellZero == 0
FirstCell == 1
LastCellShort == NCells - 1
LastCell == NCells

(* Programming clears bits: only an erased cell takes the value given.     *)
Program(old, new) == IF old = ERASED \/ old = new THEN new ELSE GARBAGE

(* What the AT task reads through the pointer.                             *)
Source(i) == IF ptr = "null" THEN GARBAGE ELSE buf[i]

PowerOn ==
    /\ ptr = "null"
    /\ buf = All(GARBAGE)
    /\ boot = "alloc"
    /\ bi = FirstCell
    /\ active = All(GARBAGE)
    /\ started = FALSE
    /\ at = "idle"
    /\ ai = FirstCell

(* A factory-new strip, or one that was configured before.                 *)
Init ==
    /\ PowerOn
    /\ cmd \in Config
    /\ \/ flag = FALSE /\ flash = All(ERASED)
       \/ flag = TRUE /\ flash = All(cmd)

-----------------------------------------------------------------------------
(* user_init, as far as the configuration goes                             *)

Alloc ==
    /\ boot = "alloc"
    /\ ptr' = "live"
    /\ buf' = All(GARBAGE)
    /\ boot' = "flag"
    /\ UNCHANGED <<flashVars, bi, active, started, atVars>>

(* user_read_configure: the flag.                                          *)
ReadFlag(ok) ==
    /\ boot = "flag"
    /\ boot' = IF ok /\ flag THEN "cells" ELSE "free"
    /\ bi' = FirstCell
    /\ UNCHANGED <<flashVars, ptr, buf, active, started, atVars>>

ReadCell ==
    /\ boot = "cells"
    /\ bi <= LastCell
    /\ buf' = [buf EXCEPT ![bi] = flash[bi]]
    /\ bi' = bi + 1
    /\ UNCHANGED <<flashVars, ptr, boot, active, started, atVars>>

(* A failed read ends the loop, and user_read_configure still says true.   *)
ReadEnds(ok) ==
    /\ boot = "cells"
    /\ (ok => bi > LastCell)
    /\ boot' = "start"
    /\ UNCHANGED <<flashVars, ptr, buf, bi, active, started, atVars>>

(* user_power_meter_init and user_mqtt_init copy what they need.           *)
Start ==
    /\ boot = "start"
    /\ active' = buf
    /\ started' = TRUE
    /\ boot' = "free"
    /\ UNCHANGED <<flashVars, ptr, buf, bi, atVars>>

Free ==
    /\ boot = "free"
    /\ ptr' = "freed"
    /\ boot' = "run"
    /\ UNCHANGED <<flashVars, buf, bi, active, started, atVars>>

(* The heap gives the freed block to someone who writes to it.             *)
Reuse(i) ==
    /\ ptr = "freed"
    /\ buf' = [buf EXCEPT ![i] = GARBAGE]
    /\ UNCHANGED <<flashVars, bootVars, atVars>>

-----------------------------------------------------------------------------
(* user_hass_mqtt_cmd_cb                                                   *)

(* Four to six arguments, copied to the buffer (the missing ones have      *)
(* defaults); other counts return at once.                                 *)
CmdStart(c) ==
    /\ at = "idle"
    /\ EarlyCommands \/ boot = "run"
    /\ cmd' = c
    /\ buf' = IF ptr = "null" THEN buf ELSE All(c)
    /\ at' = "erase"
    /\ UNCHANGED <<flashVars, bootVars, ai>>

EraseFlag(ok) ==
    /\ at = "erase"
    /\ IF ok THEN flag' = FALSE /\ flash' = flash ELSE UNCHANGED flashVars
    /\ at' = "flag"
    /\ UNCHANGED <<bootVars, buf, ai, cmd>>

(* hfuflash_erase_page; a failure is only logged.                          *)
Erase(ok) ==
    /\ at = "erase"
    /\ IF ok THEN flag' = FALSE /\ flash' = All(ERASED) ELSE UNCHANGED flashVars
    /\ at' = "flag"
    /\ UNCHANGED <<bootVars, buf, ai, cmd>>

(* The flag, before the configuration; a failure is only logged.           *)
WriteFlag(ok) ==
    /\ at = "flag"
    /\ flag' = (ok \/ flag)
    /\ at' = "cells"
    /\ ai' = FirstCell
    /\ UNCHANGED <<flash, bootVars, buf, cmd>>

(* One cell.  hfuflash_write returns the length written: a write that      *)
(* wrote nothing passes for a success.                                     *)
WriteCell(ok) ==
    /\ at = "cells"
    /\ ai <= LastCell
    /\ flash' = IF ok THEN [flash EXCEPT ![ai] = Program(flash[ai], Source(ai))]
                ELSE flash
    /\ ai' = ai + 1
    /\ UNCHANGED <<flag, bootVars, buf, at, cmd>>

(* A negative result ends the loop; the command returns 0 either way.      *)
CmdEnds(ok) ==
    /\ at = "cells"
    /\ (ok => ai > LastCell)
    /\ (~ok => ai <= LastCell)
    /\ at' = "idle"
    /\ UNCHANGED <<flashVars, bootVars, buf, ai, cmd>>

-----------------------------------------------------------------------------
(* Power is lost and comes back; the flash keeps what it has.              *)
Restart ==
    /\ ptr' = "null"
    /\ buf' = All(GARBAGE)
    /\ boot' = "alloc"
    /\ bi' = FirstCell
    /\ active' = All(GARBAGE)
    /\ started' = FALSE
    /\ at' = "idle"
    /\ ai' = FirstCell
    /\ UNCHANGED <<flashVars, cmd>>

UserInit ==
    \/ Alloc
    \/ \E ok \in BOOLEAN : ReadFlag(ok) \/ ReadEnds(ok)
    \/ ReadCell \/ Start \/ Free

AtCommand ==
    \/ \E c \in Config : CmdStart(c)
    \/ \E ok \in BOOLEAN : Erase(ok) \/ WriteFlag(ok) \/ WriteCell(ok) \/ CmdEnds(ok)

Next == UserInit \/ AtCommand \/ (\E i \in Cell : Reuse(i)) \/ Restart

Spec == Init /\ [][Next]_vars

TypeOK ==
    /\ flag \in BOOLEAN
    /\ flash \in [Cell -> Value]
    /\ ptr \in {"null", "live", "freed"}
    /\ buf \in [Cell -> Value]
    /\ boot \in {"alloc", "flag", "cells", "start", "free", "run"}
    /\ bi \in 1 .. NCells + 1
    /\ active \in [Cell -> Value]
    /\ started \in BOOLEAN
    /\ at \in {"idle", "erase", "flag", "cells"}
    /\ ai \in 1 .. NCells + 1
    /\ cmd \in Config
=============================================================================

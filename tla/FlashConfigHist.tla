--------------------------- MODULE FlashConfigHist ---------------------------
(***************************************************************************)
(* FlashConfig with history variables: which command the flash content is  *)
(* due to, and what interfered with it.                                    *)
(***************************************************************************)
EXTENDS FlashConfig

VARIABLES
    given,      \* arguments of the last command that reached the flash
    spoiled,    \* someone else wrote the buffer of the command under way
    tainted,    \* that, or a failed erase, may show in the flash content
    troubled,   \* a flash call of the command `given' failed
    sound,      \* that command ended, untainted and untroubled
    cleanBoot   \* no failure and no command since this boot began

history == <<given, spoiled, tainted, troubled, sound, cleanBoot>>
hvars == <<vars, history>>

HInit ==
    /\ Init
    /\ given = cmd
    /\ sound = flag
    /\ spoiled = FALSE /\ tainted = FALSE /\ troubled = FALSE
    /\ cleanBoot = TRUE

(* The buffer changes under the command that is copying it.                *)
BufferTaken ==
    /\ spoiled' = (spoiled \/ at # "idle")
    /\ tainted' = (tainted \/ at \in {"flag", "cells"})

HAlloc == /\ Alloc
          /\ BufferTaken
          /\ UNCHANGED <<given, troubled, sound, cleanBoot>>

HReadFlag(ok) == /\ ReadFlag(ok)
                 /\ cleanBoot' = (cleanBoot /\ ok)
                 /\ UNCHANGED <<given, spoiled, tainted, troubled, sound>>

HReadCell == /\ ReadCell
             /\ BufferTaken
             /\ UNCHANGED <<given, troubled, sound, cleanBoot>>

HReadEnds(ok) == /\ ReadEnds(ok)
                 /\ cleanBoot' = (cleanBoot /\ ok)
                 /\ UNCHANGED <<given, spoiled, tainted, troubled, sound>>

HQuiet == (Start \/ Free) /\ UNCHANGED history

HReuse(i) == /\ Reuse(i)
             /\ BufferTaken
             /\ UNCHANGED <<given, troubled, sound, cleanBoot>>

HCmdStart(c) == /\ CmdStart(c)
                /\ spoiled' = (ptr = "null")
                /\ cleanBoot' = FALSE
                /\ UNCHANGED <<given, tainted, troubled, sound>>

HErase(ok) == /\ Erase(ok)
              /\ given' = cmd
              /\ tainted' = (spoiled \/ ~ok)
              /\ troubled' = ~ok
              /\ sound' = FALSE
              /\ UNCHANGED <<spoiled, cleanBoot>>

HWriteFlag(ok) == /\ WriteFlag(ok)
                  /\ troubled' = (troubled \/ ~ok)
                  /\ UNCHANGED <<given, spoiled, tainted, sound, cleanBoot>>

HWriteCell(ok) == /\ WriteCell(ok)
                  /\ troubled' = (troubled \/ ~ok)
                  /\ UNCHANGED <<given, spoiled, tainted, sound, cleanBoot>>

HCmdEnds(ok) == /\ CmdEnds(ok)
                /\ sound' = (ok /\ ~troubled /\ ~tainted)
                /\ UNCHANGED <<given, spoiled, tainted, troubled, cleanBoot>>

(* A command that power loss cut short stays unsound.                      *)
HRestart == /\ Restart
            /\ cleanBoot' = TRUE
            /\ UNCHANGED <<given, spoiled, tainted, troubled, sound>>

HNext ==
    \/ HAlloc \/ HReadCell \/ HQuiet \/ HRestart
    \/ \E i \in Cell : HReuse(i)
    \/ \E c \in Config : HCmdStart(c)
    \/ \E ok \in BOOLEAN :
          \/ HReadFlag(ok) \/ HReadEnds(ok)
          \/ HErase(ok) \/ HWriteFlag(ok) \/ HWriteCell(ok) \/ HCmdEnds(ok)

HSpec == HInit /\ [][HNext]_hvars

-----------------------------------------------------------------------------
(* Properties                                                              *)

HTypeOK ==
    /\ TypeOK
    /\ given \in Config
    /\ spoiled \in BOOLEAN /\ tainted \in BOOLEAN /\ troubled \in BOOLEAN
    /\ sound \in BOOLEAN /\ cleanBoot \in BOOLEAN

(* Once a command has ended with no failed call and its buffer to itself,  *)
(* the flash holds the flag and the command's arguments, until the next    *)
(* command erases it: through restarts, boots and reuse of the heap        *)
(* (user_init.c:64-80).                                                    *)
SoundIsStored == sound => (flag /\ flash = All(given))

(* Power loss, failed writes and commands that follow each other leave     *)
(* holes, never fields of two commands side by side, as long as the page   *)
(* was erased and the buffer was the command's own (user_init.c:65, 75).   *)
NoMix == ~tainted => \A i \in Cell : flash[i] \in {given, ERASED}

(* A boot that no command and no failed read disturbs starts the strip     *)
(* with the configuration of the last sound command (user_init.c:91-122).  *)
RebootKeepsConfig ==
    (cleanBoot /\ sound /\ boot \in {"free", "run"}) =>
        (started /\ active = All(given))

(* The flash as a store: what it holds after a sound command is kept, the  *)
(* command between its erase and its end is writing.                       *)
Store == INSTANCE ConfigStore WITH
    Config <- {All(c) : c \in Config},
    Image <- [Cell -> Value],
    kept <- IF sound THEN {flash} ELSE {},
    writing <- IF at \in {"flag", "cells"} THEN {All(given)} ELSE {},
    running <- IF started THEN {active} ELSE {},
    up <- boot \in {"free", "run"},
    clean <- cleanBoot

(* user_init.c keeps a configuration as ConfigStore promises: cell by cell *)
(* programming, power loss and the boot's reads are one atomic exchange    *)
(* and one atomic start to whoever gave a sound command                    *)
(* (user_init.c:64-80, 91-128).                                            *)
ImplementsStore == Store!StoreSpec

-----------------------------------------------------------------------------
(* What the comments of the source say.                                    *)

(* user_init.c:68 and 90: the flag being 1 means there is a configuration. *)
(* So at a boot, with no failed read, what is behind the flag is one.      *)
FlagMeansConfigured ==
    (flag /\ boot = "alloc" /\ at = "idle") =>
        \E c \in Config : flash = All(c)

(* user_init.c:73: the command writes the configuration to the flash.  So  *)
(* when its loop is over and none of its calls failed, the flash holds     *)
(* what it was given.                                                      *)
GivenIsWritten ==
    (at = "cells" /\ ai > LastCell /\ ~troubled) => flash = All(given)

-----------------------------------------------------------------------------
(* Inductive strengthenings.                                               *)

(* The buffer is the command's until something taints it.                  *)
BufferInv ==
    /\ (at # "idle" /\ ~spoiled) => (ptr # "null" /\ buf = All(cmd))
    /\ (at \in {"flag", "cells"} /\ ~tainted) => ~spoiled
    /\ at \in {"flag", "cells"} => (given = cmd /\ ~sound)

(* What the erase and the loop have done so far.                           *)
ProgressInv ==
    /\ (at = "flag" /\ ~tainted) => flash = All(ERASED)
    /\ (at = "cells" /\ ~tainted) =>
          \A i \in Cell : i >= ai => flash[i] = ERASED
    /\ (at = "cells" /\ ~tainted /\ ~troubled) =>
          (flag /\ \A i \in Cell : i < ai => flash[i] = given)

StoreInv == BufferInv /\ ProgressInv /\ NoMix /\ SoundIsStored

(* What the boot has read so far, when nothing disturbs it.                *)
BootInv ==
    /\ ptr = "freed" => boot = "run"
    /\ cleanBoot =>
          /\ at = "idle"
          /\ boot = "cells" => (flag /\ \A i \in Cell : i < bi => buf[i] = flash[i])
          /\ boot = "start" => (flag /\ buf = flash)
    /\ RebootKeepsConfig
=============================================================================

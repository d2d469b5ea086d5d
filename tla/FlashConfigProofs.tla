-------------------------- MODULE FlashConfigProofs --------------------------
(***************************************************************************)
(* The invariants of FlashConfigHist for every number of cells, every set  *)
(* of configurations, and commands at any time.  Types come first; then    *)
(* what is in the flash (StoreInv), then what a boot makes of it (BootInv  *)
(* over StoreInv).                                                         *)
(***************************************************************************)
EXTENDS FlashConfigHist, TLAPS

USE DEF FirstCell, LastCell

-----------------------------------------------------------------------------
(* Helpers.                                                                *)

LEMMA CellFacts == /\ NCells \in Nat /\ NCells >= 1
                   /\ \A i \in Cell : i \in Int /\ 1 <= i /\ i <= NCells
                   /\ \A i \in Int : (1 <= i /\ i <= NCells) => i \in Cell
BY FlashAssumption DEF FlashAssumption, Cell

LEMMA AllType == \A v \in Value : All(v) \in [Cell -> Value]
BY DEF All

LEMMA AllValue == \A v : \A i \in Cell : All(v)[i] = v
BY DEF All

(* A cell function that is v everywhere is All(v).                         *)
LEMMA AllIntro == ASSUME NEW v, NEW f \in [Cell -> Value], \A i \in Cell : f[i] = v
                  PROVE  f = All(v)
BY DEF All

LEMMA ValueFacts == /\ Config \subseteq Value /\ ERASED \in Value /\ GARBAGE \in Value
                    /\ ERASED \notin Config /\ GARBAGE \notin Config /\ ERASED # GARBAGE
BY FlashAssumption DEF FlashAssumption, Value

(* Programming a fresh cell stores what it is given.                       *)
LEMMA ProgramFresh == \A v : Program(ERASED, v) = v
BY DEF Program

LEMMA ProgramType == \A v, w \in Value : Program(v, w) \in Value
BY ValueFacts DEF Program

-----------------------------------------------------------------------------
(* Type correctness.                                                       *)

LEMMA TypeInit == HInit => HTypeOK
<1> SUFFICES ASSUME HInit PROVE HTypeOK
    OBVIOUS
<1>1. buf \in [Cell -> Value] /\ active \in [Cell -> Value] /\ flash \in [Cell -> Value]
    BY AllType, ValueFacts DEF HInit, Init, PowerOn
<1>2. flag \in BOOLEAN /\ sound \in BOOLEAN /\ cmd \in Config
    BY DEF HInit, Init
<1>3. 1 \in 1 .. NCells + 1
    BY CellFacts
<1>4. TypeOK
    BY <1>1, <1>2, <1>3 DEF HInit, Init, PowerOn, TypeOK
<1> QED
    BY <1>2, <1>4 DEF HInit, HTypeOK

LEMMA TypeStep == HTypeOK /\ [HNext]_hvars => HTypeOK'
<1> SUFFICES ASSUME HTypeOK, [HNext]_hvars PROVE HTypeOK'
    OBVIOUS
<1> USE CellFacts DEF HTypeOK, TypeOK, flashVars, bootVars, atVars
<1>1. BufferTaken => (spoiled' \in BOOLEAN /\ tainted' \in BOOLEAN)
    BY DEF BufferTaken
<1>2. All(GARBAGE) \in [Cell -> Value] /\ All(ERASED) \in [Cell -> Value]
    BY AllType, ValueFacts
<1>3. CASE HAlloc
    BY <1>1, <1>2, <1>3 DEF HAlloc, Alloc
<1>4. CASE HReadCell
    <2>1. flash[bi] \in Value /\ buf' \in [Cell -> Value] /\ bi' \in 1 .. NCells + 1
        BY <1>4 DEF HReadCell, ReadCell
    <2> QED
        BY <1>1, <1>4, <2>1 DEF HReadCell, ReadCell
<1>5. CASE HQuiet
    <2>1. UNCHANGED <<flag, flash, buf, bi, at, ai, cmd, history>>
        BY <1>5 DEF HQuiet, Start, Free, history
    <2>2. /\ ptr' \in {"null", "live", "freed"} /\ boot' \in {"free", "run"}
          /\ active' \in [Cell -> Value] /\ started' \in BOOLEAN
        BY <1>5 DEF HQuiet, Start, Free
    <2> QED
        BY <2>1, <2>2 DEF history
<1>6. CASE HRestart
    <2>1. buf' \in [Cell -> Value] /\ active' \in [Cell -> Value]
        BY <1>2, <1>6, Zenon DEF HRestart, Restart
    <2>2. bi' \in 1 .. NCells + 1 /\ ai' \in 1 .. NCells + 1
        BY <1>6 DEF HRestart, Restart
    <2>3. UNCHANGED <<flag, flash, cmd, given, spoiled, tainted, troubled, sound>>
        BY <1>6, Zenon DEF HRestart, Restart
    <2>4. /\ ptr' = "null" /\ boot' = "alloc" /\ at' = "idle"
          /\ started' = FALSE /\ cleanBoot' = TRUE
        BY <1>6, Zenon DEF HRestart, Restart
    <2> QED
        BY <2>1, <2>2, <2>3, <2>4
<1>7. ASSUME NEW i \in Cell, HReuse(i) PROVE HTypeOK'
    <2>1. buf' \in [Cell -> Value]
        BY <1>7, ValueFacts DEF HReuse, Reuse
    <2> QED
        BY <1>1, <1>7, <2>1 DEF HReuse, Reuse
<1>8. ASSUME NEW c \in Config, HCmdStart(c) PROVE HTypeOK'
    <2>1. buf' \in [Cell -> Value]
        BY <1>8, AllType, ValueFacts DEF HCmdStart, CmdStart
    <2> QED
        BY <1>8, <2>1 DEF HCmdStart, CmdStart
<1>9. ASSUME NEW ok \in BOOLEAN, HReadFlag(ok) \/ HReadEnds(ok) PROVE HTypeOK'
    BY <1>9 DEF HReadFlag, ReadFlag, HReadEnds, ReadEnds
<1>10. ASSUME NEW ok \in BOOLEAN, HErase(ok) PROVE HTypeOK'
    BY <1>2, <1>10 DEF HErase, Erase
<1>11. ASSUME NEW ok \in BOOLEAN, HWriteFlag(ok) \/ HCmdEnds(ok) PROVE HTypeOK'
    <2>1. flag' \in BOOLEAN /\ troubled' \in BOOLEAN /\ sound' \in BOOLEAN
        BY <1>11 DEF HWriteFlag, WriteFlag, HCmdEnds, CmdEnds
    <2>2. ai' \in 1 .. NCells + 1
        BY <1>11 DEF HWriteFlag, WriteFlag, HCmdEnds, CmdEnds
    <2> QED
        BY <1>11, <2>1, <2>2 DEF HWriteFlag, WriteFlag, HCmdEnds, CmdEnds
<1>12. ASSUME NEW ok \in BOOLEAN, HWriteCell(ok) PROVE HTypeOK'
    <2>1. ai \in Cell /\ ai' \in 1 .. NCells + 1
        BY <1>12 DEF HWriteCell, WriteCell
    <2>2. Program(flash[ai], Source(ai)) \in Value
        BY <2>1, ProgramType, ValueFacts DEF Source
    <2>3. flash' \in [Cell -> Value]
        BY <1>12, <2>2 DEF HWriteCell, WriteCell
    <2> QED
        BY <1>12, <2>1, <2>3 DEF HWriteCell, WriteCell
<1>13. CASE UNCHANGED hvars
    BY <1>13 DEF hvars, vars, history
<1> HIDE CellFacts DEF HTypeOK, TypeOK, flashVars, bootVars, atVars
<1> QED
    BY <1>3, <1>4, <1>5, <1>6, <1>7, <1>8, <1>9, <1>10, <1>11, <1>12, <1>13 DEF HNext

(* Both loops stay within the buffer and the page, and no step leaves the  *)
(* state space of the model.                                               *)
THEOREM FlashTypeCorrect == HSpec => []HTypeOK
BY TypeInit, TypeStep, PTL DEF HSpec

-----------------------------------------------------------------------------
(* What is in the flash.                                                   *)

LEMMA StoreInit == HInit => StoreInv
BY AllValue DEF HInit, Init, PowerOn, StoreInv, BufferInv, ProgressInv, NoMix, SoundIsStored

(* Steps that neither write the flash nor move the command.                *)
LEMMA StoreAside ==
    ASSUME StoreInv, flag' = flag, flash' = flash, at' = at, ai' = ai, cmd' = cmd,
           given' = given, sound' = sound, troubled' = troubled,
           \/ ptr' = ptr /\ buf' = buf /\ spoiled' = spoiled /\ tainted' = tainted
           \/ BufferTaken
           \/ ptr' = "freed" /\ buf' = buf /\ spoiled' = spoiled /\ tainted' = tainted
    PROVE  StoreInv'
<1> USE DEF StoreInv, BufferInv
<1>1. BufferInv'
    <2>1. CASE BufferTaken
        <3>1. (at # "idle" => spoiled') /\ (at \in {"flag", "cells"} => tainted')
            BY <2>1 DEF BufferTaken
        <3> QED
            BY <3>1
    <2>2. CASE ~BufferTaken
        BY <2>2
    <2> QED
        BY <2>1, <2>2
<1>2. ~tainted' => ~tainted
    BY DEF BufferTaken
<1>3. ProgressInv' /\ NoMix' /\ SoundIsStored'
    BY <1>2 DEF ProgressInv, NoMix, SoundIsStored
<1> QED
    BY <1>1, <1>3

LEMMA StoreStep == HTypeOK /\ StoreInv /\ [HNext]_hvars => StoreInv'
<1> SUFFICES ASSUME HTypeOK, StoreInv, [HNext]_hvars PROVE StoreInv'
    OBVIOUS
<1> USE DEF flashVars, bootVars, atVars
<1>1. CASE HAlloc
    BY <1>1, StoreAside DEF HAlloc, Alloc
<1>2. CASE HReadCell
    BY <1>2, StoreAside DEF HReadCell, ReadCell
<1>3. CASE HQuiet
    BY <1>3, StoreAside DEF HQuiet, Start, Free, history
<1>4. ASSUME NEW i \in Cell, HReuse(i) PROVE StoreInv'
    BY <1>4, StoreAside DEF HReuse, Reuse
<1>5. ASSUME NEW ok \in BOOLEAN, HReadFlag(ok) \/ HReadEnds(ok) PROVE StoreInv'
    BY <1>5, StoreAside DEF HReadFlag, ReadFlag, HReadEnds, ReadEnds
<1>6. CASE UNCHANGED hvars
    BY <1>6, StoreAside DEF hvars, vars, history
<1> USE DEF StoreInv, BufferInv, ProgressInv, NoMix, SoundIsStored
<1>7. CASE HRestart
    BY <1>7 DEF HRestart, Restart
<1>8. ASSUME NEW c \in Config, HCmdStart(c) PROVE StoreInv'
    BY <1>8 DEF HCmdStart, CmdStart
<1>9. ASSUME NEW ok \in BOOLEAN, HErase(ok) PROVE StoreInv'
    <2>1. BufferInv'
        BY <1>9 DEF HErase, Erase
    <2>2. ~tainted' => flash' = All(ERASED)
        BY <1>9 DEF HErase, Erase
    <2>3. at' = "flag" /\ ~sound'
        BY <1>9 DEF HErase, Erase
    <2> QED
        BY <2>1, <2>2, <2>3, AllValue
<1>10. ASSUME NEW ok \in BOOLEAN, HWriteFlag(ok) PROVE StoreInv'
    <2>1. BufferInv'
        BY <1>10 DEF HWriteFlag, WriteFlag
    <2>2. at = "flag" /\ at' = "cells" /\ ai' = 1 /\ flash' = flash /\ tainted' = tainted
          /\ ~sound' /\ given' = given
        BY <1>10 DEF HWriteFlag, WriteFlag
    <2>3. ~tainted' => \A i \in Cell : flash'[i] = ERASED
        BY <2>2, AllValue
    <2>4. ~troubled' => flag'
        BY <1>10 DEF HWriteFlag, WriteFlag
    <2>5. \A i \in Cell : ~(i < ai')
        BY <2>2, CellFacts
    <2> QED
        BY <2>1, <2>2, <2>3, <2>4, <2>5
<1>11. ASSUME NEW ok \in BOOLEAN, HWriteCell(ok) PROVE StoreInv'
    <2>1. BufferInv'
        BY <1>11 DEF HWriteCell, WriteCell
    <2>2. at = "cells" /\ at' = "cells" /\ ai \in Cell /\ ai' = ai + 1 /\ tainted' = tainted
          /\ ~sound' /\ given' = given /\ flag' = flag
        BY <1>11, CellFacts DEF HWriteCell, WriteCell, HTypeOK, TypeOK
    <2>3. ~tainted => Source(ai) = given
        BY <2>2, AllValue DEF Source
    <2>4. ASSUME ~tainted PROVE flash'[ai] = IF ok THEN given ELSE ERASED
        <3>1. flash[ai] = ERASED
            BY <2>2, <2>4, CellFacts
        <3> QED
            BY <1>11, <2>2, <2>3, <2>4, <3>1, ProgramFresh
            DEF HWriteCell, WriteCell, HTypeOK, TypeOK
    <2>5. \A i \in Cell : i # ai => flash'[i] = flash[i]
        BY <1>11 DEF HWriteCell, WriteCell, HTypeOK, TypeOK
    <2>6. NoMix'
        BY <2>2, <2>4, <2>5
    <2>7. ASSUME ~tainted, NEW i \in Cell, i >= ai + 1 PROVE flash'[i] = ERASED
        BY <2>2, <2>5, <2>7, CellFacts
    <2>8. ASSUME ~tainted, ~troubled', NEW i \in Cell, i < ai + 1 PROVE flash'[i] = given
        <3>1. ok /\ ~troubled
            BY <1>11, <2>8 DEF HWriteCell
        <3>2. CASE i = ai
            BY <2>4, <2>8, <3>1, <3>2
        <3>3. CASE i # ai
            <4>1. i < ai
                BY <2>2, <2>8, <3>3, CellFacts
            <4> QED
                BY <2>2, <2>5, <2>8, <3>1, <3>3, <4>1
        <3> QED
            BY <3>2, <3>3
    <2>9. ~troubled' => ~troubled
        BY <1>11 DEF HWriteCell
    <2> QED
        BY <2>1, <2>2, <2>6, <2>7, <2>8, <2>9
<1>12. ASSUME NEW ok \in BOOLEAN, HCmdEnds(ok) PROVE StoreInv'
    <2>1. at' = "idle" /\ flash' = flash /\ flag' = flag /\ given' = given /\ tainted' = tainted
          /\ at = "cells"
        BY <1>12 DEF HCmdEnds, CmdEnds
    <2>2. ASSUME sound' PROVE flag /\ flash = All(given)
        <3>1. ok /\ ~troubled /\ ~tainted /\ ai > NCells
            BY <1>12, <2>2 DEF HCmdEnds, CmdEnds
        <3>2. ASSUME NEW i \in Cell PROVE flash[i] = given
            <4>1. i < ai
                BY <3>1, CellFacts DEF HTypeOK, TypeOK
            <4> QED
                BY <2>1, <3>1, <4>1
        <3>3. flag
            BY <2>1, <3>1
        <3> QED
            BY <3>2, <3>3, AllIntro DEF HTypeOK, TypeOK
    <2> QED
        BY <2>1, <2>2
<1> HIDE DEF StoreInv, BufferInv, ProgressInv, NoMix, SoundIsStored, flashVars, bootVars, atVars
<1> QED
    BY <1>1, <1>2, <1>3, <1>4, <1>5, <1>6, <1>7, <1>8, <1>9, <1>10, <1>11, <1>12 DEF HNext

(* A sound command's configuration stays in the flash, with its flag.      *)
THEOREM SoundStays == HSpec => []SoundIsStored
<1>1. StoreInv => SoundIsStored
    BY DEF StoreInv
<1> QED
    BY <1>1, FlashTypeCorrect, StoreInit, StoreStep, PTL DEF HSpec

(* The fields of two commands never stand side by side in the flash.       *)
THEOREM NeverMixed == HSpec => []NoMix
<1>1. StoreInv => NoMix
    BY DEF StoreInv
<1> QED
    BY <1>1, FlashTypeCorrect, StoreInit, StoreStep, PTL DEF HSpec

-----------------------------------------------------------------------------
(* What a boot makes of it.                                                *)

LEMMA BootInit == HInit => BootInv
BY DEF HInit, Init, PowerOn, BootInv, RebootKeepsConfig

LEMMA BootStep == HTypeOK /\ StoreInv /\ BootInv /\ [HNext]_hvars => BootInv'
<1> SUFFICES ASSUME HTypeOK, StoreInv, BootInv, [HNext]_hvars PROVE BootInv'
    OBVIOUS
<1> USE DEF BootInv, RebootKeepsConfig, flashVars, bootVars, atVars
<1>1. CASE HAlloc
    BY <1>1 DEF HAlloc, Alloc
<1>2. CASE HReadCell
    <2>1. boot = "cells" /\ boot' = "cells" /\ ptr' = ptr /\ flash' = flash /\ flag' = flag
          /\ bi \in Cell /\ bi' = bi + 1 /\ at' = at /\ cleanBoot' = cleanBoot
        BY <1>2, CellFacts DEF HReadCell, ReadCell, HTypeOK, TypeOK
    <2>2. ASSUME cleanBoot, NEW i \in Cell, i < bi + 1 PROVE buf'[i] = flash[i]
        <3>1. CASE i = bi
            BY <1>2, <3>1 DEF HReadCell, ReadCell, HTypeOK, TypeOK
        <3>2. CASE i # bi
            <4>1. i < bi
                BY <2>1, <2>2, <3>2, CellFacts
            <4>2. buf'[i] = buf[i]
                BY <1>2, <3>2 DEF HReadCell, ReadCell, HTypeOK, TypeOK
            <4> QED
                BY <2>1, <2>2, <4>1, <4>2
        <3> QED
            BY <3>1, <3>2
    <2> QED
        BY <2>1, <2>2
<1>3. CASE HQuiet
    <2>1. CASE Start
        <3>1. boot = "start" /\ boot' = "free" /\ started' /\ active' = buf /\ ptr' = ptr
              /\ cleanBoot' = cleanBoot /\ sound' = sound /\ given' = given /\ at' = at
            BY <1>3, <2>1 DEF HQuiet, Start, history
        <3>2. (cleanBoot /\ sound) => buf = All(given)
            BY <3>1 DEF StoreInv, SoundIsStored
        <3> QED
            BY <3>1, <3>2
    <2>2. CASE Free
        BY <1>3, <2>2 DEF HQuiet, Free, history
    <2> QED
        BY <1>3, <2>1, <2>2 DEF HQuiet
<1>4. CASE HRestart
    BY <1>4 DEF HRestart, Restart
<1>5. ASSUME NEW i \in Cell, HReuse(i) PROVE BootInv'
    BY <1>5 DEF HReuse, Reuse
<1>6. ASSUME NEW c \in Config, HCmdStart(c) PROVE BootInv'
    BY <1>6 DEF HCmdStart, CmdStart
<1>7. ASSUME NEW ok \in BOOLEAN, HReadFlag(ok) PROVE BootInv'
    <2>1. boot = "flag" /\ bi' = 1 /\ ptr' = ptr /\ at' = at /\ flag' = flag /\ sound' = sound
          /\ given' = given /\ cleanBoot' = (cleanBoot /\ ok)
          /\ boot' = IF ok /\ flag THEN "cells" ELSE "free"
        BY <1>7 DEF HReadFlag, ReadFlag
    <2>2. sound => flag
        BY DEF StoreInv, SoundIsStored
    <2>3. \A i \in Cell : ~(i < bi')
        BY <2>1, CellFacts
    <2> QED
        BY <2>1, <2>2, <2>3
<1>8. ASSUME NEW ok \in BOOLEAN, HReadEnds(ok) PROVE BootInv'
    <2>1. boot = "cells" /\ boot' = "start" /\ ptr' = ptr /\ at' = at /\ flag' = flag
          /\ flash' = flash /\ buf' = buf /\ cleanBoot' = (cleanBoot /\ ok) /\ (ok => bi > NCells)
        BY <1>8 DEF HReadEnds, ReadEnds
    <2>2. ASSUME cleanBoot, ok PROVE buf = flash
        <3>1. ASSUME NEW i \in Cell PROVE buf[i] = flash[i]
            <4>1. i < bi
                BY <2>1, <2>2, CellFacts DEF HTypeOK, TypeOK
            <4> QED
                BY <2>1, <2>2, <4>1
        <3> QED
            BY <3>1 DEF HTypeOK, TypeOK
    <2> QED
        BY <2>1, <2>2
<1>9. ASSUME at # "idle", UNCHANGED <<ptr, boot, cleanBoot>>
      PROVE  BootInv'
    BY <1>9
<1>10. ASSUME NEW ok \in BOOLEAN, HErase(ok) \/ HWriteFlag(ok) \/ HWriteCell(ok) \/ HCmdEnds(ok)
       PROVE  BootInv'
    BY <1>9, <1>10 DEF HErase, Erase, HWriteFlag, WriteFlag, HWriteCell, WriteCell, HCmdEnds, CmdEnds
<1>11. CASE UNCHANGED hvars
    BY <1>11 DEF hvars, vars, history
<1> HIDE DEF BootInv, RebootKeepsConfig, flashVars, bootVars, atVars
<1> QED
    BY <1>1, <1>2, <1>3, <1>4, <1>5, <1>6, <1>7, <1>8, <1>10, <1>11 DEF HNext

(* An undisturbed boot starts with the last sound command's configuration. *)
THEOREM RebootKeeps == HSpec => []RebootKeepsConfig
<1>1. BootInv => RebootKeepsConfig
    BY DEF BootInv
<1> QED
    BY <1>1, FlashTypeCorrect, StoreInit, StoreStep, BootInit, BootStep, PTL DEF HSpec

-----------------------------------------------------------------------------
(* The refinement of ConfigStore.                                          *)

LEMMA StoreMapInit == HTypeOK /\ HInit => Store!SInit
<1> SUFFICES ASSUME HTypeOK, HInit PROVE Store!SInit
    OBVIOUS
<1>1. at = "idle" /\ boot = "alloc" /\ started = FALSE /\ cleanBoot = TRUE
    BY DEF HInit, Init, PowerOn
<1>2. sound => flash = All(given)
    BY StoreInit, Zenon DEF StoreInv, SoundIsStored
<1>3. given \in Config
    BY DEF HTypeOK
<1> QED
    BY <1>1, <1>2, <1>3 DEF Store!SInit, Store!AtMostOne

(* The steps of the command: its erase begins a write, its last step ends  *)
(* it with the whole configuration or with nothing.                        *)
LEMMA CommandMaps ==
    ASSUME HTypeOK, StoreInv, BootInv, HTypeOK', StoreInv', NEW ok \in BOOLEAN,
           HErase(ok) \/ HWriteFlag(ok) \/ HWriteCell(ok) \/ HCmdEnds(ok)
    PROVE  [Store!SNext]_(Store!svars)
<1>1. UNCHANGED <<boot, active, started, cleanBoot>>
    BY DEF HErase, Erase, HWriteFlag, WriteFlag, HWriteCell, WriteCell, HCmdEnds, CmdEnds,
           bootVars, flashVars
<1>2. CASE HErase(ok)
    <2>1. at = "erase" /\ at' = "flag" /\ sound' = FALSE /\ given' = cmd /\ cmd \in Config
        BY <1>2 DEF HErase, Erase, HTypeOK, TypeOK
    <2>2. Store!Write(All(cmd))
        BY <1>1, <2>1 DEF Store!Write, All, BootInv
    <2>3. All(cmd) \in {All(c) : c \in Config}
        BY <2>1
    <2> QED
        BY <2>2, <2>3 DEF Store!SNext
<1>3. CASE HWriteFlag(ok) \/ HWriteCell(ok)
    <2>1. /\ at \in {"flag", "cells"} /\ at' \in {"flag", "cells"}
          /\ sound' = sound /\ given' = given
        BY <1>3 DEF HWriteFlag, WriteFlag, HWriteCell, WriteCell
    <2>2. ~sound
        BY <2>1 DEF StoreInv, BufferInv
    <2> QED
        BY <1>1, <2>1, <2>2 DEF Store!svars, All
<1>4. CASE HCmdEnds(ok)
    <2>1. at = "cells" /\ at' = "idle" /\ given' = given /\ flash' = flash
        BY <1>4 DEF HCmdEnds, CmdEnds, flashVars
    <2>2. sound' => flash = All(given)
        BY <2>1 DEF StoreInv, SoundIsStored, All
    <2> QED
        BY <1>1, <2>1, <2>2 DEF Store!SNext, Store!EndWrite, BootInv
<1> QED
    BY <1>2, <1>3, <1>4

(* The steps of the boot: all stutter but a failed read and the step that  *)
(* starts the strip or finds no configuration.                             *)
LEMMA BootMaps ==
    ASSUME HTypeOK, StoreInv, BootInv, HTypeOK', StoreInv', BootInv',
           \/ HAlloc \/ HReadCell \/ HQuiet
           \/ \E ok \in BOOLEAN : HReadFlag(ok) \/ HReadEnds(ok)
    PROVE  [Store!SNext]_(Store!svars)
<1>1. UNCHANGED <<at, sound, given, flash>>
    BY DEF HAlloc, Alloc, HReadCell, ReadCell, HQuiet, Start, Free, HReadFlag, ReadFlag,
           HReadEnds, ReadEnds, flashVars, atVars, history
<1>2. CASE HAlloc \/ HReadCell \/ (HQuiet /\ Free)
    BY <1>1, <1>2 DEF HAlloc, Alloc, HReadCell, ReadCell, HQuiet, Free, history,
       bootVars, Store!svars, All
<1>3. ASSUME boot \notin {"free", "run"}, boot' = "free",
             cleanBoot' \in {cleanBoot, FALSE}, active' \in [Cell -> Value],
             started' \in BOOLEAN
      PROVE  Store!BootEnds
    <2>1. (cleanBoot' /\ sound) => (started' /\ active' = All(given))
        BY <1>1, <1>3 DEF BootInv, RebootKeepsConfig, All
    <2>2. sound => flash = All(given)
        BY DEF StoreInv, SoundIsStored
    <2>3. (IF started' THEN {active'} ELSE {}) \in Store!AtMostOne([Cell -> Value])
        BY <1>3 DEF Store!AtMostOne
    <2>4. (cleanBoot' /\ (IF sound THEN {flash} ELSE {}) # {}) =>
              (IF started' THEN {active'} ELSE {}) = (IF sound THEN {flash} ELSE {})
        BY <1>1, <2>1, <2>2 DEF All
    <2>5. (boot \in {"free", "run"}) = FALSE /\ (boot' \in {"free", "run"}) = TRUE
        BY <1>3
    <2>6. UNCHANGED <<IF sound THEN {flash} ELSE {},
                      IF at \in {"flag", "cells"} THEN {All(given)} ELSE {}>>
        BY <1>1 DEF All
    <2> QED
        BY <1>3, <2>3, <2>4, <2>5, <2>6, Zenon DEF Store!BootEnds
<1>4. active' \in [Cell -> Value] /\ started' \in BOOLEAN
    BY DEF HTypeOK, TypeOK
<1>5. CASE HQuiet /\ Start
    <2>1. boot = "start" /\ boot' = "free" /\ cleanBoot' = cleanBoot
        BY <1>5 DEF Start, HQuiet, history
    <2> QED
        BY <1>3, <1>4, <2>1 DEF Store!SNext
<1>6. ASSUME NEW ok \in BOOLEAN, HReadFlag(ok) \/ HReadEnds(ok)
      PROVE  [Store!SNext]_(Store!svars)
    <2>1. cleanBoot' = (cleanBoot /\ ok) /\ UNCHANGED <<active, started>>
          /\ boot \in {"flag", "cells"} /\ boot' \in {"cells", "start", "free"}
        BY <1>6 DEF HReadFlag, ReadFlag, HReadEnds, ReadEnds
    <2>2. cleanBoot' \in {cleanBoot, FALSE}
        BY <2>1 DEF HTypeOK
    <2>3. CASE boot' = "free"
        BY <1>3, <1>4, <2>1, <2>2, <2>3 DEF Store!SNext
    <2>4. CASE boot' # "free" /\ cleanBoot' = cleanBoot
        BY <1>1, <2>1, <2>4 DEF Store!svars, All
    <2>5. CASE boot' # "free" /\ cleanBoot' = FALSE
        BY <1>1, <2>1, <2>5 DEF Store!SNext, Store!Disturb, All
    <2> QED
        BY <2>2, <2>3, <2>4, <2>5
<1> QED
    BY <1>2, <1>5, <1>6 DEF HQuiet

LEMMA StoreMapStep ==
    HTypeOK /\ StoreInv /\ BootInv /\ HTypeOK' /\ StoreInv' /\ BootInv' /\ [HNext]_hvars
        => [Store!SNext]_(Store!svars)
<1> SUFFICES ASSUME HTypeOK, StoreInv, BootInv, HTypeOK', StoreInv', BootInv', [HNext]_hvars
             PROVE  [Store!SNext]_(Store!svars)
    OBVIOUS
<1>1. CASE HRestart
    <2>1. /\ UNCHANGED <<sound, flash>> /\ at' = "idle" /\ started' = FALSE
          /\ boot' = "alloc" /\ cleanBoot' = TRUE
        BY <1>1 DEF HRestart, Restart, flashVars
    <2> QED
        BY <2>1 DEF Store!SNext, Store!PowerLoss
<1>2. ASSUME NEW c \in Config, HCmdStart(c) PROVE [Store!SNext]_(Store!svars)
    <2>1. /\ UNCHANGED <<sound, given, flash, started, active, boot>> /\ cleanBoot' = FALSE
          /\ at = "idle" /\ at' = "erase"
        BY <1>2 DEF HCmdStart, CmdStart, flashVars, bootVars
    <2> QED
        BY <2>1 DEF Store!SNext, Store!Disturb
<1>3. ASSUME NEW i \in Cell, HReuse(i) PROVE [Store!SNext]_(Store!svars)
    BY <1>3 DEF HReuse, Reuse, flashVars, bootVars, atVars, Store!svars, All
<1>4. CASE UNCHANGED hvars
    BY <1>4 DEF hvars, vars, history, Store!svars, All
<1> QED
    BY <1>1, <1>2, <1>3, <1>4, BootMaps, CommandMaps DEF HNext

(* The flash is a store that exchanges whole configurations: power loss,   *)
(* failures and a boot at any step show only as ConfigStore allows.        *)
THEOREM StoreRefinement == HSpec => ImplementsStore
<1> QED
    BY FlashTypeCorrect, TypeInit, StoreInit, StoreStep, BootInit, BootStep,
       StoreMapInit, StoreMapStep, PTL DEF HSpec, ImplementsStore, Store!StoreSpec

-----------------------------------------------------------------------------
(* What is true of the two things the comments of the source take for      *)
(* granted.                                                                *)

(* A command whose calls all succeed has written what it was given unless  *)
(* someone else used its buffer or the erase failed: nothing else makes    *)
(* GivenIsWritten false (user_init.c:64-80).                               *)
THEOREM WrittenUnlessTainted == HSpec => [](~tainted => GivenIsWritten)
<1>1. HTypeOK /\ StoreInv => (~tainted => GivenIsWritten)
    <2> SUFFICES ASSUME HTypeOK, StoreInv, ~tainted,
                        at = "cells", ai > LastCell, ~troubled
                 PROVE  flash = All(given)
        BY DEF GivenIsWritten
    <2>1. ASSUME NEW i \in Cell PROVE flash[i] = given
        <3>1. i < ai
            BY CellFacts DEF HTypeOK, TypeOK
        <3> QED
            BY <3>1 DEF StoreInv, ProgressInv
    <2> QED
        BY <2>1, AllIntro DEF HTypeOK, TypeOK
<1> QED
    BY <1>1, FlashTypeCorrect, StoreInit, StoreStep, PTL DEF HSpec

(* But that someone else may is the rule: if commands come only once the   *)
(* strip has started, each of them copies its arguments to, and programs   *)
(* the flash from, a buffer that user_init has freed (user_init.c:49, 128).*)
THEOREM CommandsUseFreed ==
    ASSUME ~EarlyCommands
    PROVE  HSpec => [](at # "idle" => ptr = "freed")
<1> DEFINE FreedInv == /\ boot = "run" => ptr = "freed"
                       /\ ptr = "freed" => boot = "run"
                       /\ at # "idle" => boot = "run"
<1>1. HInit => FreedInv
    BY DEF HInit, Init, PowerOn
<1>2. FreedInv /\ [HNext]_hvars => FreedInv'
    <2> SUFFICES ASSUME FreedInv, [HNext]_hvars PROVE FreedInv'
        OBVIOUS
    <2> USE DEF flashVars, bootVars, atVars
    <2>1. CASE HAlloc \/ HReadCell \/ HQuiet \/ HRestart
        BY <2>1 DEF HAlloc, Alloc, HReadCell, ReadCell, HQuiet, Start, Free, HRestart, Restart
    <2>2. ASSUME NEW i \in Cell, HReuse(i) PROVE FreedInv'
        BY <2>2 DEF HReuse, Reuse
    <2>3. ASSUME NEW c \in Config, HCmdStart(c) PROVE FreedInv'
        BY <2>3 DEF HCmdStart, CmdStart
    <2>4. ASSUME NEW ok \in BOOLEAN, HReadFlag(ok) \/ HReadEnds(ok) PROVE FreedInv'
        BY <2>4 DEF HReadFlag, ReadFlag, HReadEnds, ReadEnds
    <2>5. ASSUME NEW ok \in BOOLEAN,
                 HErase(ok) \/ HWriteFlag(ok) \/ HWriteCell(ok) \/ HCmdEnds(ok)
          PROVE  FreedInv'
        BY <2>5 DEF HErase, Erase, HWriteFlag, WriteFlag, HWriteCell, WriteCell,
                    HCmdEnds, CmdEnds
    <2>6. CASE UNCHANGED hvars
        BY <2>6 DEF hvars, vars
    <2> QED
        BY <2>1, <2>2, <2>3, <2>4, <2>5, <2>6 DEF HNext
<1> QED
    BY <1>1, <1>2, PTL DEF HSpec
=============================================================================

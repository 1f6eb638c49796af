------------------------------ MODULE DayNight ------------------------------
(***************************************************************************)
(* The clock of a world and the brightness of its sky, with every way the  *)
(* two are set: the second that passes, the bed, the keys F4 and F5, and   *)
(* the screens that create, open, edit, save and leave a world             *)
(* (src/src/eninge.c).                                                     *)
(*                                                                         *)
(* The brightness is not computed from the time of day: it is counted up   *)
(* and down, one step each StepLength seconds of dawn and of dusk, and the *)
(* two share one counter of seconds.                                       *)
(***************************************************************************)
EXTENDS Integers

CONSTANTS
    DayLength,   \* 1200: dayTime runs from 0 to DayLength
    DawnFrom,    \* 1140: the sky brightens when DawnFrom < dayTime < DayLength
    DawnTo,      \* 80:   and when 0 < dayTime < DawnTo
    DuskFrom,    \* 520:  it darkens when DuskFrom < dayTime < DuskTo
    DuskTo,      \* 660
    StepLength,  \* 10 seconds of dawn or dusk make one step
    Full,        \* 16, the length of skyColors
    Half,        \* 8, the brightness at dayTime = DayLength
    World,       \* the save slots
    MaxDays,     \* bound: a sky is followed for MaxDays days after it was set
    Margin       \* bound: how far beyond skyColors it is followed

ASSUME ClockAssumption ==
    /\ {DayLength, DawnFrom, DawnTo, DuskFrom, DuskTo} \subseteq Nat
    /\ 0 < DawnTo /\ DawnTo <= DuskFrom /\ DuskFrom < DuskTo
    /\ DuskTo <= DawnFrom /\ DawnFrom < DayLength
    /\ StepLength \in Nat \ {0}
    /\ Full \in Nat /\ Half \in 1..Full
    /\ MaxDays \in Nat /\ Margin \in Nat

VARIABLES
    UIState,        \* "worlds", "create", "edit" (create or edit world data), "game"
    selected,       \* currentSelectedWorld
    dayNightCycle,  \* is the cycle switched on
    dayTime, dayTimeChange, skyBrightness,
    worldExists,    \* the flags of gameData
    worldData,      \* what the worldData file of each world says
    days,           \* history: days begun since the program, the bed or
                    \* leaving a world set the sky
    used            \* history: which of the keys F4 and F5 ("keys") and the
                    \* screen that edits world data ("edit") were used

sky  == <<dayTime, dayTimeChange, skyBrightness, days>>
vars == <<UIState, selected, dayNightCycle, dayTime, dayTimeChange,
          skyBrightness, worldExists, worldData, days, used>>

Now == [cycle |-> dayNightCycle, time |-> dayTime, change |-> dayTimeChange,
        brightness |-> skyBrightness, days |-> days]

Dawn(t) == (t > DawnFrom /\ t < DayLength) \/ (t > 0 /\ t < DawnTo)
Dusk(t) == t > DuskFrom /\ t < DuskTo

\* What the program starts with, and what leaving a world sets.
SkyReset ==
    /\ dayTime' = DayLength
    /\ dayTimeChange' = 0
    /\ skyBrightness' = Half
    /\ days' = 0

Init ==
    /\ UIState = "worlds"
    /\ selected \in World
    /\ dayNightCycle = FALSE
    /\ dayTime = DayLength
    /\ dayTimeChange = 0
    /\ skyBrightness = Half
    /\ days = 0
    /\ worldExists = [w \in World |-> FALSE]
    /\ worldData = [w \in World |-> Now]
    /\ used = {}

----------------------------------------------------------------------------
(* A second passes.  The main loop counts it in a world and also on the    *)
(* screen that edits world data: only UIState 9 to 12 stop the clock.      *)

\* Mutant: the day is one second too long.
TickLongDay ==
    /\ UIState \in {"game", "edit"}
    /\ dayNightCycle
    /\ LET t == IF dayTime > DayLength THEN 0 ELSE dayTime + 1
           c == IF Dawn(t) \/ Dusk(t) THEN dayTimeChange + 1
                ELSE dayTimeChange
       IN  /\ dayTime' = t
           /\ dayTimeChange' = IF c = StepLength THEN 0 ELSE c
           /\ skyBrightness' = IF c # StepLength THEN skyBrightness
                               ELSE IF Dawn(t) THEN skyBrightness + 1
                               ELSE skyBrightness - 1
           /\ days' = IF t = 0 THEN days + 1 ELSE days
    /\ days' <= MaxDays
    /\ skyBrightness' \in -Margin .. Full + Margin
    /\ UNCHANGED <<UIState, selected, dayNightCycle, worldExists, worldData>>

\* Mutant: the sky never brightens before DayLength.
TickNoDawn ==
    /\ UIState \in {"game", "edit"}
    /\ dayNightCycle
    /\ dayTime' = IF dayTime + 1 > DayLength THEN 0 ELSE dayTime + 1
    /\ IF Dusk(dayTime')
       THEN /\ dayTimeChange' = (dayTimeChange + 1) % StepLength
            /\ skyBrightness' = IF dayTimeChange' = 0 THEN skyBrightness - 1
                                ELSE skyBrightness
       ELSE UNCHANGED <<dayTimeChange, skyBrightness>>
    /\ days' = IF dayTime' = 0 THEN days + 1 ELSE days
    /\ days' <= MaxDays
    /\ skyBrightness' \in -Margin .. Full + Margin
    /\ UNCHANGED <<UIState, selected, dayNightCycle, worldExists, worldData>>

(* The bounds stop the clock at the end of MaxDays days, and when the sky  *)
(* is Margin beyond the table.                                             *)
Tick ==
    /\ UIState \in {"game", "edit"}
    /\ dayNightCycle
    /\ LET t == IF dayTime + 1 > DayLength THEN 0 ELSE dayTime + 1
           c == IF Dawn(t) \/ Dusk(t) THEN dayTimeChange + 1
                ELSE dayTimeChange
       IN  /\ dayTime' = t
           /\ dayTimeChange' = IF c = StepLength THEN 0 ELSE c
           /\ skyBrightness' = IF c # StepLength THEN skyBrightness
                               ELSE IF Dawn(t) THEN skyBrightness + 1
                               ELSE skyBrightness - 1
           /\ days' = IF t = 0 THEN days + 1 ELSE days
    /\ days' <= MaxDays
    /\ skyBrightness' \in -Margin .. Full + Margin
    /\ UNCHANGED <<UIState, selected, dayNightCycle, worldExists, worldData>>

\* With the cycle off the first second makes full daylight.
TickWithoutCycle ==
    /\ UIState \in {"game", "edit"}
    /\ ~dayNightCycle
    /\ dayTime = DayLength
    /\ dayTime' = 0
    /\ skyBrightness' = Full
    /\ UNCHANGED <<UIState, selected, dayNightCycle, dayTimeChange,
                   worldExists, worldData, days>>

(* 9 on a bed.                                                             *)
Sleep ==
    /\ UIState = "game"
    /\ dayNightCycle
    /\ skyBrightness < Half
    /\ SkyReset
    /\ UNCHANGED <<UIState, selected, dayNightCycle, worldExists, worldData>>

(* F4 and F5.                                                              *)
Brighter ==
    /\ UIState = "game"
    /\ skyBrightness' = IF skyBrightness + 1 > Full THEN Full
                        ELSE skyBrightness + 1
    /\ UNCHANGED <<UIState, selected, dayNightCycle, dayTime, dayTimeChange,
                   worldExists, worldData, days>>

Darker ==
    /\ UIState = "game"
    /\ skyBrightness' = IF skyBrightness - 1 < 1 THEN 1
                        ELSE skyBrightness - 1
    /\ UNCHANGED <<UIState, selected, dayNightCycle, dayTime, dayTimeChange,
                   worldExists, worldData, days>>

----------------------------------------------------------------------------
(* The world screens.                                                      *)

\* EXE on an empty slot: the time is set, the brightness is not.
OpenEmptySlot(w) ==
    /\ UIState = "worlds" /\ ~worldExists[w]
    /\ UIState' = "create"
    /\ selected' = w
    /\ dayTime' = DayLength
    /\ dayTimeChange' = 0
    /\ UNCHANGED <<dayNightCycle, skyBrightness, worldExists, worldData, days>>

\* The five values of the file; loadWorldData.
Read(w) ==
    /\ dayNightCycle' = worldData[w].cycle
    /\ skyBrightness' = worldData[w].brightness

\* Mutant: a world without the cycle keeps the time of its file.
OpenWorldKeepsTime(w) ==
    /\ UIState = "worlds" /\ worldExists[w]
    /\ UIState' = "game"
    /\ selected' = w
    /\ Read(w)
    /\ dayTime' = worldData[w].time
    /\ dayTimeChange' = worldData[w].change
    /\ days' = worldData[w].days
    /\ UNCHANGED <<worldExists, worldData>>

\* Mutant: the time is reset for every world.
OpenWorldAtDayLength(w) ==
    /\ UIState = "worlds" /\ worldExists[w]
    /\ UIState' = "game"
    /\ selected' = w
    /\ Read(w)
    /\ dayTime' = DayLength
    /\ dayTimeChange' = 0
    /\ days' = worldData[w].days
    /\ UNCHANGED <<worldExists, worldData>>

\* EXE on a used slot.
OpenWorld(w) ==
    /\ UIState = "worlds" /\ worldExists[w]
    /\ UIState' = "game"
    /\ selected' = w
    /\ Read(w)
    /\ dayTime' = IF worldData[w].cycle THEN worldData[w].time ELSE DayLength
    /\ dayTimeChange' = IF worldData[w].cycle THEN worldData[w].change ELSE 0
    /\ days' = worldData[w].days
    /\ UNCHANGED <<worldExists, worldData>>

DeleteWorld(w) ==
    /\ UIState = "worlds" /\ worldExists[w]
    /\ worldExists' = [worldExists EXCEPT ![w] = FALSE]
    /\ UNCHANGED <<UIState, selected, dayNightCycle, worldData, sky>>

\* "Convert old/Recover world" on an empty slot.
RecoverWorld(w) ==
    /\ UIState = "worlds" /\ ~worldExists[w]
    /\ UIState' = "edit"
    /\ selected' = w
    /\ UNCHANGED <<dayNightCycle, worldExists, worldData, sky>>

\* "Edit world data" on a used slot: time set, brightness from the file.
EditWorld(w) ==
    /\ UIState = "worlds" /\ worldExists[w]
    /\ UIState' = "edit"
    /\ selected' = w
    /\ Read(w)
    /\ dayTime' = DayLength
    /\ dayTimeChange' = 0
    /\ days' = worldData[w].days
    /\ UNCHANGED <<worldExists, worldData>>

ToggleCycle ==
    /\ UIState \in {"create", "edit"}
    /\ dayNightCycle' = ~dayNightCycle
    /\ IF UIState = "edit" /\ dayNightCycle'
       THEN dayTime' = DayLength ELSE UNCHANGED dayTime
    /\ UNCHANGED <<UIState, selected, dayTimeChange, skyBrightness,
                   worldExists, worldData, days>>

Cancel ==
    /\ UIState \in {"create", "edit"}
    /\ UIState' = "worlds"
    /\ UNCHANGED <<selected, dayNightCycle, worldExists, worldData, sky>>

\* saveWorldData and the flag in gameData.
Write ==
    /\ worldExists' = [worldExists EXCEPT ![selected] = TRUE]
    /\ worldData' = [worldData EXCEPT ![selected] = Now]

CreateWorld ==
    /\ UIState = "create"
    /\ UIState' = "game"
    /\ Write
    /\ UNCHANGED <<selected, dayNightCycle, sky>>

SaveEdited ==
    /\ UIState = "edit"
    /\ UIState' = "worlds"
    /\ Write
    /\ UNCHANGED <<selected, dayNightCycle, sky>>

SaveGame ==
    /\ UIState = "game"
    /\ Write
    /\ UNCHANGED <<UIState, selected, dayNightCycle, sky>>

\* Mutant: the sky is left to the next world.
QuitKeepsSky ==
    /\ UIState = "game"
    /\ UIState' = "worlds"
    /\ Write \/ UNCHANGED <<worldExists, worldData>>
    /\ UNCHANGED <<selected, dayNightCycle, sky>>

\* The game menu, with and without saving first.
Quit ==
    /\ UIState = "game"
    /\ UIState' = "worlds"
    /\ Write \/ UNCHANGED <<worldExists, worldData>>
    /\ SkyReset
    /\ UNCHANGED <<selected, dayNightCycle>>

(* EXIT, or the calculator is switched off, on any screen: the files stay. *)
Restart ==
    /\ UIState' = "worlds"
    /\ dayNightCycle' = FALSE
    /\ SkyReset
    /\ UNCHANGED <<selected, worldExists, worldData>>

----------------------------------------------------------------------------
SkyNext   == Tick \/ TickWithoutCycle \/ Sleep
SlotsNext == \/ \E w \in World : OpenEmptySlot(w) \/ OpenWorld(w)
                                    \/ DeleteWorld(w)
             \/ ToggleCycle \/ Cancel \/ CreateWorld \/ SaveGame \/ Quit
             \/ Restart
EditNext  == (\E w \in World : RecoverWorld(w) \/ EditWorld(w)) \/ SaveEdited
KeysNext  == Brighter \/ Darker

Next == \/ (SkyNext \/ SlotsNext) /\ UNCHANGED used
        \/ EditNext /\ used' = used \cup {"edit"}
        \/ KeysNext /\ used' = used \cup {"keys"}
Spec == Init /\ [][Next]_vars

\* The main loop calls Tick whenever a second has passed, for as long as a
\* world is open; nobody has to sleep, leave or save.
Second   == Tick /\ UNCHANGED used
FairSpec == Spec /\ WF_vars(Second)

----------------------------------------------------------------------------
(* Type correctness of the clock, the sky and the files.                   *)
Sky == [cycle : BOOLEAN, time : 0..DayLength, change : 0..StepLength - 1,
        brightness : -Margin..Full + Margin, days : 0..MaxDays]

ClockTyped ==
    /\ UIState \in {"worlds", "create", "edit", "game"}
    /\ selected \in World
    /\ Now \in Sky
    /\ worldExists \in [World -> BOOLEAN]
    /\ worldData \in [World -> Sky]

TypeOK == ClockTyped /\ used \in SUBSET {"edit", "keys"}

(* No index skyColors[skyBrightness - 1] taken in a world is outside the   *)
(* table, through days, nights, sleep, saving, leaving, creating another   *)
(* world and coming back.  It holds for ten days and without the edit      *)
(* screen; the keys clamp the sky but not the clock.                       *)
SkyInTable == UIState = "game" /\ used = {} => skyBrightness \in 1..Full

(* doc/new features.txt promises more: that enabling the cycle in a world  *)
(* that was created before causes no range errors.  It does not hold.      *)
EditKeepsSkyInTable ==
    UIState = "game" /\ "keys" \notin used => skyBrightness \in 1..Full

(* Though it is only counted, the brightness goes with the time of day: the *)
(* sky is bright between dawn and dusk, and dark between dusk and dawn.    *)
SkyFollowsClock ==
    UIState = "game" /\ dayNightCycle /\ used = {} =>
        /\ dayTime \in DawnTo..DuskFrom => skyBrightness >= Full - 1
        /\ dayTime \in DuskTo..DawnFrom => skyBrightness <= 2

(* Ten days of a sky that is only counted: in its table, and in step.      *)
SkyKept == SkyInTable /\ SkyFollowsClock

(* A world without the cycle is in full daylight from its first second on, *)
(* whatever the sky was before it was opened, unless a key changed it.     *)
DaylightWithoutCycle ==
    UIState = "game" /\ ~dayNightCycle /\ dayTime # DayLength /\ "keys" \notin used
        => skyBrightness = Full

(* A new world does not start with the sky of another: its file says Half  *)
(* at dayTime = DayLength, whichever worlds were played and left before    *)
(* and whatever F4 and F5 did to them, as long as none was edited.         *)
NewWorldsStartAtHalf ==
    [][ (UIState = "create" /\ UIState' = "game" /\ "edit" \notin used)
          => /\ worldData'[selected].brightness = Half
             /\ worldData'[selected].time = DayLength
             /\ worldData'[selected].change = 0 ]_vars

(* Every night ends in daylight, with or without a bed, however often the  *)
(* game is saved in it, as long as days are followed, the world is not left *)
(* and its sky is not set by hand.                                         *)
NightEnds == (/\ UIState = "game" /\ dayNightCycle /\ used = {}
              /\ skyBrightness < Half /\ days < MaxDays)
                 ~> (skyBrightness >= Full - 1 \/ UIState # "game" \/ used # {})
=============================================================================

--------------------------- MODULE DayNightProofs ---------------------------
(* Theorems about DayNight, for every length of the day, of dawn and of    *)
(* dusk, and every number of worlds.                                       *)
EXTENDS DayNight, TLAPS

LEMMA CounterWraps ==
    ASSUME NEW n \in Nat \ {0}, NEW c \in 0..n
    PROVE  (IF c = n THEN 0 ELSE c) \in 0..n - 1
OBVIOUS

(* A second keeps the clock, the counter and the sky in range.             *)
LEMMA TickType ==
    ASSUME ClockTyped, Tick
    PROVE  ClockTyped'
<1>. USE ClockAssumption DEF ClockTyped, Now, Sky
<1>. DEFINE t == IF dayTime + 1 > DayLength THEN 0 ELSE dayTime + 1
            c == IF Dawn(t) \/ Dusk(t) THEN dayTimeChange + 1
                 ELSE dayTimeChange
<1>1. t \in 0..DayLength /\ dayTime' = t
    BY DEF Tick
<1>2. c \in 0..StepLength /\ dayTimeChange' = IF c = StepLength THEN 0 ELSE c
    BY DEF Tick
<1>3. dayTimeChange' \in 0..StepLength - 1
    <2>. HIDE DEF c
    <2>1. StepLength \in Nat \ {0}
        OBVIOUS
    <2>. HIDE DEF ClockTyped, Now, Sky
    <2>. QED  BY <1>2, <2>1, CounterWraps
<1>4. skyBrightness' \in -Margin .. Full + Margin
    BY DEF Tick
<1>5. days' \in 0..MaxDays
    BY DEF Tick
<1>6. UNCHANGED <<UIState, selected, dayNightCycle, worldExists, worldData>>
    BY DEF Tick
<1>. HIDE DEF t, c
<1>. QED
    BY <1>1, <1>3, <1>4, <1>5, <1>6

LEMMA SkyResetType ==
    ASSUME SkyReset
    PROVE  /\ dayTime' \in 0..DayLength /\ dayTimeChange' \in 0..StepLength - 1
           /\ skyBrightness' \in -Margin..Full + Margin /\ days' \in 0..MaxDays
BY ClockAssumption DEF SkyReset

LEMMA ClockStep == ClockTyped /\ [Next]_vars => ClockTyped'
<1>. SUFFICES ASSUME ClockTyped, [Next]_vars  PROVE ClockTyped'
    OBVIOUS
<1>. USE ClockAssumption DEF ClockTyped, Now, Sky
<1>1. CASE Tick
    BY <1>1, TickType
<1>2. CASE TickWithoutCycle
    BY <1>2 DEF TickWithoutCycle
<1>3. CASE Sleep
    BY <1>3, SkyResetType DEF Sleep
<1>4. CASE Brighter
    BY <1>4 DEF Brighter
<1>5. CASE Darker
    BY <1>5 DEF Darker
<1>6. ASSUME NEW w \in World, OpenEmptySlot(w)  PROVE ClockTyped'
    BY <1>6 DEF OpenEmptySlot
<1>7. ASSUME NEW w \in World, OpenWorld(w)  PROVE ClockTyped'
    BY <1>7 DEF OpenWorld, Read
<1>8. ASSUME NEW w \in World, DeleteWorld(w)  PROVE ClockTyped'
    BY <1>8 DEF DeleteWorld, sky
<1>9. ASSUME NEW w \in World, RecoverWorld(w)  PROVE ClockTyped'
    BY <1>9 DEF RecoverWorld, sky
<1>10. ASSUME NEW w \in World, EditWorld(w)  PROVE ClockTyped'
    BY <1>10 DEF EditWorld, Read
<1>11. CASE ToggleCycle
    BY <1>11 DEF ToggleCycle
<1>12. CASE Cancel
    BY <1>12 DEF Cancel, sky
<1>13. CASE CreateWorld
    BY <1>13 DEF CreateWorld, Write, sky
<1>14. CASE SaveEdited
    BY <1>14 DEF SaveEdited, Write, sky
<1>15. CASE SaveGame
    BY <1>15 DEF SaveGame, Write, sky
<1>16. CASE Quit
    BY <1>16, SkyResetType DEF Quit, Write
<1>17. CASE Restart
    BY <1>17, SkyResetType DEF Restart
<1>18. CASE UNCHANGED vars
    BY <1>18 DEF vars
<1>. QED
    BY <1>1, <1>2, <1>3, <1>4, <1>5, <1>6, <1>7, <1>8, <1>9, <1>10, <1>11,
       <1>12, <1>13, <1>14, <1>15, <1>16, <1>17, <1>18
       DEF Next, SkyNext, SlotsNext, EditNext, KeysNext

LEMMA ClockInit == Init => ClockTyped
<1>. SUFFICES ASSUME Init  PROVE ClockTyped
    OBVIOUS
<1>1. /\ dayTime \in 0..DayLength /\ dayTimeChange \in 0..StepLength - 1
      /\ skyBrightness \in -Margin..Full + Margin /\ days \in 0..MaxDays
    BY ClockAssumption DEF Init
<1>2. Now \in Sky
    BY <1>1 DEF Init, Now, Sky
<1>3. worldData \in [World -> Sky]
    BY <1>2 DEF Init
<1>. QED
    BY <1>2, <1>3 DEF Init, ClockTyped

LEMMA TypeInit == Init => TypeOK
BY ClockInit DEF Init, TypeOK

LEMMA TypeStep == TypeOK /\ [Next]_vars => TypeOK'
<1>. SUFFICES ASSUME TypeOK, [Next]_vars  PROVE TypeOK'
    OBVIOUS
<1>1. ClockTyped'
    BY ClockStep DEF TypeOK
<1>2. used' \in SUBSET {"edit", "keys"}
    BY DEF TypeOK, Next, vars
<1>. QED
    BY <1>1, <1>2 DEF TypeOK

(* The clock, its counter, the sky and every saved file stay in range.     *)
THEOREM TypeCorrect == Spec => []TypeOK
BY TypeInit, TypeStep, PTL DEF Spec

----------------------------------------------------------------------------
(* DaylightWithoutCycle is inductive once the creation screen is known to  *)
(* stand at dayTime = DayLength: a world is entered there or from a file,  *)
(* and without the cycle both ways start at DayLength.                     *)
DaylightInv ==
    /\ DaylightWithoutCycle
    /\ UIState = "create" => dayTime = DayLength

LEMMA DaylightStep == DaylightInv /\ [Next]_vars => DaylightInv'
<1>. SUFFICES ASSUME DaylightInv, [Next]_vars  PROVE DaylightInv'
    OBVIOUS
<1>0. "keys" \notin used' => "keys" \notin used
    BY DEF Next, vars
<1>. USE <1>0 DEF DaylightInv, DaylightWithoutCycle
<1>1. CASE Tick
    BY <1>1 DEF Tick
<1>2. CASE TickWithoutCycle
    BY <1>2 DEF TickWithoutCycle
<1>3. CASE Sleep
    BY <1>3 DEF Sleep
<1>4. ASSUME NEW w \in World, OpenEmptySlot(w)  PROVE DaylightInv'
    BY <1>4 DEF OpenEmptySlot
<1>5. ASSUME NEW w \in World, OpenWorld(w)  PROVE DaylightInv'
    BY <1>5 DEF OpenWorld, Read
<1>6. ASSUME NEW w \in World, DeleteWorld(w)  PROVE DaylightInv'
    BY <1>6 DEF DeleteWorld, sky
<1>7. ASSUME NEW w \in World, RecoverWorld(w) \/ EditWorld(w)
      PROVE  DaylightInv'
    BY <1>7 DEF RecoverWorld, EditWorld
<1>8. CASE ToggleCycle
    BY <1>8 DEF ToggleCycle
<1>9. CASE Cancel
    BY <1>9 DEF Cancel
<1>10. CASE CreateWorld
    BY <1>10 DEF CreateWorld, sky
<1>11. CASE SaveEdited
    BY <1>11 DEF SaveEdited
<1>12. CASE SaveGame
    BY <1>12 DEF SaveGame, sky
<1>13. CASE Quit \/ Restart
    BY <1>13 DEF Quit, Restart
<1>14. CASE UNCHANGED vars
    BY <1>14 DEF vars
<1>15. CASE KeysNext /\ used' = used \cup {"keys"}
  <2>1. "keys" \in used'
      BY <1>15
  <2>2. UIState' = "game"
      BY <1>15 DEF KeysNext, Brighter, Darker
  <2>. QED
      BY <2>1, <2>2
<1>. QED
    BY <1>1, <1>2, <1>3, <1>4, <1>5, <1>6, <1>7, <1>8, <1>9, <1>10, <1>11,
       <1>12, <1>13, <1>14, <1>15 DEF Next, SkyNext, SlotsNext, EditNext

(* A world without the cycle is in full daylight after its first second,   *)
(* however the file came about: played, edited, recovered, or switched     *)
(* from a world with the cycle; as long as F4 and F5 are not used.          *)
THEOREM DaylightCorrect == Spec => []DaylightWithoutCycle
<1>1. Init => DaylightInv
    BY DEF Init, DaylightInv, DaylightWithoutCycle
<1>2. DaylightInv => DaylightWithoutCycle
    BY DEF DaylightInv
<1>. QED
    BY <1>1, <1>2, DaylightStep, PTL DEF Spec

----------------------------------------------------------------------------
(* Outside a world the sky is the one a world starts with.                 *)
ScreensInv ==
    UIState # "game" /\ "edit" \notin used
                     => /\ UIState \in {"worlds", "create"}
                        /\ dayTime = DayLength
                        /\ dayTimeChange = 0
                        /\ skyBrightness = Half

HalfStep ==
    (UIState = "create" /\ UIState' = "game" /\ "edit" \notin used)
        => /\ worldData'[selected].brightness = Half
           /\ worldData'[selected].time = DayLength
           /\ worldData'[selected].change = 0

LEMMA ScreensStep ==
    TypeOK /\ ScreensInv /\ [Next]_vars => ScreensInv' /\ [HalfStep]_vars
<1>. SUFFICES ASSUME TypeOK, ScreensInv, [Next]_vars
              PROVE  ScreensInv' /\ HalfStep
    OBVIOUS
<1>0. "edit" \notin used' => "edit" \notin used
    BY DEF Next, vars
<1>. USE <1>0 DEF ScreensInv, HalfStep
<1>1. CASE Tick
    BY <1>1 DEF Tick
<1>2. CASE TickWithoutCycle
    BY <1>2 DEF TickWithoutCycle
<1>3. CASE Sleep
    BY <1>3 DEF Sleep
<1>4. ASSUME NEW w \in World, OpenEmptySlot(w)
      PROVE  ScreensInv' /\ HalfStep
    BY <1>4 DEF OpenEmptySlot
<1>5. ASSUME NEW w \in World, OpenWorld(w)  PROVE ScreensInv' /\ HalfStep
    BY <1>5 DEF OpenWorld
<1>6. ASSUME NEW w \in World, DeleteWorld(w)  PROVE ScreensInv' /\ HalfStep
    BY <1>6 DEF DeleteWorld, sky
<1>7. CASE ToggleCycle
    BY <1>7 DEF ToggleCycle
<1>8. CASE Cancel
    BY <1>8 DEF Cancel, sky
<1>9. CASE CreateWorld
    BY <1>9 DEF CreateWorld, Write, Now, TypeOK, ClockTyped
<1>10. CASE SaveGame
    BY <1>10 DEF SaveGame
<1>11. CASE Quit
    BY <1>11 DEF Quit, SkyReset
<1>12. CASE Restart
    BY <1>12 DEF Restart, SkyReset
<1>13. CASE UNCHANGED vars
    BY <1>13 DEF vars
<1>14. CASE KeysNext
    BY <1>14 DEF KeysNext, Brighter, Darker
<1>15. CASE EditNext /\ used' = used \cup {"edit"}
    BY <1>15 DEF EditNext, RecoverWorld, EditWorld, SaveEdited
<1>. QED
    BY <1>1, <1>2, <1>3, <1>4, <1>5, <1>6, <1>7, <1>8, <1>9, <1>10, <1>11,
       <1>12, <1>13, <1>14, <1>15 DEF Next, SkyNext, SlotsNext

(* A new world never starts with the sky of another one, as long as the    *)
(* edit screen is not used.                                                *)
THEOREM NewWorldsCorrect == Spec => NewWorldsStartAtHalf
<1>1. Init => ScreensInv
    BY DEF Init, ScreensInv
<1>2. HalfStep => ((UIState = "create" /\ UIState' = "game" /\ "edit" \notin used)
          => /\ worldData'[selected].brightness = Half
             /\ worldData'[selected].time = DayLength
             /\ worldData'[selected].change = 0)
    BY DEF HalfStep
<1>. QED
    BY <1>1, <1>2, TypeInit, TypeStep, ScreensStep, PTL
       DEF Spec, NewWorldsStartAtHalf

----------------------------------------------------------------------------
(* The numbers of the program: the main loop (28254-28301), skyColors and  *)
(* the brightness a world starts with.                                     *)
RealClock ==
    /\ DayLength = 1200 /\ DawnFrom = 1140 /\ DawnTo = 80
    /\ DuskFrom = 520 /\ DuskTo = 660
    /\ StepLength = 10 /\ Full = 16 /\ Half = 8
    /\ MaxDays <= 10

(* The brightness and the counter at noon of day d.  Dawn has 138 seconds  *)
(* and dusk 139, so the counter loses 3 a day.  When it passes 0 a dusk    *)
(* is one step short, when it passes 1 or 2 the dawn after it is.          *)
NoonSky(d)    == IF d \in 5..7 THEN 16 ELSE 15
NoonChange(d) == IF d <= 4 THEN 12 - 3 * d ELSE IF d <= 7 THEN 22 - 3 * d
                 ELSE 32 - 3 * d
NightSky(d)    == IF NoonChange(d) = 0 THEN NoonSky(d) - 13 ELSE NoonSky(d) - 14
NightChange(d) == IF NoonChange(d) = 0 THEN 9 ELSE NoonChange(d) - 1

(* At second t of a day 10 * brightness + change counts up through dawn,   *)
(* and 10 * brightness - change counts down through dusk.                  *)
InPhase(s) ==
    LET t == s.time
        P == 10 * s.brightness + s.change
        Q == 10 * s.brightness - s.change
        noon  == NoonSky(s.days)
        night == NightSky(s.days)
        n == NoonChange(s.days)
        m == NightChange(s.days)
    IN  /\ t \in 0..79      => P = 10 * noon + n - 79 + t
        /\ t \in 80..520    => s.brightness = noon /\ s.change = n
        /\ t \in 521..659   => Q = 10 * noon - n + 520 - t
        /\ t \in 660..1140  => s.brightness = night /\ s.change = m
        /\ t \in 1141..1199 => P = 10 * night + m + t - 1140
        /\ t = 1200         => P = 10 * night + m + 59

(* The skies that were only counted since they were set: where the clock   *)
(* says, or before the first day.                                          *)
Counted ==
    {s \in Sky : \/ s.days = 0 /\ s.time = 1200 /\ s.brightness = 8 /\ s.change = 0
                 \/ s.days \in 1..10 /\ InPhase(s)}

GoodSky(s) == IF s.cycle THEN s \in Counted ELSE s.brightness \in {Half, Full}

SkyInv ==
    used = {} =>
        /\ UIState # "edit"
        /\ UIState = "game" => GoodSky(Now)
        /\ UIState # "game" => /\ dayTime = DayLength /\ dayTimeChange = 0
                               /\ skyBrightness = Half /\ days = 0
        /\ \A w \in World : GoodSky(worldData[w])

LEMMA RealSky ==
    ASSUME RealClock, NEW s \in Sky
    PROVE  /\ s.days \in 0..10 /\ s.time \in 0..1200 /\ s.change \in 0..9
           /\ s.brightness \in Int
<1>1. MaxDays \in Nat /\ Margin \in Nat
    BY ClockAssumption
<1>2. /\ s.days \in 0..MaxDays /\ s.time \in 0..DayLength
      /\ s.change \in 0..StepLength - 1 /\ s.brightness \in -Margin..Full + Margin
    BY DEF Sky
<1>. QED
    BY <1>1, <1>2 DEF RealClock

LEMMA NoonAndNight ==
    ASSUME NEW d \in 1..10
    PROVE  /\ NoonSky(d) \in {15, 16} /\ NoonChange(d) \in 0..9
           /\ NightSky(d) \in {1, 2} /\ NightChange(d) \in 0..9
           /\ NoonChange(d) = 0 => /\ NightChange(d) = 9
                                   /\ NightSky(d) = NoonSky(d) - 13
           /\ NoonChange(d) # 0 => /\ NightChange(d) = NoonChange(d) - 1
                                   /\ NightSky(d) = NoonSky(d) - 14
BY DEF NoonSky, NoonChange, NightSky, NightChange

(* The second of Tick, with the numbers of the program: from sky s to r.   *)
Counts(s, r) ==
    LET t == r.time
        dawn == (t > 1140 /\ t < 1200) \/ (t > 0 /\ t < 80)
        e == IF dawn \/ (t > 520 /\ t < 660) THEN s.change + 1 ELSE s.change
    IN  /\ t = IF s.time + 1 > 1200 THEN 0 ELSE s.time + 1
        /\ r.days = IF t = 0 THEN s.days + 1 ELSE s.days
        /\ r.change = IF e = 10 THEN 0 ELSE e
        /\ r.brightness = IF e # 10 THEN s.brightness
                          ELSE IF dawn THEN s.brightness + 1 ELSE s.brightness - 1

(* A second of a counted sky is counted; the day that follows begins where *)
(* the night before has ended.                                             *)
LEMMA SecondCounted ==
    ASSUME RealClock, NEW s \in Counted, NEW r \in Sky, Counts(s, r)
    PROVE  r \in Counted
<1>. DEFINE d == s.days
            t == s.time
            b == s.brightness
            c == s.change
            e == r.days
            u == r.time
            x == r.brightness
            y == r.change
<1>0. /\ d \in 0..10 /\ t \in 0..1200 /\ c \in 0..9 /\ b \in Int
      /\ e \in 0..10 /\ u \in 0..1200 /\ y \in 0..9 /\ x \in Int
    BY RealSky DEF Counted
<1>1. CASE t = 1200
  <2>1. u = 0 /\ e = d + 1 /\ x = b /\ y = c /\ e \in 1..10
      BY <1>0, <1>1 DEF Counts
  <2>2. 10 * b + c = 10 * NoonSky(e) + NoonChange(e) - 79
    <3>1. CASE d = 0
        BY <3>1, <2>1 DEF Counted, NoonSky, NoonChange
    <3>2. CASE d \in 1..9
      <4>1. 10 * b + c = 10 * NightSky(d) + NightChange(d) + 59
          BY <1>1, <3>2 DEF Counted, InPhase
      <4>. QED
          BY <2>1, <3>2, <4>1 DEF NoonSky, NoonChange, NightSky, NightChange
    <3>. QED
        BY <1>0, <2>1, <3>1, <3>2
  <2>. HIDE DEF d, t, b, c, e, u, x, y
  <2>3. 10 * x + y = 10 * NoonSky(e) + NoonChange(e) - 79 + u
      BY <1>0, <2>1, <2>2
  <2>4. InPhase(r)
      BY <2>1, <2>3 DEF InPhase, e, u, x, y
  <2>. QED
      BY <2>1, <2>4 DEF Counted, e
<1>2. CASE t < 1200
  <2>1. d \in 1..10 /\ e = d /\ u = t + 1 /\ InPhase(s)
      BY <1>0, <1>2 DEF Counted, Counts
  <2>. DEFINE noon == NoonSky(d)
              n == NoonChange(d)
              night == NightSky(d)
              m == NightChange(d)
              dawn == (u > 1140 /\ u < 1200) \/ (u > 0 /\ u < 80)
              k == IF dawn \/ (u > 520 /\ u < 660) THEN c + 1 ELSE c
  <2>2. /\ noon \in {15, 16} /\ n \in 0..9 /\ night \in {1, 2} /\ m \in 0..9
        /\ n = 0 => m = 9 /\ night = noon - 13
        /\ n # 0 => m = n - 1 /\ night = noon - 14
      BY <2>1, NoonAndNight
  <2>3. /\ t \in 0..79      => 10 * b + c = 10 * noon + n - 79 + t
        /\ t \in 80..520    => b = noon /\ c = n
        /\ t \in 521..659   => 10 * b - c = 10 * noon - n + 520 - t
        /\ t \in 660..1140  => b = night /\ c = m
        /\ t \in 1141..1199 => 10 * b + c = 10 * night + m + t - 1140
      BY <2>1 DEF InPhase
  <2>4. /\ y = IF k = 10 THEN 0 ELSE k
        /\ x = IF k # 10 THEN b ELSE IF dawn THEN b + 1 ELSE b - 1
      BY DEF Counts
  <2>. HIDE DEF d, t, b, c, e, u, x, y, noon, n, night, m
  <2>5. /\ u \in 0..79      => 10 * x + y = 10 * noon + n - 79 + u
        /\ u \in 80..520    => x = noon /\ y = n
        /\ u \in 521..659   => 10 * x - y = 10 * noon - n + 520 - u
        /\ u \in 660..1140  => x = night /\ y = m
        /\ u \in 1141..1199 => 10 * x + y = 10 * night + m + u - 1140
        /\ u = 1200         => 10 * x + y = 10 * night + m + 59
    <3>1. CASE t \in 0..79
        BY <3>1, <1>0, <2>1, <2>2, <2>3, <2>4
    <3>2. CASE t \in 80..520
        BY <3>2, <1>0, <2>1, <2>2, <2>3, <2>4
    <3>3. CASE t \in 521..659
        BY <3>3, <1>0, <2>1, <2>2, <2>3, <2>4
    <3>4. CASE t \in 660..1140
        BY <3>4, <1>0, <2>1, <2>2, <2>3, <2>4
    <3>5. CASE t \in 1141..1199
        BY <3>5, <1>0, <2>1, <2>2, <2>3, <2>4
    <3>. QED
        BY <1>0, <1>2, <3>1, <3>2, <3>3, <3>4, <3>5
  <2>6. noon = NoonSky(e) /\ n = NoonChange(e) /\ night = NightSky(e) /\ m = NightChange(e)
      BY <2>1 DEF noon, n, night, m
  <2>7. InPhase(r)
      BY <2>5, <2>6 DEF InPhase, e, u, x, y
  <2>. QED
      BY <2>1, <2>7 DEF Counted, d, e
<1>. QED
    BY <1>0, <1>1, <1>2

(* What the table and the clock ask of a counted sky.                      *)
LEMMA CountedKept ==
    ASSUME RealClock, NEW s \in Counted
    PROVE  /\ s.brightness \in 1..16
           /\ s.time \in 80..520 => s.brightness >= 15
           /\ s.time \in 660..1140 => s.brightness <= 2
<1>. DEFINE d == s.days
            t == s.time
            b == s.brightness
            c == s.change
<1>0. d \in 0..10 /\ t \in 0..1200 /\ c \in 0..9 /\ b \in Int
    BY RealSky DEF Counted
<1>1. CASE d = 0
    BY <1>1 DEF Counted
<1>2. CASE d \in 1..10
  <2>1. InPhase(s)
      BY <1>2 DEF Counted
  <2>. DEFINE noon == NoonSky(d)
              n == NoonChange(d)
              night == NightSky(d)
              m == NightChange(d)
  <2>2. /\ noon \in {15, 16} /\ n \in 0..9 /\ night \in {1, 2} /\ m \in 0..9
      BY <1>2, NoonAndNight
  <2>3. /\ t \in 0..79      => 10 * b + c = 10 * noon + n - 79 + t
        /\ t \in 80..520    => b = noon
        /\ t \in 521..659   => 10 * b - c = 10 * noon - n + 520 - t
        /\ t \in 660..1140  => b = night
        /\ t \in 1141..1199 => 10 * b + c = 10 * night + m + t - 1140
        /\ t = 1200         => 10 * b + c = 10 * night + m + 59
      BY <2>1 DEF InPhase
  <2>. HIDE DEF t, b, c, noon, n, night, m
  <2>4. /\ b \in 1..16
        /\ t \in 80..520 => b >= 15
        /\ t \in 660..1140 => b <= 2
      BY <1>0, <2>2, <2>3
  <2>. QED
      BY <2>4 DEF t, b
<1>. QED
    BY <1>0, <1>1, <1>2

LEMMA TickCounted ==
    ASSUME RealClock, ClockTyped, Tick, Now \in Counted
    PROVE  Now' \in Counted
<1>1. Now' \in Sky
    BY TickType DEF ClockTyped
<1>2. Counts(Now, Now')
    BY DEF Tick, RealClock, Dawn, Dusk, Counts, Now
<1>. QED
    BY <1>1, <1>2, SecondCounted

(* A sky that is set anew may be counted from there.                       *)
LEMMA FreshCounted ==
    ASSUME NEW s \in Sky,
           s.days = 0, s.time = 1200, s.brightness = 8, s.change = 0
    PROVE  s \in Counted
BY DEF Counted

LEMMA ResetCounted ==
    ASSUME RealClock
    PROVE  [cycle |-> TRUE, time |-> DayLength, change |-> 0,
            brightness |-> Half, days |-> 0] \in Counted
<1>. DEFINE z == [cycle |-> TRUE, time |-> DayLength, change |-> 0,
                 brightness |-> Half, days |-> 0]
<1>1. 8 \in -Margin..16 + Margin /\ 0 \in 0..MaxDays
    BY ClockAssumption
<1>2. z \in Sky
    BY <1>1 DEF RealClock, Sky
<1>3. z.days = 0 /\ z.time = 1200 /\ z.brightness = 8 /\ z.change = 0
    BY DEF RealClock
<1>. HIDE DEF z
<1>4. z \in Counted
    BY <1>2, <1>3, FreshCounted
<1>. QED
    BY <1>4 DEF z

LEMMA SkyStep ==
    ASSUME RealClock, TypeOK, SkyInv, [Next]_vars
    PROVE  SkyInv'
<1>. SUFFICES ASSUME used' = {}
              PROVE  /\ UIState' # "edit"
                     /\ UIState' = "game" => GoodSky(Now')
                     /\ UIState' # "game" =>
                            /\ dayTime' = DayLength /\ dayTimeChange' = 0
                            /\ skyBrightness' = Half /\ days' = 0
                     /\ \A w \in World : GoodSky(worldData'[w])
    BY DEF SkyInv
<1>0. used = {} /\ (SkyNext \/ SlotsNext \/ UNCHANGED vars)
    BY DEF Next, vars
<1>a. /\ UIState # "edit"
      /\ UIState = "game" => GoodSky(Now)
      /\ UIState # "game" => /\ dayTime = DayLength /\ dayTimeChange = 0
                             /\ skyBrightness = Half /\ days = 0
      /\ \A w \in World : GoodSky(worldData[w])
    BY <1>0 DEF SkyInv
<1>b. ClockTyped /\ dayNightCycle \in BOOLEAN
    BY DEF TypeOK, ClockTyped, Now, Sky
<1>c. UIState # "game" => GoodSky(Now)
    BY <1>a, ResetCounted DEF GoodSky, Now
<1>d. Write => \A w \in World : GoodSky(worldData'[w])
    BY <1>a, <1>b, <1>c DEF Write, ClockTyped
<1>1. CASE Tick
  <2>1. UIState = "game" /\ dayNightCycle
      BY <1>1, <1>a DEF Tick
  <2>2. Now \in Counted
      BY <2>1, <1>a DEF GoodSky, Now
  <2>3. Now' \in Counted
      BY <1>1, <1>b, <2>2, TickCounted
  <2>4. UNCHANGED <<UIState, dayNightCycle, worldData>>
      BY <1>1 DEF Tick
  <2>. QED
      BY <1>a, <2>1, <2>3, <2>4 DEF GoodSky, Now
<1>2. CASE TickWithoutCycle
    BY <1>2, <1>a DEF TickWithoutCycle, GoodSky, Now
<1>3. CASE Sleep
    BY <1>3, <1>a, ResetCounted DEF Sleep, SkyReset, GoodSky, Now
<1>4. ASSUME NEW w \in World, OpenEmptySlot(w)
      PROVE  SkyInv'
    BY <1>4, <1>a DEF OpenEmptySlot, SkyInv
<1>5. ASSUME NEW w \in World, OpenWorld(w)  PROVE SkyInv'
  <2>1. GoodSky(worldData[w])
      BY <1>a
  <2>2. CASE worldData[w].cycle
    <3>1. Now' = worldData[w]
        BY <1>5, <1>b, <2>2 DEF OpenWorld, Read, Now, ClockTyped, Sky
    <3>. QED
        BY <1>5, <1>a, <2>1, <3>1 DEF OpenWorld, SkyInv
  <2>3. CASE ~worldData[w].cycle
    <3>1. GoodSky(Now')
        BY <1>5, <2>1, <2>3 DEF OpenWorld, Read, GoodSky, Now
    <3>. QED
        BY <1>5, <1>a, <3>1 DEF OpenWorld, SkyInv
  <2>. QED
      BY <2>2, <2>3
<1>6. ASSUME NEW w \in World, DeleteWorld(w)  PROVE SkyInv'
    BY <1>6, <1>a DEF DeleteWorld, sky, SkyInv
<1>7. CASE ToggleCycle
    BY <1>7, <1>a DEF ToggleCycle
<1>8. CASE Cancel
    BY <1>8, <1>a DEF Cancel, sky
<1>9. CASE CreateWorld
    BY <1>9, <1>c, <1>d DEF CreateWorld, sky, Now
<1>10. CASE SaveGame
    BY <1>10, <1>a, <1>d DEF SaveGame, sky, Now
<1>11. CASE Quit
    BY <1>11, <1>a, <1>d DEF Quit, SkyReset
<1>12. CASE Restart
    BY <1>12, <1>a DEF Restart, SkyReset
<1>13. CASE UNCHANGED vars
    BY <1>13, <1>a DEF vars, Now
<1>. QED
    BY <1>0, <1>1, <1>2, <1>3, <1>4, <1>5, <1>6, <1>7, <1>8, <1>9, <1>10,
       <1>11, <1>12, <1>13 DEF SkyNext, SlotsNext, SkyInv

LEMMA SkyInvKept ==
    ASSUME RealClock, TypeOK, SkyInv
    PROVE  SkyKept
<1>. SUFFICES ASSUME UIState = "game", used = {}
              PROVE  /\ skyBrightness \in 1..16
                     /\ dayNightCycle =>
                          /\ dayTime \in 80..520 => skyBrightness >= 15
                          /\ dayTime \in 660..1140 => skyBrightness <= 2
    BY DEF SkyKept, SkyInTable, SkyFollowsClock, RealClock
<1>2. GoodSky(Now)
    BY DEF SkyInv
<1>3. CASE dayNightCycle
  <2>1. Now \in Counted
      BY <1>2, <1>3 DEF GoodSky, Now
  <2>. QED
      BY <2>1, CountedKept DEF Now
<1>4. CASE ~dayNightCycle
    BY <1>2, <1>4 DEF GoodSky, Now, RealClock
<1>. QED
    BY <1>3, <1>4

(* With the numbers of the program, ten days long after a bed, a new world *)
(* or a new start has set it, the sky is in its table and goes with the    *)
(* time of day, in every world and through all saving, leaving and coming  *)
(* back; without the edit screen and the keys F4 and F5.                   *)
THEOREM SkyCorrect ==
    ASSUME RealClock
    PROVE  Spec => []SkyKept
<1>1. Init => SkyInv
    BY DEF Init, SkyInv, GoodSky, Now
<1>2. TypeOK /\ SkyInv /\ [Next]_vars => SkyInv'
    BY SkyStep
<1>3. TypeOK /\ SkyInv => SkyKept
    BY SkyInvKept
<1>. QED
    BY <1>1, <1>2, <1>3, TypeInit, TypeStep, PTL DEF Spec
=============================================================================

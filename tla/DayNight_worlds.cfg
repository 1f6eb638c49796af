SPECIFICATION FairSpec
CONSTANTS
  DayLength = 12
  DawnFrom = 10
  DawnTo = 4
  DuskFrom = 4
  DuskTo = 10
  StepLength = 2
  Full = 4
  Half = 3
  World = {w1}
  MaxDays = 2
  Margin = 1
INVARIANTS
  TypeOK
  SkyKept
  DaylightWithoutCycle
PROPERTIES
  NewWorldsStartAtHalf
  NightEnds

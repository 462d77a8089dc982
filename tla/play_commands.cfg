SPECIFICATION FairSpec
CONSTANTS
  MaxEffects = 4
  ClockMod = 1000
  BootTime = 0
  Horizon = 3
  LostBit = 4
  InfiniteFrom = 15
  Durations = {1, 5, 15}
  Delays = {0, 1}
INVARIANTS
  TypeOK
  WheelAgrees
  PlaysOnlyLoaded
  PlaysOnlyAsked
PROPERTIES
  SoloAlone
  EndsNotEarly
  ExpiredEnds
  DelayedStartResolves
\* error_loop never returns: the firmware stops, and so does the bounded clock.
CHECK_DEADLOCK FALSE

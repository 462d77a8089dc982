SPECIFICATION Spec
CONSTANTS
  MaxEffects = 3
  ClockMod = 1000
  BootTime = 0
  Horizon = 4
  LostBit = 4
  InfiniteFrom = 15
  Durations = {15}
  Delays = {0, 1}
INVARIANT
  StopIsFinal
\* error_loop never returns: the firmware stops, and so does the bounded clock.
CHECK_DEADLOCK FALSE

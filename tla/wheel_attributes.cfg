SPECIFICATION Spec
CONSTANTS
  Values = {weak, strong}
  Falling = {strong}
  Gains = {0, 1}
  Durations = {0, 1, 2}
INVARIANTS
  TypeOK
  ForceReaches
  ShapeReaches
  DurationNotStale

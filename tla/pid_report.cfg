SPECIFICATION LoopSpec
CONSTANTS
  Effects = {2, 3}
  MaxReports = 1
  WheelStates = {{}, {"ActuatorOverride"}}
INVARIANTS
  TypeOK
  NothingPendingMeansTold
  PlayBitStaleOnlyByFree
PROPERTIES
  LoopTurns

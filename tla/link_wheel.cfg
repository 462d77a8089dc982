SPECIFICATION Spec
CONSTANTS
  Samples = {1065417728, 1073677311}
  Ids = {32772, 41220}
  NoiseSizes = {6, 11, 15}
  MaxErrors = 1
  PollEvery = 1
INVARIANTS
  TypeOK
  KnowsDeviceState
  ConnectedOnceFound
  ReportOrders
PROPERTIES
  KeptIfHeard
  WheelFound
  PositionReaches
  StateReaches
  UnpluggedNoticed

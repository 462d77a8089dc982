SPECIFICATION Spec
CONSTANTS
  CustomForce = FALSE
  Ids = {2}
  Kinds = {"SetEffect", "EffectOperation", "DeviceControl", "DriverPair"}
  MaxReports = 3
  EpSize = 32
  BufSize = 32
INVARIANTS
  TypeOK
  HandledAsWritten
  AnswersLastCreate
PROPERTIES
  EveryReportHandled
CHECK_DEADLOCK FALSE

SPECIFICATION Spec
CONSTANTS
  Effects = {2, 3}
  MaxReports = 2
  WheelStates = {{}, {"ActuatorOverride"}}
PROPERTIES
  PacketReadToItsEnd

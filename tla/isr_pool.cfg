SPECIFICATION AtomicSpec
CONSTANTS
  MaxEffects = 4
  ByteWidth = 4
  SlotBound = 4
INVARIANTS
  IsrTypeOK
PROPERTIES
  ImplementsPool
\* error_loop never returns: the firmware stops.
CHECK_DEADLOCK FALSE

SPECIFICATION Spec
CONSTANTS
  MaxEffects = 12
  ByteWidth = 8
INVARIANT OwnBlocks
CHECK_DEADLOCK FALSE

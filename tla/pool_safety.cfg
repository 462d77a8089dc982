\* Three effect slots and ten parameter blocks in two 5-bit bytes (the code: ten
\* usable slots, 24 blocks, three 8-bit bytes).
SPECIFICATION Spec
CONSTANTS
  MaxEffects = 5
  ByteWidth = 5
INVARIANTS
  TypeOK
  SlotAccounting
  NextIsLowestFree
  HostView
  BlocksOfLiveEffects
PROPERTY ImplementsSlots
\* error_loop never returns: the firmware stops.
CHECK_DEADLOCK FALSE

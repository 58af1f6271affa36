SPECIFICATION Spec
CONSTANTS
  Commands = {shutdown}
  Origins = {ui}
  MaxSeq = 3
INVARIANT OnlySlotTimerArmed
PROPERTY ImplementsSlot
CHECK_DEADLOCK FALSE

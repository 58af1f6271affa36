SPECIFICATION Spec
CONSTANTS
  Sources = {lan}
  QueueCapacity = 1
  MergeThreshold = 1
  MaxRetries = 1
  HeldCapacity = 1
  AggregateWindow = 1
  HoldRecheck = 2
  QuietStart = 0
  QuietEnd = 1
  SecurityBypass = FALSE
  Digest = TRUE
  MuteLengths = {1}
  MaxEvents = 3
  MaxTime = 2
INVARIANT NothingVanishes
INVARIANT NoLossOnClose
PROPERTY DirectInOrder
PROPERTY HeldReleased
CHECK_DEADLOCK FALSE

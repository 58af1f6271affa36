SPECIFICATION AwakeSpec
CONSTANTS
  Periods = {0, 1, 2}
  MaxSeq = 5
  MaxTime = 4
  MaxBacks = 1
INVARIANT OnHoldsRequest
INVARIANT OffReleases
 
PROPERTY PeriodEnds
CHECK_DEADLOCK FALSE

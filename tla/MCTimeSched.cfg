SPECIFICATION Spec
CONSTANTS
  MaxTime = 70
  MaxNow = 27
  MaxEnables = 2
  CastDomain = 1
  NextDomain = 4
  Starts = {20, 23}
  Exprs <- Settling
INVARIANTS Accurate EdgesKept
CHECK_DEADLOCK FALSE

CONSTANTS
  None = None
  MaxSize = 3
  MaxRefill = 3
  MaxPeriod = 3
  MaxTime = 7
SPECIFICATION Spec
INVARIANTS RollingLimit RefusedOnlyWhenUsedUp

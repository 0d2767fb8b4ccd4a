CONSTANTS
  Loads = {l1}
  Payments = {p1}
  MaxVersion = 1
  PoolLimit = 2
SPECIFICATION Spec
INVARIANTS
  NonDesktopIsFresh

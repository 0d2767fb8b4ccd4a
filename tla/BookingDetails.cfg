CONSTANTS
  Loads = {l1, l2}
  Payments = {p1}
  MaxVersion = 2
  PoolLimit = 2
SYMMETRY Symmetry
SPECIFICATION Spec
INVARIANTS
  TypeOK
  AppIsFresh
  StaleDetailsExplained

SPECIFICATION MCSpec
CONSTANTS
  Pairs <- Grown
  k = 2
  l = 2
  AfterDamage = FALSE
  none = none
  MaxSteps = 4
  NoMeta = none
INVARIANTS QueriesExact WellFormed
CHECK_DEADLOCK FALSE

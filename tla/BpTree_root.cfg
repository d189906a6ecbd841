SPECIFICATION EmptySpec
CONSTANTS
  Pairs <- ManyKeys
  k = 2
  l = 2
  AfterDamage = TRUE
  none = none
  MaxSteps = 0
  NoMeta = none
INVARIANT FindsAllEntries
CHECK_DEADLOCK FALSE

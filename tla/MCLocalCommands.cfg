CONSTANTS
  Shells = {s1, s2, s3}
  Runs = {s1, s2, s3}
  Ids = {i1, i2}
  Starts <- MCStarts
  Stamps = {t1}
  Empty = empty
  Torn = torn
  Null = null
  None = none
SPECIFICATION Spec
SYMMETRY Symmetry
INVARIANTS ReplayNeedsOverlapOrTear ProgressNeedsOverlapToVanish OriginalRecoverable
CHECK_DEADLOCK FALSE

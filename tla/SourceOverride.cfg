SPECIFICATION Spec
CONSTANTS
  p1 = p1
  NoPath = NoPath
  Path <- Paths
  MAX_RETRIES = 3
INVARIANTS
  OverrideIsForOneTarball

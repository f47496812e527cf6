SPECIFICATION SlowSpec
CONSTANTS
  Writers = {a, b}
  Nobody = Nobody
  WindowSize = 2
  MaxAccepted = 5
  MaxSlowFaults = 1
INVARIANT SlowCanonicalIsLatest
CHECK_DEADLOCK FALSE

SPECIFICATION Spec
CONSTANTS
  Hooks = {k1}
  Events = {1}
  Workers = {w1, w2}
  Operators = {o1, o2}
  MaxAttempts = 3
  DisableAfter = 2
  MaxCrashes = 0
  MaxOps = 0
  Slow = FALSE
  None = None
INVARIANTS
  AcceptedOnce
CHECK_DEADLOCK FALSE

SPECIFICATION Spec
CONSTANTS
  Callers = {c1, c2}
  Plans = {p1}
  PendingTTL = 1
  Retention = 2
  MaxTime = 0
  MaxCalls = 3
  None = None
INVARIANT NoConcurrentCalls
CHECK_DEADLOCK FALSE

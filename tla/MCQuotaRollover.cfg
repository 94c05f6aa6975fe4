SPECIFICATION Spec
CONSTANTS
  Callers = {c1, c2}
  Keys = {}
  Events = {}
  LastMonth = 1
  Limits = {1}
  MaxQuantity = 1
  MaxCalls = 2
  None = None
INVARIANT WithinLimit
